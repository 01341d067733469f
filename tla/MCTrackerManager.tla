--------------------------- MODULE MCTrackerManager ---------------------------
(***************************************************************************)
(* TrackerManager with the torrent's announce lists chosen: trackers with  *)
(* one http URL each, or one tracker with a mixed list.                    *)
(***************************************************************************)
EXTENDS TrackerManager

SingleUrl == [t \in Trackers |-> <<"http">>]
MixedUrls == [t \in Trackers |-> <<"http", "udp", "http", "udp">>]

\* The trackers of one torrent are interchangeable.
Hosts == Permutations(Trackers)
==============================================================================
