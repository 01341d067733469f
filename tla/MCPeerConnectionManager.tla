----------------------- MODULE MCPeerConnectionManager -----------------------
(***************************************************************************)
(* PeerConnectionManager for model checking.  The configurations differ in *)
(* who may contact whom: trackers only, trackers and our server socket, or *)
(* the smallest instance that shows one disagreement.                      *)
(***************************************************************************)
EXTENDS PeerConnectionManager

\* Contacts that only trackers report are interchangeable.
Contacts == Permutations(TrackerContacts)
==============================================================================
