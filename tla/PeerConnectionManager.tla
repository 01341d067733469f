------------------------ MODULE PeerConnectionManager ------------------------
(***************************************************************************)
(* PeerConnectionManager: the thread that turns peer contacts into         *)
(* connected, handshaken peers and hands these to the transfer manager.    *)
(*                                                                         *)
(* All its code runs in callbacks of one libev loop, so a callback is one  *)
(* step unless it drains a queue another thread is filling: the two loops  *)
(* that do (drain_discovered and the round robin scheduler) take a step    *)
(* per item, and `loop' says which of them is on the stack.  The tracker   *)
(* thread and the transfer thread interleave with everything.  The queues  *)
(* between the threads are the atomic ones SpscQueue is proved to be.      *)
(*                                                                         *)
(* A connection's data is reduced to what the control flow tests: which    *)
(* watchers are armed, whether tcp.__socket holds a descriptor, and how    *)
(* far our handshake got.  What the network answers is nondeterministic.   *)
(* slot_recycling_pool's `occupied' bits are the complement of available.  *)
(***************************************************************************)
EXTENDS Integers, Sequences, FiniteSets, SequencesExt

CONSTANTS
  PoolSize,         \* slots of connection_pool: 200
  TrackerContacts,  \* contacts the trackers may report
  AcceptContacts,   \* contacts that may connect to our server socket
  NoSlot, NoContact,
  Quota,            \* healthy_peer_count: 50
  MaxInbound,       \* max_inbound_inflight: 35
  MaxOutbound,      \* max_outbound_inflight: 15
  MaxRetries,       \* max_reties: 3
  CacheSize,        \* capacity of discoveries.cache: 200
  ContactsSize,     \* capacity of discoveries.beamable_spsc: 100
  UpdatesSize,      \* capacity of connects and of disconnects: 50
  SizeMax,          \* largest std::size_t
  AssertsOn,        \* FALSE models a build with -DNDEBUG
  MaxArrivals       \* bound on contacts reported plus connections accepted

Slots   == 1 .. PoolSize
Contact == TrackerContacts \cup AcceptContacts
Handle  == Slots \X Nat

ASSUME SizesAssumption ==
  /\ PoolSize \in Nat \ {0} /\ Quota \in Nat \ {0}
  /\ MaxInbound \in Nat /\ MaxOutbound \in Nat /\ MaxRetries \in Nat
  /\ CacheSize \in Nat \ {0} /\ ContactsSize \in Nat \ {0}
  /\ MaxArrivals \in Nat

\* healthy_peer_count is also the capacity of the two update queues.
ASSUME UpdatesAssumption == UpdatesSize \in Nat /\ Quota <= UpdatesSize

ASSUME SizeMaxAssumption == SizeMax \in Nat /\ Quota < SizeMax /\ CacheSize < SizeMax

\* The pool's size and the two limits are constants of type std::size_t.
ASSUME LimitsAssumption ==
  PoolSize <= SizeMax /\ MaxInbound <= SizeMax /\ MaxOutbound <= SizeMax

ASSUME BuildAssumption == AssertsOn \in BOOLEAN

ASSUME NullAssumption == NoSlot \notin Slots /\ NoContact \notin Contact

VARIABLES
  conn,               \* the PeerConnection in each slot of the pool
  peers,              \* peer_register_t: the slot managing a contact, or NoSlot
  available,          \* available_slots, used as a stack
  generation,         \* _generation of each slot
  aborted,            \* an assert of the PeerConnectionManager has failed
  statistics,         \* connection_statistics_t
  daemon,             \* the scheduler's ev::async has been sent to
  loop,               \* the draining callback on the stack, or "idle"
  current, empties,   \* inbound_scheduler_t: next handler, what each found
  retry_queue,        \* failed peers whose back-off is over
  discoveries,        \* contacts in the queue the tracker thread fills
  feeding,            \* tracker thread: notify_consumer, before its send()
  discovered_async,   \* ev::async of discoveries
  cache,              \* overwritable_cache of contacts, newest last
  connects,           \* to the transfer thread
  sessions,           \* the transfer thread's open PeerSessions
  disconnects,        \* from the transfer thread
  disconnected_async, \* ev::async of disconnects
  arrivals            \* contacts reported and connections accepted so far

registry  == <<conn, peers, available, generation, aborted>>
scheduler == <<loop, current, empties>>
contacts  == <<discoveries, feeding, discovered_async, cache>>
updates   == <<connects, sessions, disconnects, disconnected_async>>
vars      == <<registry, statistics, daemon, scheduler, retry_queue, contacts,
               updates, arrivals>>

PeerConnection ==
  [state    : {"null", "TRANSPORT", "HANDSHAKE", "CONNECTED", "DISCONNECTED", "FAILED"},
   source   : {"null", "tracker", "tcp_server"},
   contact  : Contact \cup {NoContact},
   sock     : BOOLEAN,                      \* tcp.__socket # -1
   watch    : {"none", "READ", "WRITE"},    \* listener.for_sock
   timer    : BOOLEAN,                      \* listener.for_timer is running
   failures : Nat,
   outgoing : {"none", "partial", "sent"}]  \* our handshake in send_buffer

Fresh == [state |-> "null", source |-> "null", contact |-> NoContact, sock |-> FALSE,
          watch |-> "none", timer |-> FALSE, failures |-> 0, outgoing |-> "none"]

\* What teardown_connection leaves in a slot: everything reset, the descriptor not.
Vacant(sock) == [Fresh EXCEPT !.sock = sock]

\* std::size_t arithmetic.
Inc(n) == IF n = SizeMax THEN 0 ELSE n + 1
Dec(n) == IF n = 0 THEN SizeMax ELSE n - 1

Init ==
  /\ conn = [s \in Slots |-> Fresh]
  /\ peers = [c \in Contact |-> NoSlot]
  /\ available = [i \in Slots |-> i]
  /\ generation = [s \in Slots |-> 0]
  /\ aborted = FALSE
  /\ statistics = [connected |-> 0, inbound |-> 0, outbound |-> 0,
                   failed |-> 0, retry |-> 0, cached |-> 0]
  /\ daemon = FALSE
  /\ loop = "idle" /\ current = "discovered"
  /\ empties = [h \in {"discovered", "disconnected", "failed"} |-> FALSE]
  /\ retry_queue = << >>
  /\ discoveries = << >> /\ feeding = FALSE /\ discovered_async = FALSE
  /\ cache = << >>
  /\ connects = << >> /\ sessions = {} /\ disconnects = << >>
  /\ disconnected_async = FALSE
  /\ arrivals = 0
------------------------------------------------------------------------------
(* Pieces of the handlers.                                                 *)

\* Slip: one peer more than the quota.
SlipQuota == statistics.connected > Quota

has_met_connection_quota == statistics.connected >= Quota

Idle == loop = "idle" /\ ~aborted

Closed(p) == [p EXCEPT !.sock = FALSE]

\* Slip: the timeout is not started with the socket watcher.
SlipArmed(p, event) == [p EXCEPT !.watch = event]

Armed(p, event) == [p EXCEPT !.watch = event, !.timer = TRUE]

\* Slip: the watchers are stopped and the back-off timer is not started.
SlipBackingOff(p) ==
  [p EXCEPT !.state = "FAILED", !.watch = "none", !.timer = FALSE, !.outgoing = "none"]

\* Waiting for the next retry, buffers reset.
BackingOff(p) ==
  [p EXCEPT !.state = "FAILED", !.watch = "none", !.timer = TRUE, !.outgoing = "none"]

\* Slip: only the socket watcher is stopped.
SlipConnected(p) == [p EXCEPT !.state = "CONNECTED", !.watch = "none"]

\* In the hands of the transfer thread; the descriptor stays in peer.tcp as well.
Connected(p) ==
  [p EXCEPT !.state = "CONNECTED", !.watch = "none", !.timer = FALSE]

\* One attempt is over: single_inbound_resolved or single_outbound_resolved.
Resolved(st, source) ==
  IF source = "tcp_server" THEN [st EXCEPT !.outbound = Dec(@)]
                           ELSE [st EXCEPT !.inbound = Dec(@)]

\* The scheduler is told about every resolved attempt it started.
NotifyUnlessServer(source) == daemon' = (daemon \/ source # "tcp_server")

\* Slip: the generation is not advanced, so old handles stay valid.
SlipReleased(s) == generation

\* release() makes every handle to the slot stale.
Released(s) == [generation EXCEPT ![s] = @ + 1]

\* Slip: the contact stays in the register.
SlipDeleteKeepsContact(s, p, reg, free) ==
  /\ peers' = reg
  /\ conn' = [conn EXCEPT ![s] = Vacant(p.sock)]
  /\ available' = Append(free, s)
  /\ generation' = Released(s)
  /\ aborted' = (AssertsOn /\ p.sock)

\* delete_peer_connection on connection p of slot s; reg and free are the register
\* and the free stack at that point.  The descriptor is not closed, so
\* teardown_connection's assert(tcp.get_socket() == -1) may fail.
delete_peer_connection(s, p, reg, free) ==
  /\ peers' = [reg EXCEPT ![p.contact] = NoSlot]
  /\ conn' = [conn EXCEPT ![s] = Vacant(p.sock)]
  /\ available' = Append(free, s)
  /\ generation' = Released(s)
  /\ aborted' = (AssertsOn /\ p.sock)

\* Slip: the deleted attempt is still counted as in flight.
SlipHardDelete(s) ==
  LET p == conn[s] IN
  /\ delete_peer_connection(s, Closed(p), peers, available)
  /\ NotifyUnlessServer(p.source)
  /\ UNCHANGED <<statistics, retry_queue>>

hard_delete_peer_connection(s) ==
  LET p == conn[s] IN
  /\ delete_peer_connection(s, Closed(p), peers, available)
  /\ statistics' = Resolved(statistics, p.source)
  /\ NotifyUnlessServer(p.source)
  /\ UNCHANGED retry_queue

\* Closes the socket, then gives the peer up or starts its back-off timer.
handle_peer_failure(s) ==
  LET source   == conn[s].source
      failures == conn[s].failures + 1
      p        == Closed([conn[s] EXCEPT !.failures = failures])
      resolved == Resolved(statistics, source)
  IN
  /\ NotifyUnlessServer(source)
  /\ UNCHANGED retry_queue
  /\ \/ /\ failures >= MaxRetries \/ source = "tcp_server"
        /\ delete_peer_connection(s, p, peers, available)
        /\ statistics' = resolved
     \/ /\ failures < MaxRetries /\ source # "tcp_server"
        /\ conn' = [conn EXCEPT ![s] = BackingOff(p)]
        /\ statistics' = [resolved EXCEPT !.failed = Inc(@)]
        /\ UNCHANGED <<peers, available, generation, aborted>>

\* push() on a full queue of updates returns false, which its callers ignore.
Pushed(queue, update) ==
  IF Len(queue) < UpdatesSize THEN Append(queue, update) ELSE queue

\* The transfer thread is told, the counters move, the scheduler may go on.
handle_peer_connection_and_dispatch(s, p) ==
  /\ conn' = [conn EXCEPT ![s] = Connected(p)]
  /\ connects' = Pushed(connects, <<s, generation[s]>>)
  /\ statistics' = [Resolved(statistics, p.source) EXCEPT !.connected = Inc(@)]
  /\ NotifyUnlessServer(p.source)
  /\ UNCHANGED <<peers, available, generation, aborted, retry_queue, sessions,
                 disconnects, disconnected_async>>

\* A new socket whose connect() is in progress.
Connecting(p) == Armed([p EXCEPT !.sock = TRUE], "WRITE")

\* connect() succeeded at once: HANDSHAKE with nothing encoded in send_buffer.
ConnectedAtOnce(p) == [Connecting(p) EXCEPT !.state = "HANDSHAKE"]

\* What connect(peer) may do to p.  open_socket refuses a slot that still holds a
\* descriptor; a socket whose connect() fails is closed.
ConnectResults(p) ==
  {[ok |-> FALSE, peer |-> p]} \cup
  IF p.sock THEN {}
  ELSE {[ok |-> TRUE, peer |-> Connecting(p)], [ok |-> TRUE, peer |-> ConnectedAtOnce(p)]}
------------------------------------------------------------------------------
(* The tracker thread.                                                     *)

\* A contact from a tracker's answer is pushed, or lost when the queue is full.
TrackerReports(c) ==
  /\ ~aborted /\ arrivals < MaxArrivals
  /\ arrivals' = arrivals + 1
  /\ \/ /\ Len(discoveries) < ContactsSize
        /\ discoveries' = Append(discoveries, c)
        /\ feeding' = TRUE
     \/ /\ Len(discoveries) = ContactsSize
        /\ UNCHANGED <<discoveries, feeding>>
  /\ UNCHANGED <<registry, statistics, daemon, scheduler, retry_queue,
                 discovered_async, cache, updates>>

\* The end of the answer: one send() if any push succeeded.
TrackerNotifies ==
  /\ ~aborted /\ feeding
  /\ feeding' = FALSE
  /\ discovered_async' = TRUE
  /\ UNCHANGED <<registry, statistics, daemon, scheduler, retry_queue, discoveries,
                 cache, updates, arrivals>>
------------------------------------------------------------------------------
(* The transfer thread, as far as this module meets it.                    *)

\* PeerSession::set_endpoint: a session adopts the descriptor.
TransferTakes ==
  /\ ~aborted /\ connects # << >>
  /\ sessions' = sessions \cup {Head(connects)}
  /\ connects' = Tail(connects)
  /\ UNCHANGED <<registry, statistics, daemon, scheduler, retry_queue, contacts,
                 disconnects, disconnected_async, arrivals>>

\* PeerSession::endpoint_disconnected: it closes the descriptor and reports back.
TransferDisconnects(h) ==
  /\ ~aborted
  /\ sessions' = sessions \ {h}
  /\ disconnects' = Pushed(disconnects, h)
  /\ disconnected_async' = TRUE
  /\ UNCHANGED <<registry, statistics, daemon, scheduler, retry_queue, contacts,
                 connects, arrivals>>
------------------------------------------------------------------------------
(* Callbacks of the two queues this thread consumes.                       *)

DrainBegin ==
  /\ Idle /\ discovered_async
  /\ discovered_async' = FALSE
  /\ loop' = "drain"
  /\ UNCHANGED <<registry, statistics, daemon, current, empties, retry_queue,
                 discoveries, feeding, cache, updates, arrivals>>

\* Slip: the cache is appended to without dropping anything.
SlipDrainPop ==
  /\ loop = "drain" /\ discoveries # << >>
  /\ discoveries' = Tail(discoveries)
  /\ cache' = Append(cache, Head(discoveries))
  /\ statistics' = [statistics EXCEPT !.cached = IF @ < CacheSize THEN Inc(@) ELSE @]
  /\ UNCHANGED <<registry, daemon, scheduler, retry_queue, feeding, discovered_async,
                 updates, arrivals>>

\* A full cache drops its oldest contact.
DrainPop ==
  /\ loop = "drain" /\ discoveries # << >>
  /\ discoveries' = Tail(discoveries)
  /\ cache' = LET longer == Append(cache, Head(discoveries))
              IN IF Len(cache) < CacheSize THEN longer ELSE Tail(longer)
  /\ statistics' = [statistics EXCEPT !.cached = IF @ < CacheSize THEN Inc(@) ELSE @]
  /\ UNCHANGED <<registry, daemon, scheduler, retry_queue, feeding, discovered_async,
                 updates, arrivals>>

DrainEnd ==
  /\ loop = "drain" /\ discoveries = << >>
  /\ loop' = "idle"
  /\ daemon' = (daemon \/ ~(has_met_connection_quota \/ available = << >>))
  /\ UNCHANGED <<registry, statistics, current, empties, retry_queue, contacts,
                 updates, arrivals>>

notify_disconnected ==
  /\ Idle /\ disconnected_async
  /\ disconnected_async' = FALSE
  /\ daemon' = TRUE
  /\ UNCHANGED <<registry, statistics, scheduler, retry_queue, contacts, connects,
                 sessions, disconnects, arrivals>>
------------------------------------------------------------------------------
(* inbound_scheduler_t.                                                    *)

SchedulerBegin ==
  /\ Idle /\ daemon
  /\ daemon' = FALSE
  /\ loop' = "round_robin"
  /\ UNCHANGED <<registry, statistics, current, empties, retry_queue, contacts,
                 updates, arrivals>>

NextHandler == [discovered |-> "disconnected", disconnected |-> "failed",
                failed |-> "discovered"]

\* Slip: the callback goes on until a limit, not until the handlers are empty.
SlipHandlerReturns(found) ==
  /\ empties' = [empties EXCEPT ![current] = ~found]
  /\ current' = NextHandler[current]
  /\ loop' = "round_robin"

\* The current handler returned found; the callback ends once all three found nothing.
HandlerReturns(found) ==
  /\ empties' = [empties EXCEPT ![current] = ~found]
  /\ current' = NextHandler[current]
  /\ loop' = IF \A h \in DOMAIN empties : empties'[h] THEN "idle" ELSE "round_robin"

\* The head of the for loop, and discovered_peer_scheduler's early return.
round_robin_establisher_scheduler ==
  /\ loop = "round_robin" /\ ~aborted
  /\ \/ /\ statistics.inbound >= MaxInbound
        /\ loop' = "idle"
        /\ UNCHANGED <<current, empties>>
     \/ /\ statistics.inbound < MaxInbound
        /\ current = "discovered" /\ available = << >>
        /\ HandlerReturns(FALSE)
     \/ /\ statistics.inbound < MaxInbound
        /\ ~(current = "discovered" /\ available = << >>)
        /\ loop' = current
        /\ UNCHANGED <<current, empties>>
  /\ UNCHANGED <<registry, statistics, daemon, retry_queue, contacts, updates, arrivals>>

\* initiate_connect on connection p of slot s and what its callers do next: return
\* TRUE from the handler, or delete the peer and go on with the next candidate.
initiate_connect(s, p, st, reg, free) ==
  \E r \in ConnectResults(p) :
    \/ /\ r.ok
       /\ conn' = [conn EXCEPT ![s] = r.peer]
       /\ peers' = reg /\ available' = free
       /\ statistics' = [st EXCEPT !.inbound = Inc(@)]
       /\ HandlerReturns(TRUE)
       /\ UNCHANGED <<generation, aborted>>
    \/ /\ ~r.ok
       /\ delete_peer_connection(s, r.peer, reg, free)
       /\ statistics' = st
       /\ UNCHANGED scheduler

\* One turn of the loop: the newest contact is popped, given a slot, and released
\* again at once if the contact already has one.
discovered_peer_scheduler ==
  /\ loop = "discovered" /\ ~aborted
  /\ \/ /\ cache = << >>
        /\ HandlerReturns(FALSE)
        /\ UNCHANGED <<registry, statistics, cache>>
     \/ /\ cache # << >> /\ available # << >>
        /\ cache' = Front(cache)
        /\ LET c  == Last(cache)
               s  == Last(available)
               st == [statistics EXCEPT !.cached = Dec(@)]
           IN \/ /\ peers[c] # NoSlot
                 /\ generation' = Released(s)
                 /\ statistics' = st
                 /\ UNCHANGED <<conn, peers, available, aborted, scheduler>>
              \/ /\ peers[c] = NoSlot
                 /\ initiate_connect(s, [conn[s] EXCEPT !.contact = c,
                                           !.source = "tracker", !.state = "TRANSPORT"],
                                     st, [peers EXCEPT ![c] = s], Front(available))
  /\ UNCHANGED <<daemon, retry_queue, discoveries, feeding, discovered_async, updates,
                 arrivals>>

\* One turn of the loop over disconnects.  peer.tcp.perrno is never PEER_SHUTDOWN here:
\* the transfer that completed the handshake reset it.
disconnected_peer_scheduler ==
  /\ loop = "disconnected" /\ ~aborted
  /\ \/ /\ disconnects = << >>
        /\ HandlerReturns(FALSE)
        /\ UNCHANGED <<registry, statistics, disconnects>>
     \/ /\ disconnects # << >>
        /\ disconnects' = Tail(disconnects)
        /\ LET s  == Head(disconnects)[1]
               p  == [conn[s] EXCEPT !.state = "DISCONNECTED"]
               st == [statistics EXCEPT !.connected = Dec(@)]
           IN \/ /\ generation[s] # Head(disconnects)[2]
                 /\ UNCHANGED <<registry, statistics, scheduler>>
              \/ /\ generation[s] = Head(disconnects)[2]
                 /\ p.source = "tcp_server"
                 /\ delete_peer_connection(s, p, peers, available)
                 /\ statistics' = st
                 /\ UNCHANGED scheduler
              \/ /\ generation[s] = Head(disconnects)[2]
                 /\ p.source # "tcp_server"
                 /\ initiate_connect(s, [p EXCEPT !.failures = @ + 1], st, peers, available)
  /\ UNCHANGED <<daemon, retry_queue, contacts, connects, sessions,
                 disconnected_async, arrivals>>

\* One turn of the loop over retry_queue.
failed_peer_scheduler ==
  /\ loop = "failed" /\ ~aborted
  /\ \/ /\ retry_queue = << >>
        /\ HandlerReturns(FALSE)
        /\ UNCHANGED <<registry, statistics, retry_queue>>
     \/ /\ retry_queue # << >>
        /\ retry_queue' = Tail(retry_queue)
        /\ LET s  == Head(retry_queue)[1]
               st == [statistics EXCEPT !.retry = Dec(@)]
           IN \/ /\ generation[s] # Head(retry_queue)[2]
                 /\ statistics' = st
                 /\ UNCHANGED <<registry, scheduler>>
              \/ /\ generation[s] = Head(retry_queue)[2]
                 /\ initiate_connect(s, conn[s], st, peers, available)
  /\ UNCHANGED <<daemon, contacts, updates, arrivals>>
------------------------------------------------------------------------------
(* server_socket_callback.  The turns of its loop touch nothing another    *)
(* thread writes, so each is a step of its own.                            *)

CanAccept == Idle /\ ~has_met_connection_quota /\ statistics.outbound < MaxOutbound
                  /\ arrivals < MaxArrivals

\* No slot for the new descriptor: it is closed.
AcceptRefused(c) ==
  /\ CanAccept /\ available = << >>
  /\ arrivals' = arrivals + 1
  /\ UNCHANGED <<registry, statistics, daemon, scheduler, retry_queue, contacts, updates>>

AcceptedPeer(s, c) ==
  Armed([conn[s] EXCEPT !.contact = c, !.source = "tcp_server",
                        !.state = "HANDSHAKE", !.sock = TRUE], "READ")

\* A contact nobody manages yet.
AcceptNew(c) ==
  /\ CanAccept /\ available # << >> /\ peers[c] = NoSlot
  /\ arrivals' = arrivals + 1
  /\ LET s == Last(available) IN
       /\ conn' = [conn EXCEPT ![s] = AcceptedPeer(s, c)]
       /\ peers' = [peers EXCEPT ![c] = s]
  /\ available' = Front(available)
  /\ statistics' = [statistics EXCEPT !.outbound = Inc(@)]
  /\ UNCHANGED <<generation, aborted, daemon, scheduler, retry_queue, contacts, updates>>

\* Slip: the replaced attempt is not counted as resolved.
SlipAcceptReplacing(c) ==
  /\ CanAccept /\ available # << >> /\ peers[c] # NoSlot
  /\ arrivals' = arrivals + 1
  /\ LET s    == Last(available)
         o    == peers[c]
         old  == conn[o]
         busy == old.state = "CONNECTED"
     IN /\ conn' = [conn EXCEPT ![s] = AcceptedPeer(s, c),
                                ![o] = Vacant(busy /\ old.sock)]
        /\ peers' = [peers EXCEPT ![c] = s]
        /\ available' = Append(Front(available), o)
        /\ generation' = Released(o)
        /\ aborted' = (AssertsOn /\ busy /\ old.sock)
        /\ statistics' = [statistics EXCEPT !.outbound = Inc(@)]
        /\ daemon' = (daemon \/ (~busy /\ old.source # "tcp_server"))
  /\ UNCHANGED <<scheduler, retry_queue, contacts, updates>>

\* A contact that already has a slot: the old connection is torn down, its attempt
\* counted as resolved unless it is CONNECTED, and the new one takes its place.
AcceptReplacing(c) ==
  /\ CanAccept /\ available # << >> /\ peers[c] # NoSlot
  /\ arrivals' = arrivals + 1
  /\ LET s    == Last(available)
         o    == peers[c]
         old  == conn[o]
         busy == old.state = "CONNECTED"
         st   == [statistics EXCEPT !.outbound = Inc(@)]
     IN /\ conn' = [conn EXCEPT ![s] = AcceptedPeer(s, c),
                                ![o] = Vacant(busy /\ old.sock)]
        /\ peers' = [peers EXCEPT ![c] = s]
        /\ available' = Append(Front(available), o)
        /\ generation' = Released(o)
        /\ aborted' = (AssertsOn /\ busy /\ old.sock)
        /\ statistics' = IF busy THEN st ELSE Resolved(st, old.source)
        /\ daemon' = (daemon \/ (~busy /\ old.source # "tcp_server"))
  /\ UNCHANGED <<scheduler, retry_queue, contacts, updates>>

accept_peer_connection(c) == AcceptRefused(c) \/ AcceptNew(c) \/ AcceptReplacing(c)
------------------------------------------------------------------------------
(* Callbacks of one connection's watchers.                                 *)

\* Slip: the quota is not looked at before the handshake goes on.
SlipReady(s, event) == Idle /\ conn[s].watch = event

Ready(s, event) == Idle /\ conn[s].watch = event /\ ~has_met_connection_quota

\* Once enough peers are connected, whatever happens on another socket closes it.
SocketAtQuota(s) ==
  /\ Idle /\ conn[s].watch # "none" /\ has_met_connection_quota
  /\ hard_delete_peer_connection(s)
  /\ UNCHANGED <<scheduler, contacts, updates, arrivals>>

\* EV_ERROR, SO_ERROR, or a failing send or recv, in any state.
SocketFails(s) ==
  /\ Ready(s, "READ") \/ Ready(s, "WRITE")
  /\ handle_peer_failure(s)
  /\ UNCHANGED <<scheduler, contacts, updates, arrivals>>

\* Our handshake is encoded and as much of it sent as goes out.
Offered(p, sent) ==
  [p EXCEPT !.state = "HANDSHAKE",
            !.outgoing = IF sent THEN "sent" ELSE "partial",
            !.watch = IF sent THEN "READ" ELSE "WRITE"]

\* connect() has succeeded.
handle_peer_transport_level_initiations(s) ==
  /\ Ready(s, "WRITE") /\ conn[s].state \in {"TRANSPORT", "DISCONNECTED", "FAILED"}
  /\ \E sent \in BOOLEAN : conn' = [conn EXCEPT ![s] = Offered(conn[s], sent)]
  /\ UNCHANGED <<peers, available, generation, aborted, statistics, daemon, scheduler,
                 retry_queue, contacts, updates, arrivals>>

Flushed(p) == [p EXCEPT !.outgoing = IF p.outgoing = "none" THEN "none" ELSE "sent"]

\* The rest of send_buffer has gone out (nothing at all after an immediate connect).
HandshakeFlushed(s) ==
  LET p == Flushed(conn[s]) IN
  /\ Ready(s, "WRITE") /\ conn[s].state = "HANDSHAKE"
  /\ \/ /\ conn[s].source = "tracker"
        /\ conn' = [conn EXCEPT ![s] = [p EXCEPT !.watch = "READ"]]
        /\ UNCHANGED <<peers, available, generation, aborted, statistics, daemon,
                       retry_queue, updates>>
     \/ /\ conn[s].source = "tcp_server"
        /\ handle_peer_connection_and_dispatch(s, p)
  /\ UNCHANGED <<scheduler, contacts, arrivals>>

\* The peer's handshake is complete and not for this torrent.
HandshakeInvalid(s) ==
  /\ Ready(s, "READ") /\ conn[s].state = "HANDSHAKE"
  /\ hard_delete_peer_connection(s)
  /\ UNCHANGED <<scheduler, contacts, updates, arrivals>>

\* The peer's handshake is complete and valid.  A peer that came to our server gets
\* ours only now.
HandshakeValid(s) ==
  LET p == conn[s] IN
  /\ Ready(s, "READ") /\ p.state = "HANDSHAKE"
  /\ \/ /\ p.source = "tracker"
        /\ handle_peer_connection_and_dispatch(s, p)
     \/ /\ p.source = "tcp_server"
        /\ handle_peer_connection_and_dispatch(s, [p EXCEPT !.outgoing = "sent"])
     \/ /\ p.source = "tcp_server"
        /\ conn' = [conn EXCEPT ![s] = [p EXCEPT !.outgoing = "partial", !.watch = "WRITE"]]
        /\ UNCHANGED <<peers, available, generation, aborted, statistics, daemon,
                       retry_queue, updates>>
  /\ UNCHANGED <<scheduler, contacts, arrivals>>

RetryDue(p) == [p EXCEPT !.state = "TRANSPORT", !.watch = "none", !.timer = FALSE]

\* The back-off after a failure is over, or an attempt took too long.
peer_timer_callback(s) ==
  /\ Idle /\ conn[s].timer
  /\ \/ /\ conn[s].state = "FAILED"
        /\ conn' = [conn EXCEPT ![s] = RetryDue(conn[s])]
        /\ retry_queue' = Append(retry_queue, <<s, generation[s]>>)
        /\ statistics' = [statistics EXCEPT !.failed = Dec(@), !.retry = Inc(@)]
        /\ daemon' = TRUE
        /\ UNCHANGED <<peers, available, generation, aborted>>
     \/ /\ conn[s].state # "FAILED"
        /\ handle_peer_failure(s)
  /\ UNCHANGED <<scheduler, contacts, updates, arrivals>>
------------------------------------------------------------------------------
peer_socket_callback(s) ==
  \/ SocketAtQuota(s) \/ SocketFails(s)
  \/ handle_peer_transport_level_initiations(s)
  \/ HandshakeFlushed(s) \/ HandshakeInvalid(s) \/ HandshakeValid(s)

\* Callbacks the event loop is certain to run once they are due.
Due == \/ DrainBegin \/ DrainPop \/ DrainEnd \/ notify_disconnected
       \/ SchedulerBegin \/ round_robin_establisher_scheduler
       \/ discovered_peer_scheduler \/ disconnected_peer_scheduler
       \/ failed_peer_scheduler

Next ==
  \/ \E c \in TrackerContacts : TrackerReports(c)
  \/ TrackerNotifies
  \/ TransferTakes
  \/ \E h \in sessions : TransferDisconnects(h)
  \/ Due
  \/ \E c \in AcceptContacts : accept_peer_connection(c)
  \/ \E s \in Slots : peer_socket_callback(s)
  \/ \E s \in Slots : peer_timer_callback(s)

Spec == Init /\ [][Next]_vars

\* The event loop keeps running pending callbacks and expired timers, and the other
\* threads finish what they are in the middle of.  No peer has to answer, and no
\* session has to end.
Fairness ==
  /\ WF_vars(Due)
  /\ WF_vars(TrackerNotifies) /\ WF_vars(TransferTakes)
  /\ \A s \in Slots : WF_vars(peer_timer_callback(s))

FairSpec == Spec /\ Fairness
------------------------------------------------------------------------------
Counter == 0 .. SizeMax

Statistics == [connected : Counter, inbound : Counter, outbound : Counter,
               failed : Counter, retry : Counter, cached : Counter]

Handlers == {"discovered", "disconnected", "failed"}

RegistryOK ==
  /\ conn \in [Slots -> PeerConnection]
  /\ peers \in [Contact -> Slots \cup {NoSlot}]
  /\ available \in Seq(Slots)
  /\ generation \in [Slots -> Nat]
  /\ aborted \in BOOLEAN

SchedulerOK ==
  /\ daemon \in BOOLEAN
  /\ loop \in {"idle", "drain", "round_robin"} \cup Handlers
  /\ current \in Handlers
  /\ empties \in [Handlers -> BOOLEAN]

ContactsOK ==
  /\ discoveries \in Seq(TrackerContacts) /\ Len(discoveries) <= ContactsSize
  /\ cache \in Seq(TrackerContacts) /\ Len(cache) <= CacheSize
  /\ feeding \in BOOLEAN /\ discovered_async \in BOOLEAN
  /\ arrivals \in 0 .. MaxArrivals

UpdatesOK ==
  /\ retry_queue \in Seq(Handle)
  /\ connects \in Seq(Handle) /\ disconnects \in Seq(Handle)
  /\ sessions \subseteq Handle
  /\ disconnected_async \in BOOLEAN

\* The state is well formed; no counter leaves std::size_t, and the cache and the
\* queue of contacts keep to their capacities whatever order the callbacks run in.
TypeOK == RegistryOK /\ statistics \in Statistics /\ SchedulerOK /\ ContactsOK /\ UpdatesOK

\* slot_recycling_pool and the register agree: a slot is free exactly once and then
\* holds no peer, or it is registered under its own contact and no other slot is.
\* A slot released twice, leaked, or left behind in the register would show here.
PoolSound ==
  /\ IsInjective(available)
  /\ \A s \in ToSet(available) : conn[s].state = "null"
  /\ \A s \in Slots \ ToSet(available) :
       conn[s].contact \in Contact /\ peers[conn[s].contact] = s
  /\ \A c \in Contact : peers[c] # NoSlot => conn[peers[c]].contact = c

Live == Slots \ ToSet(available)

HandleOf(s) == <<s, generation[s]>>

\* No peer is forgotten: the transfer thread holds, or is being sent, or is returning
\* the handle of each connected one, and every other one has a timer running or waits
\* in retry_queue under its current generation.
NoOrphan ==
  \A s \in Live :
    IF conn[s].state = "CONNECTED"
    THEN HandleOf(s) \in ToSet(connects) \cup sessions \cup ToSet(disconnects)
    ELSE conn[s].timer \/ HandleOf(s) \in ToSet(retry_queue)

\* Handles outlive the peers they name; the generation check separates the two cases
\* exactly.  One that passes it names a connected peer (transfer queues) or an idle
\* tracker peer to be retried (retry_queue), never the slot's next occupant, and no
\* connected peer is held or reported twice.
HandlesSafe ==
  LET transfer == ToSet(connects) \cup sessions \cup ToSet(disconnects) IN
  /\ \A h \in transfer : generation[h[1]] = h[2] => conn[h[1]].state = "CONNECTED"
  /\ \A h \in ToSet(retry_queue) : generation[h[1]] = h[2] =>
       /\ conn[h[1]].state = "TRANSPORT" /\ conn[h[1]].source = "tracker"
       /\ conn[h[1]].watch = "none" /\ ~conn[h[1]].timer
  /\ Cardinality(transfer) = Len(connects) + Cardinality(sessions) + Len(disconnects)
  /\ IsInjective(retry_queue)

\* The asserts of the callbacks and schedulers, teardown_connection's apart: a watcher
\* that can fire belongs to a peer in the middle of an attempt (and has a timeout and
\* a descriptor to go with it), the send buffer is empty when the handshake is
\* encoded, and the pool has a slot when one is acquired.
AssertsHold ==
  /\ \A s \in Slots :
       /\ conn[s].watch # "none" \/ conn[s].timer =>
            conn[s].source # "null" /\ conn[s].state \notin {"null", "CONNECTED"}
       /\ conn[s].watch # "none" => conn[s].sock /\ conn[s].timer
       /\ conn[s].sock => conn[s].watch # "none" \/ conn[s].state \in {"null", "CONNECTED"}
       /\ conn[s].state = "TRANSPORT" => conn[s].outgoing = "none"
       /\ conn[s].source = "tcp_server" /\ conn[s].watch = "READ" => conn[s].outgoing = "none"
  /\ loop = "discovered" => available # << >>

\* The accept loop's limit is real: outbound_inflight counts exactly the accepted
\* peers whose handshake is open, also when one of them reconnects.
OutboundAccounting ==
  /\ statistics.outbound =
       Cardinality({s \in Slots : conn[s].source = "tcp_server" /\ conn[s].state = "HANDSHAKE"})
  /\ statistics.outbound <= MaxOutbound

\* The scheduler's limit is real: inbound_inflight counts exactly the attempts it has
\* in flight, and the other counters of tracker peers are exact too.
InboundAccounting ==
  /\ statistics.inbound =
       Cardinality({s \in Slots : conn[s].source = "tracker" /\ conn[s].watch # "none"})
  /\ statistics.inbound <= MaxInbound
  /\ statistics.failed = Cardinality({s \in Slots : conn[s].state = "FAILED"})
  /\ statistics.retry = Len(retry_queue)
  /\ statistics.cached = Len(cache)

\* Every handle the transfer thread has, is sent or returns is paid for by one unit of
\* connected_bittorrent_peers, which never exceeds the quota.
ConnectionCredit ==
  /\ IsFiniteSet(sessions)
  /\ Len(connects) + Cardinality(sessions) + Len(disconnects) <= statistics.connected
  /\ statistics.connected <= Quota

\* handle_peer_connection_and_dispatch ignores the result of push(); no connect is
\* lost all the same, and neither is a disconnect.
NoUpdateLost ==
  [][ /\ \A s \in Slots : conn[s].state # "CONNECTED" /\ conn'[s].state = "CONNECTED"
                            => connects' = Append(connects, HandleOf(s))
      /\ \A h \in sessions \ sessions' : disconnects' = Append(disconnects, h) ]_vars

\* Every attempt ends, however silent the peer: its timeout closes the socket.
InFlightResolved ==
  \A s \in Slots : (conn[s].watch # "none") ~> (conn[s].watch = "none")

\* A callback that drains queues gives the event loop back.
CallbacksReturn == (loop # "idle") ~> (loop = "idle" \/ aborted)
------------------------------------------------------------------------------
(* What the repository's own text says and the code does not do.           *)

\* assert(tcp.get_socket() == -1) in teardown_connection: whoever deletes a peer has
\* closed its descriptor or given it away.
TeardownAssert == ~aborted

\* The "max_infligh_peers invariant" of the design note, for the scheduler's share.
InFlightLimit ==
  Cardinality({s \in Slots : conn[s].source = "tracker" /\ conn[s].watch # "none"})
    <= MaxInbound
==============================================================================
