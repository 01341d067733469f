--------------------- MODULE PeerConnectionManagerProofs ---------------------
(***************************************************************************)
(* Proofs about PeerConnectionManager for every pool size, quota, limit    *)
(* and set of contacts, with and without the asserts: first the quota and  *)
(* the queues to the transfer thread, then the slots, the register and the *)
(* handles, and from the partition of the slots that connection_statistics *)
(* counts what it says it counts.                                          *)
(***************************************************************************)
EXTENDS PeerConnectionManager, SequenceLemmas

\* std::size_t arithmetic stays within std::size_t.
LEMMA CounterClosed ==
  ASSUME NEW n \in Counter
  PROVE  Inc(n) \in Counter /\ Dec(n) \in Counter
BY SizeMaxAssumption DEF Inc, Dec, Counter

\* Resolving an attempt changes in-flight counters only.
LEMMA ResolvedStatistics ==
  ASSUME NEW st \in Statistics, NEW source
  PROVE  /\ Resolved(st, source) \in Statistics
         /\ Resolved(st, source).connected = st.connected
BY CounterClosed DEF Resolved, Statistics

\* Counting one thing up or down leaves the others alone.
LEMMA CountTyped ==
  ASSUME NEW st \in Statistics
  PROVE  /\ [st EXCEPT !.failed = Inc(@)] \in Statistics
         /\ [st EXCEPT !.failed = Inc(@)].connected = st.connected
         /\ [st EXCEPT !.inbound = Inc(@)] \in Statistics
         /\ [st EXCEPT !.inbound = Inc(@)].connected = st.connected
         /\ [st EXCEPT !.outbound = Inc(@)] \in Statistics
         /\ [st EXCEPT !.outbound = Inc(@)].connected = st.connected
         /\ [st EXCEPT !.retry = Dec(@)] \in Statistics
         /\ [st EXCEPT !.retry = Dec(@)].connected = st.connected
         /\ [st EXCEPT !.cached = Dec(@)] \in Statistics
         /\ [st EXCEPT !.cached = Dec(@)].connected = st.connected
         /\ [st EXCEPT !.failed = Dec(@), !.retry = Inc(@)] \in Statistics
         /\ [st EXCEPT !.failed = Dec(@), !.retry = Inc(@)].connected = st.connected
         /\ [st EXCEPT !.connected = Inc(@)] \in Statistics
         /\ [st EXCEPT !.connected = Inc(@)].connected = Inc(st.connected)
         /\ [st EXCEPT !.connected = Dec(@)] \in Statistics
         /\ [st EXCEPT !.connected = Dec(@)].connected = Dec(st.connected)
BY CounterClosed DEF Statistics

\* A vacated slot holds a connection record.
LEMMA VacantTyped ==
  ASSUME NEW b \in BOOLEAN
  PROVE  Vacant(b) \in PeerConnection
BY DEF Vacant, Fresh, PeerConnection

\* The updates the handlers make to a connection.
LEMMA PeerTyped ==
  ASSUME NEW p \in PeerConnection, NEW n \in Nat
  PROVE  /\ Closed([p EXCEPT !.failures = n]) \in PeerConnection
         /\ BackingOff(Closed([p EXCEPT !.failures = n])) \in PeerConnection
         /\ Closed(p) \in PeerConnection
         /\ Connected(p) \in PeerConnection
BY DEF PeerConnection, Closed, BackingOff, Connected

\* A slot taken over by a contact of either source.
LEMMA RecordTyped ==
  ASSUME NEW p \in PeerConnection, NEW c \in Contact
  PROVE  /\ [p EXCEPT !.contact = c, !.source = "tracker", !.state = "TRANSPORT"]
              \in PeerConnection
         /\ Armed([p EXCEPT !.contact = c, !.source = "tcp_server",
                            !.state = "HANDSHAKE", !.sock = TRUE], "READ") \in PeerConnection
BY DEF PeerConnection, Armed

\* Counting one more failure.
LEMMA FailuresTyped ==
  ASSUME NEW p \in PeerConnection
  PROVE  [p EXCEPT !.failures = @ + 1] \in PeerConnection
BY DEF PeerConnection

\* A peer that was disconnected, before and after the failure is counted.
LEMMA DisconnectedTyped ==
  ASSUME NEW p \in PeerConnection
  PROVE  /\ [p EXCEPT !.state = "DISCONNECTED"] \in PeerConnection
         /\ [[p EXCEPT !.state = "DISCONNECTED"] EXCEPT !.failures = @ + 1]
              \in PeerConnection
<1> DEFINE q == [p EXCEPT !.state = "DISCONNECTED"]
<1>1. q \in PeerConnection
  BY DEF PeerConnection
<1> HIDE DEF q
<1>2. [q EXCEPT !.failures = @ + 1] \in PeerConnection
  BY <1>1, FailuresTyped
<1>3. QED
  BY <1>1, <1>2, Zenon DEF q

\* Updating a function at one argument, in its domain or not.
LEMMA UpdateTyped ==
  ASSUME NEW A, NEW B, NEW f \in [A -> B], NEW a, NEW b \in B
  PROVE  [f EXCEPT ![a] = b] \in [A -> B]
OBVIOUS

\* Popping the free stack.
LEMMA StackTyped ==
  ASSUME NEW T, NEW q \in Seq(T), q # << >>
  PROVE  Last(q) \in T /\ Front(q) \in Seq(T) /\ Len(Front(q)) = Len(q) - 1
<1>1. Len(q) \in Nat \ {0} /\ \A i \in 1 .. Len(q) : q[i] \in T
  OBVIOUS
<1>2. Last(q) \in T
  BY <1>1 DEF Last
<1>3. Front(q) \in Seq(T) /\ Len(Front(q)) = Len(q) - 1
  <2>1. \A i \in 1 .. Len(q) - 1 : q[i] \in T
    BY <1>1
  <2>2. 1 \in Int /\ Len(q) - 1 \in Int
    BY <1>1
  <2>3. /\ SubSeq(q, 1, Len(q) - 1) \in Seq(T)
        /\ Len(SubSeq(q, 1, Len(q) - 1)) =
             IF 1 <= Len(q) - 1 THEN Len(q) - 1 - 1 + 1 ELSE 0
    BY <2>1, <2>2, SubSeqProperties
  <2>4. (IF 1 <= Len(q) - 1 THEN Len(q) - 1 - 1 + 1 ELSE 0) = Len(q) - 1
    <3>1. \A n \in Nat \ {0} : (IF 1 <= n - 1 THEN n - 1 - 1 + 1 ELSE 0) = n - 1
      OBVIOUS
    <3>2. QED
      BY <1>1, <3>1, Zenon
  <2>5. Front(q) = SubSeq(q, 1, Len(q) - 1)
    BY Zenon DEF Front
  <2> DEFINE f == SubSeq(q, 1, Len(q) - 1)
             k == IF 1 <= Len(q) - 1 THEN Len(q) - 1 - 1 + 1 ELSE 0
  <2>6. Front(q) = f /\ f \in Seq(T) /\ Len(f) = k /\ k = Len(q) - 1
    BY <2>3, <2>4, <2>5
  <2> HIDE DEF f, k
  <2>7. QED
    BY <2>6, Zenon
<1>4. QED
  BY <1>2, <1>3

\* delete_peer_connection leaves the register, the pool and the slot well typed.
LEMMA DeleteTyped ==
  ASSUME RegistryOK, NEW s \in Slots, NEW p \in PeerConnection,
         NEW reg \in [Contact -> Slots \cup {NoSlot}], NEW free \in Seq(Slots),
         delete_peer_connection(s, p, reg, free)
  PROVE  RegistryOK'
<1>1. p.sock \in BOOLEAN
  BY DEF PeerConnection
<1>2. conn' \in [Slots -> PeerConnection]
  BY <1>1, VacantTyped DEF delete_peer_connection, RegistryOK
<1>3. peers' \in [Contact -> Slots \cup {NoSlot}]
  BY UpdateTyped DEF delete_peer_connection
<1>7. available' \in Seq(Slots)
  BY DEF delete_peer_connection
<1>6. generation' \in [Slots -> Nat]
  BY DEF delete_peer_connection, Released, RegistryOK
<1>4. aborted' \in BOOLEAN
  BY <1>1, BuildAssumption, Zenon DEF delete_peer_connection
<1>5. QED
  BY <1>2, <1>3, <1>4, <1>6, <1>7 DEF RegistryOK

\* handle_peer_failure, whichever way it ends.
LEMMA FailureTyped ==
  ASSUME TypeOK, NEW s \in Slots, handle_peer_failure(s)
  PROVE  /\ RegistryOK' /\ statistics' \in Statistics /\ daemon' \in BOOLEAN
         /\ retry_queue' = retry_queue
         /\ statistics'.connected = statistics.connected
<1> DEFINE n == conn[s].failures + 1
           p == Closed([conn[s] EXCEPT !.failures = n])
           r == Resolved(statistics, conn[s].source)
<1>1. p \in PeerConnection /\ BackingOff(p) \in PeerConnection
  <2>1. conn[s] \in PeerConnection /\ n \in Nat
    BY DEF TypeOK, RegistryOK, PeerConnection
  <2>2. QED
    BY <2>1, PeerTyped
<1>2. r \in Statistics /\ r.connected = statistics.connected
  BY ResolvedStatistics DEF TypeOK
<1>3. daemon' \in BOOLEAN
  BY Zenon DEF handle_peer_failure, NotifyUnlessServer, TypeOK, SchedulerOK
<1>4. [r EXCEPT !.failed = Inc(@)] \in Statistics
      /\ [r EXCEPT !.failed = Inc(@)].connected = statistics.connected
  BY <1>2, CountTyped
<1>5. \/ /\ delete_peer_connection(s, p, peers, available)
         /\ statistics' = r
      \/ /\ conn' = [conn EXCEPT ![s] = BackingOff(p)]
         /\ statistics' = [r EXCEPT !.failed = Inc(@)]
         /\ UNCHANGED <<peers, available, generation, aborted>>
  BY Zenon DEF handle_peer_failure
<1> HIDE DEF n, p, r
<1>6. RegistryOK'
  <2>1. CASE delete_peer_connection(s, p, peers, available)
    BY <1>1, <2>1, DeleteTyped DEF TypeOK, RegistryOK
  <2>2. CASE conn' = [conn EXCEPT ![s] = BackingOff(p)]
             /\ UNCHANGED <<peers, available, generation, aborted>>
    BY <1>1, <2>2, UpdateTyped DEF TypeOK, RegistryOK
  <2>3. QED
    BY <1>5, <2>1, <2>2
<1>7. statistics' \in Statistics /\ statistics'.connected = statistics.connected
  BY <1>2, <1>4, <1>5, Zenon
<1>8. retry_queue' = retry_queue
  BY DEF handle_peer_failure
<1>9. QED
  BY <1>3, <1>6, <1>7, <1>8

\* hard_delete_peer_connection.
LEMMA HardDeleteTyped ==
  ASSUME TypeOK, NEW s \in Slots, hard_delete_peer_connection(s)
  PROVE  /\ RegistryOK' /\ statistics' \in Statistics /\ daemon' \in BOOLEAN
         /\ retry_queue' = retry_queue
         /\ statistics'.connected = statistics.connected
<1>1. conn[s] \in PeerConnection
  BY DEF TypeOK, RegistryOK
<1>2. Closed(conn[s]) \in PeerConnection
  <2>1. 0 \in Nat
    OBVIOUS
  <2>2. QED
    BY <1>1, <2>1, PeerTyped
<1>3. delete_peer_connection(s, Closed(conn[s]), peers, available)
  BY Zenon DEF hard_delete_peer_connection
<1>4. RegistryOK'
  BY <1>2, <1>3, DeleteTyped DEF TypeOK, RegistryOK
<1>5. statistics' \in Statistics /\ statistics'.connected = statistics.connected
  BY ResolvedStatistics, Zenon DEF hard_delete_peer_connection, TypeOK
<1>6. daemon' \in BOOLEAN
  BY Zenon DEF hard_delete_peer_connection, NotifyUnlessServer, TypeOK, SchedulerOK
<1>7. QED
  BY <1>4, <1>5, <1>6, Zenon DEF hard_delete_peer_connection

\* handle_peer_connection_and_dispatch counts the peer it sends.
LEMMA DispatchTyped ==
  ASSUME TypeOK, NEW s \in Slots, NEW p \in PeerConnection,
         handle_peer_connection_and_dispatch(s, p)
  PROVE  /\ RegistryOK' /\ statistics' \in Statistics /\ daemon' \in BOOLEAN
         /\ UpdatesOK'
         /\ statistics'.connected = Inc(statistics.connected)
<1>1. Connected(p) \in PeerConnection
  <2>1. 0 \in Nat
    OBVIOUS
  <2>2. QED
    BY <2>1, PeerTyped
<1>2. conn' \in [Slots -> PeerConnection]
  BY <1>1, UpdateTyped DEF handle_peer_connection_and_dispatch, TypeOK, RegistryOK
<1>3. RegistryOK'
  BY <1>2 DEF handle_peer_connection_and_dispatch, TypeOK, RegistryOK
<1>4. statistics' \in Statistics /\ statistics'.connected = Inc(statistics.connected)
  <2> DEFINE r == Resolved(statistics, p.source)
  <2>1. r \in Statistics /\ r.connected = statistics.connected
    BY ResolvedStatistics DEF TypeOK
  <2>2. statistics' = [r EXCEPT !.connected = Inc(@)]
    BY Zenon DEF handle_peer_connection_and_dispatch
  <2> HIDE DEF r
  <2>3. QED
    BY <2>1, <2>2, CountTyped
<1>5. daemon' \in BOOLEAN
  BY Zenon DEF handle_peer_connection_and_dispatch, NotifyUnlessServer, TypeOK, SchedulerOK
<1>6. <<s, generation[s]>> \in Handle
  BY DEF TypeOK, RegistryOK, Handle
<1>7. connects' \in Seq(Handle)
  BY <1>6 DEF handle_peer_connection_and_dispatch, Pushed, TypeOK, UpdatesOK
<1>8. UpdatesOK'
  BY <1>7 DEF handle_peer_connection_and_dispatch, TypeOK, UpdatesOK
<1>9. QED
  BY <1>3, <1>4, <1>5, <1>8

\* The end of one handler of the scheduler.
LEMMA HandlerTyped ==
  ASSUME SchedulerOK, NEW found \in BOOLEAN, HandlerReturns(found), daemon' = daemon
  PROVE  SchedulerOK'
<1>1. (~found) \in BOOLEAN
  BY Zenon
<1>2. empties' \in [Handlers -> BOOLEAN]
  BY <1>1, UpdateTyped, Zenon DEF HandlerReturns, SchedulerOK
<1>3. current' \in Handlers
  BY DEF HandlerReturns, SchedulerOK, NextHandler, Handlers
<1>4. loop' \in {"idle", "drain", "round_robin"} \cup Handlers
  BY DEF HandlerReturns
<1>5. QED
  BY <1>2, <1>3, <1>4 DEF SchedulerOK

\* What connect() leaves behind is a connection.
LEMMA ConnectTyped ==
  ASSUME NEW p \in PeerConnection, NEW r \in ConnectResults(p)
  PROVE  r.peer \in PeerConnection
<1>1. Connecting(p) \in PeerConnection
  BY DEF Connecting, Armed, PeerConnection
<1>2. ConnectedAtOnce(p) \in PeerConnection
  BY DEF ConnectedAtOnce, Connecting, Armed, PeerConnection
<1>3. r.peer \in {p, Connecting(p), ConnectedAtOnce(p)}
  BY DEF ConnectResults
<1>4. QED
  BY <1>1, <1>2, <1>3

\* initiate_connect never touches the count of connected peers.
LEMMA InitiateTyped ==
  ASSUME TypeOK, NEW s \in Slots, NEW p \in PeerConnection, NEW st \in Statistics,
         NEW reg \in [Contact -> Slots \cup {NoSlot}], NEW free \in Seq(Slots),
         initiate_connect(s, p, st, reg, free), daemon' = daemon
  PROVE  /\ RegistryOK' /\ SchedulerOK'
         /\ statistics' \in Statistics /\ statistics'.connected = st.connected
<1>1. PICK r \in ConnectResults(p) :
        \/ /\ r.ok
           /\ conn' = [conn EXCEPT ![s] = r.peer]
           /\ peers' = reg /\ available' = free
           /\ statistics' = [st EXCEPT !.inbound = Inc(@)]
           /\ HandlerReturns(TRUE)
           /\ UNCHANGED <<generation, aborted>>
        \/ /\ ~r.ok
           /\ delete_peer_connection(s, r.peer, reg, free)
           /\ statistics' = st
           /\ UNCHANGED scheduler
  BY Zenon DEF initiate_connect
<1>2. r.peer \in PeerConnection
  BY ConnectTyped
<1>3. CASE r.ok
  <2>1. /\ conn' = [conn EXCEPT ![s] = r.peer]
        /\ peers' = reg /\ available' = free
        /\ statistics' = [st EXCEPT !.inbound = Inc(@)]
        /\ HandlerReturns(TRUE)
        /\ UNCHANGED <<generation, aborted>>
    BY <1>1, <1>3, Zenon
  <2>2. conn' \in [Slots -> PeerConnection]
    BY <1>2, <2>1, UpdateTyped DEF TypeOK, RegistryOK
  <2>3. RegistryOK'
    BY <2>1, <2>2 DEF TypeOK, RegistryOK
  <2>4. SchedulerOK'
    BY <2>1, HandlerTyped DEF TypeOK
  <2>5. statistics' \in Statistics /\ statistics'.connected = st.connected
    BY <2>1, CountTyped
  <2>6. QED
    BY <2>3, <2>4, <2>5
<1>4. CASE ~r.ok
  <2>1. /\ delete_peer_connection(s, r.peer, reg, free)
        /\ statistics' = st
        /\ UNCHANGED scheduler
    BY <1>1, <1>4, Zenon
  <2>2. RegistryOK'
    BY <1>2, <2>1, DeleteTyped DEF TypeOK
  <2>3. SchedulerOK'
    BY <2>1 DEF TypeOK, SchedulerOK, scheduler
  <2>4. QED
    BY <2>1, <2>2, <2>3
<1>5. QED
  BY <1>3, <1>4
------------------------------------------------------------------------------
(* The inductive invariant.  ConnectionCredit is inductive given the types:*)
(* a unit of credit is taken only below the quota, each move of a handle   *)
(* between the transfer queues keeps the sum, and only a popped disconnect *)
(* gives a unit back.                                                      *)

IndInv == TypeOK /\ ConnectionCredit

\* Initially no handle exists and no peer is connected.
LEMMA InitIndInv == Init => IndInv
<1> SUFFICES ASSUME Init PROVE IndInv
  OBVIOUS
<1>1. Fresh \in PeerConnection
  BY DEF Fresh, PeerConnection
<1>2. conn \in [Slots -> PeerConnection]
  BY <1>1 DEF Init
<1>3. available \in Seq(Slots)
  <2>1. available \in [1 .. PoolSize -> Slots]
    BY DEF Init, Slots
  <2>2. QED
    BY <2>1, SeqDef, SizesAssumption
<1>4. RegistryOK
  <2>1. aborted \in BOOLEAN
    BY Zenon DEF Init
  <2>2. peers \in [Contact -> Slots \cup {NoSlot}] /\ generation \in [Slots -> Nat]
    BY DEF Init
  <2>3. QED
    BY <1>2, <1>3, <2>1, <2>2 DEF RegistryOK
<1>5. statistics \in Statistics /\ statistics.connected = 0
  BY SizeMaxAssumption DEF Init, Statistics, Counter
<1>6. SchedulerOK
  <2>1. daemon \in BOOLEAN /\ empties \in [Handlers -> BOOLEAN]
    BY Zenon DEF Init, Handlers
  <2>2. QED
    BY <2>1 DEF Init, SchedulerOK, Handlers
<1>7. ContactsOK
  <2>1. feeding \in BOOLEAN /\ discovered_async \in BOOLEAN
    BY Zenon DEF Init
  <2>2. QED
    BY <2>1, SizesAssumption DEF Init, ContactsOK
<1>8. UpdatesOK
  <2>1. disconnected_async \in BOOLEAN
    BY Zenon DEF Init
  <2>2. QED
    BY <2>1 DEF Init, UpdatesOK
<1>9. ConnectionCredit
  BY <1>5, FS_EmptySet, SizesAssumption DEF Init, ConnectionCredit
<1>10. QED
  BY <1>4, <1>5, <1>6, <1>7, <1>8, <1>9 DEF IndInv, TypeOK

\* Steps that leave the transfer queues and the count alone.
LEMMA CreditKept ==
  ASSUME ConnectionCredit, UNCHANGED <<connects, sessions, disconnects>>,
         statistics'.connected = statistics.connected
  PROVE  ConnectionCredit'
BY DEF ConnectionCredit

\* The tracker thread touches only the contacts.
LEMMA TrackerStep ==
  ASSUME IndInv,
         (\E c \in TrackerContacts : TrackerReports(c)) \/ TrackerNotifies
  PROVE  IndInv'
<1>1. UNCHANGED <<registry, statistics, daemon, scheduler, retry_queue, updates>>
  BY DEF TrackerReports, TrackerNotifies
<1>2. RegistryOK' /\ SchedulerOK' /\ UpdatesOK' /\ statistics' \in Statistics
  BY <1>1 DEF IndInv, TypeOK, RegistryOK, SchedulerOK, UpdatesOK, registry, scheduler, updates
<1>3. ContactsOK'
  <2>1. CASE TrackerNotifies
    <3>1. feeding' \in BOOLEAN /\ discovered_async' \in BOOLEAN
      BY <2>1, Zenon DEF TrackerNotifies
    <3>2. QED
      BY <2>1, <3>1 DEF IndInv, TypeOK, ContactsOK, TrackerNotifies
  <2>2. ASSUME NEW c \in TrackerContacts, TrackerReports(c) PROVE ContactsOK'
    <3>1. feeding' \in BOOLEAN
      BY <2>2, Zenon DEF TrackerReports, IndInv, TypeOK, ContactsOK
    <3>2. arrivals' \in 0 .. MaxArrivals
      BY <2>2, SizesAssumption DEF IndInv, TypeOK, ContactsOK, TrackerReports
    <3>3. discoveries' \in Seq(TrackerContacts) /\ Len(discoveries') <= ContactsSize
      <4>1. discoveries \in Seq(TrackerContacts) /\ Len(discoveries) <= ContactsSize
            /\ Len(discoveries) \in Nat
        BY DEF IndInv, TypeOK, ContactsOK
      <4>2. CASE discoveries' = Append(discoveries, c) /\ Len(discoveries) < ContactsSize
        BY <4>1, <4>2, SizesAssumption
      <4>3. CASE discoveries' = discoveries
        BY <4>1, <4>3
      <4>4. QED
        BY <2>2, <4>2, <4>3 DEF TrackerReports
    <3>4. QED
      BY <2>2, <3>1, <3>2, <3>3 DEF IndInv, TypeOK, ContactsOK, TrackerReports
  <2>3. QED
    BY <2>1, <2>2
<1>4. ConnectionCredit'
  BY <1>1, CreditKept DEF IndInv, updates
<1>5. QED
  BY <1>2, <1>3, <1>4 DEF IndInv, TypeOK

\* A handle moves from connects to sessions.
LEMMA TransferTakesStep ==
  ASSUME IndInv, TransferTakes PROVE IndInv'
<1>1. UNCHANGED <<registry, statistics, daemon, scheduler, retry_queue, contacts,
                  disconnects, disconnected_async, arrivals>>
  BY DEF TransferTakes
<1>2. RegistryOK' /\ SchedulerOK' /\ ContactsOK' /\ statistics' \in Statistics
  BY <1>1 DEF IndInv, TypeOK, RegistryOK, SchedulerOK, ContactsOK, registry, scheduler,
              contacts
<1>3. /\ Head(connects) \in Handle /\ connects' \in Seq(Handle)
      /\ Len(connects') = Len(connects) - 1
  BY DEF TransferTakes, IndInv, TypeOK, UpdatesOK
<1>4. UpdatesOK'
  BY <1>1, <1>3 DEF IndInv, TypeOK, UpdatesOK, TransferTakes
<1>5. ConnectionCredit'
  <2>1. IsFiniteSet(sessions) /\ Cardinality(sessions) \in Nat
    BY FS_CardinalityType DEF IndInv, ConnectionCredit
  <2>2. /\ IsFiniteSet(sessions') /\ Cardinality(sessions') \in Nat
        /\ Cardinality(sessions') <= Cardinality(sessions) + 1
    <3>1. /\ IsFiniteSet(sessions \cup {Head(connects)})
          /\ Cardinality(sessions \cup {Head(connects)}) =
               IF Head(connects) \in sessions THEN Cardinality(sessions)
                                              ELSE Cardinality(sessions) + 1
      BY <2>1, FS_AddElement
    <3>2. sessions' = sessions \cup {Head(connects)}
      BY DEF TransferTakes
    <3>3. QED
      BY <2>1, <3>1, <3>2
  <2>3. Len(connects) \in Nat /\ Len(disconnects) \in Nat /\ statistics.connected \in Nat
    BY SizeMaxAssumption DEF IndInv, TypeOK, UpdatesOK, Statistics, Counter
  <2>4. QED
    BY <1>1, <1>3, <2>1, <2>2, <2>3 DEF IndInv, ConnectionCredit
<1>6. QED
  BY <1>2, <1>4, <1>5 DEF IndInv, TypeOK

\* A handle moves from sessions to disconnects.
LEMMA TransferDisconnectsStep ==
  ASSUME IndInv, NEW h \in sessions, TransferDisconnects(h) PROVE IndInv'
<1>1. UNCHANGED <<registry, statistics, daemon, scheduler, retry_queue, contacts,
                  connects, arrivals>>
  BY DEF TransferDisconnects
<1>2. RegistryOK' /\ SchedulerOK' /\ ContactsOK' /\ statistics' \in Statistics
  BY <1>1 DEF IndInv, TypeOK, RegistryOK, SchedulerOK, ContactsOK, registry, scheduler,
              contacts
<1>3. disconnects' \in Seq(Handle) /\ Len(disconnects') <= Len(disconnects) + 1
  BY UpdatesAssumption DEF TransferDisconnects, Pushed, IndInv, TypeOK, UpdatesOK
<1>4. UpdatesOK'
  <2>1. disconnected_async' \in BOOLEAN
    BY Zenon DEF TransferDisconnects
  <2>2. QED
    BY <1>1, <1>3, <2>1 DEF IndInv, TypeOK, UpdatesOK, TransferDisconnects
<1>5. ConnectionCredit'
  <2>1. IsFiniteSet(sessions) /\ Cardinality(sessions) \in Nat
    BY FS_CardinalityType DEF IndInv, ConnectionCredit
  <2>2. IsFiniteSet(sessions') /\ Cardinality(sessions') = Cardinality(sessions) - 1
    BY <2>1, FS_RemoveElement DEF TransferDisconnects
  <2>3. Len(connects) \in Nat /\ Len(disconnects) \in Nat /\ statistics.connected \in Nat
        /\ Len(disconnects') \in Nat
    BY <1>3, SizeMaxAssumption DEF IndInv, TypeOK, UpdatesOK, Statistics, Counter
  <2>4. QED
    BY <1>1, <1>3, <2>1, <2>2, <2>3 DEF IndInv, ConnectionCredit
<1>6. QED
  BY <1>2, <1>4, <1>5 DEF IndInv, TypeOK

\* drain_discovered and notify_disconnected.
LEMMA CallbackStep ==
  ASSUME IndInv, DrainBegin \/ DrainPop \/ DrainEnd \/ notify_disconnected \/ SchedulerBegin
  PROVE  IndInv'
<1>1. UNCHANGED <<registry, retry_queue, connects, sessions, disconnects, arrivals,
                  current, empties, feeding>>
  BY DEF DrainBegin, DrainPop, DrainEnd, notify_disconnected, SchedulerBegin, scheduler,
         updates, contacts
<1>2. RegistryOK'
  BY <1>1 DEF IndInv, TypeOK, RegistryOK, registry
<1>3. statistics' \in Statistics /\ statistics'.connected = statistics.connected
  <2>1. CASE DrainPop
    <3>1. statistics.cached \in Counter /\ Inc(statistics.cached) \in Counter
      BY CounterClosed DEF IndInv, TypeOK, Statistics
    <3>2. statistics' = [statistics EXCEPT !.cached =
                           IF statistics.cached < CacheSize THEN Inc(statistics.cached)
                                                            ELSE statistics.cached]
      BY <2>1 DEF DrainPop
    <3>3. QED
      BY <3>1, <3>2 DEF IndInv, TypeOK, Statistics
  <2>2. CASE DrainBegin \/ DrainEnd \/ notify_disconnected \/ SchedulerBegin
    BY <2>2 DEF DrainBegin, DrainEnd, notify_disconnected, SchedulerBegin, IndInv, TypeOK
  <2>3. QED
    BY <2>1, <2>2
<1>4. SchedulerOK'
  <2>1. daemon' \in BOOLEAN
    BY Zenon DEF DrainBegin, DrainPop, DrainEnd, notify_disconnected, SchedulerBegin,
                 IndInv, TypeOK, SchedulerOK
  <2>2. loop' \in {"idle", "drain", "round_robin"} \cup Handlers
    BY DEF DrainBegin, DrainPop, DrainEnd, notify_disconnected, SchedulerBegin, scheduler,
           IndInv, TypeOK, SchedulerOK
  <2>3. QED
    BY <1>1, <2>1, <2>2 DEF IndInv, TypeOK, SchedulerOK
<1>5. UpdatesOK'
  <2>1. disconnected_async' \in BOOLEAN
    BY Zenon DEF DrainBegin, DrainPop, DrainEnd, notify_disconnected, SchedulerBegin,
                 IndInv, TypeOK, UpdatesOK, updates
  <2>2. QED
    BY <1>1, <2>1 DEF IndInv, TypeOK, UpdatesOK
<1>6. ContactsOK'
  <2>1. discovered_async' \in BOOLEAN
    BY Zenon DEF DrainBegin, DrainPop, DrainEnd, notify_disconnected, SchedulerBegin,
                 IndInv, TypeOK, ContactsOK, contacts
  <2>2. CASE DrainPop
    <3>1. /\ discoveries \in Seq(TrackerContacts) /\ discoveries # << >>
          /\ Len(discoveries) <= ContactsSize
          /\ cache \in Seq(TrackerContacts) /\ Len(cache) <= CacheSize
      BY <2>2 DEF DrainPop, IndInv, TypeOK, ContactsOK
    <3>2. /\ Head(discoveries) \in TrackerContacts
          /\ Tail(discoveries) \in Seq(TrackerContacts)
          /\ Len(Tail(discoveries)) <= ContactsSize
      BY <3>1, SizesAssumption
    <3>3. cache' \in Seq(TrackerContacts) /\ Len(cache') <= CacheSize
      <4> DEFINE longer == Append(cache, Head(discoveries))
      <4>1. longer \in Seq(TrackerContacts) /\ Len(longer) = Len(cache) + 1
            /\ Len(cache) \in Nat /\ longer # << >>
        BY <3>1, <3>2
      <4>2. cache' = IF Len(cache) < CacheSize THEN longer ELSE Tail(longer)
        BY <2>2 DEF DrainPop
      <4> HIDE DEF longer
      <4>3. QED
        BY <3>1, <4>1, <4>2, SizesAssumption
    <3>4. QED
      BY <1>1, <2>1, <2>2, <3>2, <3>3 DEF DrainPop, IndInv, TypeOK, ContactsOK
  <2>3. CASE DrainBegin \/ DrainEnd \/ notify_disconnected \/ SchedulerBegin
    BY <1>1, <2>1, <2>3 DEF DrainBegin, DrainEnd, notify_disconnected, SchedulerBegin,
                             IndInv, TypeOK, ContactsOK, contacts
  <2>4. QED
    BY <2>2, <2>3
<1>7. ConnectionCredit'
  BY <1>1, <1>3, CreditKept DEF IndInv
<1>8. QED
  BY <1>2, <1>3, <1>4, <1>5, <1>6, <1>7 DEF IndInv, TypeOK

\* The head of the scheduler's loop.
LEMMA RoundRobinStep ==
  ASSUME IndInv, round_robin_establisher_scheduler PROVE IndInv'
<1>1. UNCHANGED <<registry, statistics, daemon, retry_queue, contacts, updates, arrivals>>
  BY DEF round_robin_establisher_scheduler
<1>2. SchedulerOK'
  <2>1. CASE HandlerReturns(FALSE)
    BY <1>1, <2>1, HandlerTyped DEF IndInv, TypeOK
  <2>2. CASE loop' \in {"idle", current} /\ UNCHANGED <<current, empties>>
    BY <1>1, <2>2 DEF IndInv, TypeOK, SchedulerOK
  <2>3. QED
    BY <2>1, <2>2 DEF round_robin_establisher_scheduler
<1>3. RegistryOK' /\ ContactsOK' /\ UpdatesOK' /\ statistics' \in Statistics
  BY <1>1 DEF IndInv, TypeOK, RegistryOK, ContactsOK, UpdatesOK, registry, contacts, updates
<1>4. ConnectionCredit'
  BY <1>1, CreditKept DEF IndInv, updates
<1>5. QED
  BY <1>2, <1>3, <1>4 DEF IndInv, TypeOK

\* discovered_peer_scheduler spends a contact, never credit.
LEMMA DiscoveredStep ==
  ASSUME IndInv, discovered_peer_scheduler PROVE IndInv'
<1>1. UNCHANGED <<daemon, retry_queue, discoveries, feeding, discovered_async, updates,
                  arrivals>>
  BY DEF discovered_peer_scheduler
<1>2. UpdatesOK'
  BY <1>1 DEF IndInv, TypeOK, UpdatesOK, updates
<1>3. CASE cache = << >> /\ HandlerReturns(FALSE) /\ UNCHANGED <<registry, statistics, cache>>
  <2>1. RegistryOK' /\ ContactsOK' /\ statistics' \in Statistics
    BY <1>1, <1>3 DEF IndInv, TypeOK, RegistryOK, ContactsOK, registry
  <2>2. SchedulerOK'
    BY <1>1, <1>3, HandlerTyped DEF IndInv, TypeOK
  <2>3. ConnectionCredit'
    BY <1>1, <1>3, CreditKept DEF IndInv, updates
  <2>4. QED
    BY <1>2, <2>1, <2>2, <2>3 DEF IndInv, TypeOK
<1>4. CASE cache # << >> /\ available # << >>
  <2> DEFINE c  == Last(cache)
             s  == Last(available)
             st == [statistics EXCEPT !.cached = Dec(@)]
             p  == [conn[s] EXCEPT !.contact = c, !.source = "tracker", !.state = "TRANSPORT"]
  <2>1. /\ c \in TrackerContacts /\ Front(cache) \in Seq(TrackerContacts)
        /\ Len(Front(cache)) <= CacheSize
    BY <1>4, StackTyped, SizesAssumption DEF IndInv, TypeOK, ContactsOK
  <2>2. s \in Slots /\ Front(available) \in Seq(Slots)
    BY <1>4, StackTyped DEF IndInv, TypeOK, RegistryOK
  <2>3. st \in Statistics /\ st.connected = statistics.connected
    BY CountTyped DEF IndInv, TypeOK
  <2>4. p \in PeerConnection
    <3>1. conn[s] \in PeerConnection /\ c \in Contact
      BY <2>1, <2>2 DEF IndInv, TypeOK, RegistryOK, Contact
    <3>2. QED
      BY <3>1, RecordTyped
  <2>5. [peers EXCEPT ![c] = s] \in [Contact -> Slots \cup {NoSlot}]
    BY <2>2, UpdateTyped DEF IndInv, TypeOK, RegistryOK
  <2>6. cache' = Front(cache)
    BY <1>4 DEF discovered_peer_scheduler
  <2>7. \/ /\ generation' = Released(s)
           /\ statistics' = st
           /\ UNCHANGED <<conn, peers, available, aborted, scheduler>>
        \/ initiate_connect(s, p, st, [peers EXCEPT ![c] = s], Front(available))
    BY <1>4, Zenon DEF discovered_peer_scheduler
  <2> HIDE DEF c, s, st, p
  <2>8. ContactsOK'
    BY <1>1, <2>1, <2>6 DEF IndInv, TypeOK, ContactsOK
  <2>9. /\ RegistryOK' /\ SchedulerOK'
        /\ statistics' \in Statistics /\ statistics'.connected = statistics.connected
    <3>1. CASE /\ generation' = Released(s)
               /\ statistics' = st
               /\ UNCHANGED <<conn, peers, available, aborted, scheduler>>
      <4>1. generation' \in [Slots -> Nat]
        BY <2>2, <3>1 DEF Released, IndInv, TypeOK, RegistryOK
      <4>2. RegistryOK' /\ SchedulerOK'
        BY <1>1, <3>1, <4>1 DEF IndInv, TypeOK, RegistryOK, SchedulerOK, scheduler
      <4>3. QED
        BY <2>3, <3>1, <4>2
    <3>2. CASE initiate_connect(s, p, st, [peers EXCEPT ![c] = s], Front(available))
      BY <1>1, <2>2, <2>3, <2>4, <2>5, <3>2, InitiateTyped DEF IndInv
    <3>3. QED
      BY <2>7, <3>1, <3>2
  <2>10. ConnectionCredit'
    BY <1>1, <2>9, CreditKept DEF IndInv, updates
  <2>11. QED
    BY <1>2, <2>8, <2>9, <2>10 DEF IndInv, TypeOK
<1>5. QED
  BY <1>3, <1>4 DEF discovered_peer_scheduler

\* disconnected_peer_scheduler gives one unit of credit back per disconnect whose peer
\* is still the slot's occupant, and none for a stale one.
LEMMA DisconnectedStep ==
  ASSUME IndInv, disconnected_peer_scheduler PROVE IndInv'
<1>1. UNCHANGED <<daemon, retry_queue, contacts, connects, sessions, disconnected_async,
                  arrivals>>
  BY DEF disconnected_peer_scheduler
<1>2. ContactsOK'
  BY <1>1 DEF IndInv, TypeOK, ContactsOK, contacts
<1>3. CASE /\ HandlerReturns(FALSE)
           /\ UNCHANGED <<registry, statistics, disconnects>>
  <2>1. RegistryOK' /\ UpdatesOK' /\ statistics' \in Statistics
    BY <1>1, <1>3 DEF IndInv, TypeOK, RegistryOK, UpdatesOK, registry
  <2>2. SchedulerOK'
    BY <1>1, <1>3, HandlerTyped DEF IndInv, TypeOK
  <2>3. ConnectionCredit'
    BY <1>1, <1>3, CreditKept DEF IndInv
  <2>4. QED
    BY <1>2, <2>1, <2>2, <2>3 DEF IndInv, TypeOK
<1>4. CASE disconnects # << >>
  <2> DEFINE s  == Head(disconnects)[1]
             p  == [conn[s] EXCEPT !.state = "DISCONNECTED"]
             q  == [p EXCEPT !.failures = @ + 1]
             st == [statistics EXCEPT !.connected = Dec(@)]
  <2>1. /\ Head(disconnects) \in Handle
        /\ Tail(disconnects) \in Seq(Handle)
        /\ Len(disconnects) \in Nat /\ Len(Tail(disconnects)) = Len(disconnects) - 1
    BY <1>4 DEF IndInv, TypeOK, UpdatesOK
  <2>2. s \in Slots
    BY <2>1 DEF Handle
  <2>3. p \in PeerConnection /\ q \in PeerConnection
    <3>1. conn[s] \in PeerConnection
      BY <2>2 DEF IndInv, TypeOK, RegistryOK
    <3>2. QED
      BY <3>1, DisconnectedTyped
  <2>4. st \in Statistics /\ st.connected = Dec(statistics.connected)
    BY CountTyped DEF IndInv, TypeOK
  <2>5. disconnects' = Tail(disconnects)
    BY <1>4 DEF disconnected_peer_scheduler
  <2>6. \/ UNCHANGED <<registry, statistics, scheduler>>
        \/ /\ delete_peer_connection(s, p, peers, available)
           /\ statistics' = st
           /\ UNCHANGED scheduler
        \/ initiate_connect(s, q, st, peers, available)
    BY <1>4, Zenon DEF disconnected_peer_scheduler
  <2> HIDE DEF s, p, q, st
  <2>7. UpdatesOK'
    BY <1>1, <2>1, <2>5 DEF IndInv, TypeOK, UpdatesOK
  <2>8. /\ RegistryOK' /\ SchedulerOK' /\ statistics' \in Statistics
        /\ statistics'.connected \in {statistics.connected, Dec(statistics.connected)}
    <3>1. CASE UNCHANGED <<registry, statistics, scheduler>>
      BY <1>1, <3>1 DEF IndInv, TypeOK, RegistryOK, SchedulerOK, registry, scheduler
    <3>2. CASE /\ delete_peer_connection(s, p, peers, available)
               /\ statistics' = st
               /\ UNCHANGED scheduler
      <4>1. RegistryOK'
        BY <2>2, <2>3, <3>2, DeleteTyped DEF IndInv, TypeOK, RegistryOK
      <4>2. SchedulerOK'
        BY <1>1, <3>2 DEF IndInv, TypeOK, SchedulerOK, scheduler
      <4>3. QED
        BY <2>4, <3>2, <4>1, <4>2
    <3>3. CASE initiate_connect(s, q, st, peers, available)
      <4>1. peers \in [Contact -> Slots \cup {NoSlot}] /\ available \in Seq(Slots)
        BY DEF IndInv, TypeOK, RegistryOK
      <4>2. QED
        BY <1>1, <2>2, <2>3, <2>4, <3>3, <4>1, InitiateTyped DEF IndInv
    <3>4. QED
      BY <2>6, <3>1, <3>2, <3>3
  <2>9. ConnectionCredit'
    <3>1. /\ IsFiniteSet(sessions) /\ Cardinality(sessions) \in Nat
          /\ Len(connects) \in Nat /\ statistics.connected \in Nat
      BY FS_CardinalityType, SizeMaxAssumption
         DEF IndInv, ConnectionCredit, TypeOK, UpdatesOK, Statistics, Counter
    <3>2. Len(disconnects) > 0
      BY <1>4, <2>1 DEF IndInv, TypeOK, UpdatesOK
    <3>3. statistics'.connected \in {statistics.connected, statistics.connected - 1}
      BY <2>1, <2>8, <3>1, <3>2 DEF Dec, IndInv, ConnectionCredit
    <3>4. Len(disconnects') = Len(disconnects) - 1
      BY <2>1, <2>5
    <3>5. QED
      BY <1>1, <2>1, <3>1, <3>3, <3>4, SizesAssumption DEF IndInv, ConnectionCredit
  <2>10. QED
    BY <1>2, <2>7, <2>8, <2>9 DEF IndInv, TypeOK
<1>5. QED
  BY <1>3, <1>4, Zenon DEF disconnected_peer_scheduler

\* failed_peer_scheduler spends a retry entry, never credit.
LEMMA FailedStep ==
  ASSUME IndInv, failed_peer_scheduler PROVE IndInv'
<1>1. UNCHANGED <<daemon, contacts, updates, arrivals>>
  BY DEF failed_peer_scheduler
<1>2. ContactsOK'
  BY <1>1 DEF IndInv, TypeOK, ContactsOK, contacts
<1>3. CASE /\ HandlerReturns(FALSE)
           /\ UNCHANGED <<registry, statistics, retry_queue>>
  <2>1. RegistryOK' /\ UpdatesOK' /\ statistics' \in Statistics
    BY <1>1, <1>3 DEF IndInv, TypeOK, RegistryOK, UpdatesOK, registry, updates
  <2>2. SchedulerOK'
    BY <1>1, <1>3, HandlerTyped DEF IndInv, TypeOK
  <2>3. ConnectionCredit'
    BY <1>1, <1>3, CreditKept DEF IndInv, updates
  <2>4. QED
    BY <1>2, <2>1, <2>2, <2>3 DEF IndInv, TypeOK
<1>4. CASE retry_queue # << >>
  <2> DEFINE s  == Head(retry_queue)[1]
             st == [statistics EXCEPT !.retry = Dec(@)]
  <2>1. Head(retry_queue) \in Handle /\ Tail(retry_queue) \in Seq(Handle)
    BY <1>4 DEF IndInv, TypeOK, UpdatesOK
  <2>2. s \in Slots
    BY <2>1 DEF Handle
  <2>3. st \in Statistics /\ st.connected = statistics.connected
    BY CountTyped DEF IndInv, TypeOK
  <2>4. retry_queue' = Tail(retry_queue)
    BY <1>4 DEF failed_peer_scheduler
  <2>5. \/ statistics' = st /\ UNCHANGED <<registry, scheduler>>
        \/ initiate_connect(s, conn[s], st, peers, available)
    BY <1>4, Zenon DEF failed_peer_scheduler
  <2> HIDE DEF s, st
  <2>6. UpdatesOK'
    BY <1>1, <2>1, <2>4 DEF IndInv, TypeOK, UpdatesOK, updates
  <2>7. /\ RegistryOK' /\ SchedulerOK' /\ statistics' \in Statistics
        /\ statistics'.connected = statistics.connected
    <3>1. CASE statistics' = st /\ UNCHANGED <<registry, scheduler>>
      BY <1>1, <2>3, <3>1
         DEF IndInv, TypeOK, RegistryOK, SchedulerOK, registry, scheduler
    <3>2. CASE initiate_connect(s, conn[s], st, peers, available)
      <4>1. /\ conn[s] \in PeerConnection
            /\ peers \in [Contact -> Slots \cup {NoSlot}] /\ available \in Seq(Slots)
        BY <2>2 DEF IndInv, TypeOK, RegistryOK
      <4>2. QED
        BY <1>1, <2>2, <2>3, <3>2, <4>1, InitiateTyped DEF IndInv
    <3>3. QED
      BY <2>5, <3>1, <3>2
  <2>8. ConnectionCredit'
    BY <1>1, <2>7, CreditKept DEF IndInv, updates
  <2>9. QED
    BY <1>2, <2>6, <2>7, <2>8 DEF IndInv, TypeOK
<1>5. QED
  BY <1>3, <1>4, Zenon DEF failed_peer_scheduler

\* The updates the socket callback makes to a connection in its handshake.
LEMMA HandshakeTyped ==
  ASSUME NEW p \in PeerConnection
  PROVE  /\ Offered(p, TRUE) \in PeerConnection /\ Offered(p, FALSE) \in PeerConnection
         /\ Flushed(p) \in PeerConnection
         /\ [p EXCEPT !.outgoing = "sent"] \in PeerConnection
         /\ [p EXCEPT !.outgoing = "partial", !.watch = "WRITE"] \in PeerConnection
         /\ [p EXCEPT !.watch = "READ"] \in PeerConnection
BY DEF Offered, Flushed, PeerConnection

\* server_socket_callback: accepting a connection takes no credit.
LEMMA AcceptStep ==
  ASSUME IndInv, NEW c \in AcceptContacts, accept_peer_connection(c)
  PROVE  IndInv'
<1>1. /\ UNCHANGED <<scheduler, retry_queue, contacts, updates>>
      /\ arrivals < MaxArrivals /\ arrivals' = arrivals + 1
  BY DEF accept_peer_connection, AcceptRefused, AcceptNew, AcceptReplacing, CanAccept
<1>2. UpdatesOK' /\ ContactsOK'
  BY <1>1, SizesAssumption DEF IndInv, TypeOK, UpdatesOK, ContactsOK, updates, contacts
<1>3. c \in Contact
  BY DEF Contact
<1>4. /\ RegistryOK' /\ daemon' \in BOOLEAN
      /\ statistics' \in Statistics /\ statistics'.connected = statistics.connected
  <2>1. CASE AcceptRefused(c)
    BY <2>1 DEF AcceptRefused, IndInv, TypeOK, RegistryOK, SchedulerOK, registry
  <2>2. ASSUME available # << >>
        PROVE  /\ Last(available) \in Slots /\ Front(available) \in Seq(Slots)
               /\ AcceptedPeer(Last(available), c) \in PeerConnection
    <3>1. Last(available) \in Slots /\ Front(available) \in Seq(Slots)
      BY <2>2, StackTyped DEF IndInv, TypeOK, RegistryOK
    <3>2. conn[Last(available)] \in PeerConnection
      BY <3>1 DEF IndInv, TypeOK, RegistryOK
    <3>3. QED
      BY <1>3, <3>1, <3>2, RecordTyped DEF AcceptedPeer
  <2>3. CASE AcceptNew(c)
    <3> DEFINE s == Last(available)
               a == AcceptedPeer(s, c)
    <3>1. /\ conn' = [conn EXCEPT ![s] = a]
          /\ peers' = [peers EXCEPT ![c] = s]
          /\ available' = Front(available)
          /\ statistics' = [statistics EXCEPT !.outbound = Inc(@)]
          /\ UNCHANGED <<generation, aborted, daemon>>
      BY <2>3, Zenon DEF AcceptNew
    <3>2. s \in Slots /\ Front(available) \in Seq(Slots) /\ a \in PeerConnection
      BY <2>2, <2>3 DEF AcceptNew
    <3> HIDE DEF s, a
    <3>3. conn' \in [Slots -> PeerConnection] /\ peers' \in [Contact -> Slots \cup {NoSlot}]
      BY <3>1, <3>2, UpdateTyped DEF IndInv, TypeOK, RegistryOK
    <3>4. RegistryOK' /\ daemon' \in BOOLEAN
      BY <3>1, <3>2, <3>3 DEF IndInv, TypeOK, RegistryOK, SchedulerOK
    <3>5. QED
      BY <3>1, <3>4, CountTyped DEF IndInv, TypeOK
  <2>4. CASE AcceptReplacing(c)
    <3> DEFINE s    == Last(available)
               a    == AcceptedPeer(s, c)
               o    == peers[c]
               busy == conn[o].state = "CONNECTED"
               held == busy /\ conn[o].sock
               st   == [statistics EXCEPT !.outbound = Inc(@)]
    <3>1. /\ conn' = [conn EXCEPT ![s] = a, ![o] = Vacant(held)]
          /\ peers' = [peers EXCEPT ![c] = s]
          /\ available' = Append(Front(available), o)
          /\ generation' = Released(o)
          /\ aborted' = (AssertsOn /\ held)
          /\ statistics' = IF busy THEN st ELSE Resolved(st, conn[o].source)
          /\ daemon' = (daemon \/ (~busy /\ conn[o].source # "tcp_server"))
      BY <2>4, Zenon DEF AcceptReplacing
    <3>2. s \in Slots /\ Front(available) \in Seq(Slots) /\ a \in PeerConnection
      BY <2>2, <2>4 DEF AcceptReplacing
    <3>3. o \in Slots
      BY <1>3, <2>4 DEF AcceptReplacing, IndInv, TypeOK, RegistryOK
    <3>4. conn[o] \in PeerConnection
      BY <3>3 DEF IndInv, TypeOK, RegistryOK
    <3>5. held \in BOOLEAN
      <4>1. conn[o].sock \in BOOLEAN
        BY <3>4 DEF PeerConnection
      <4>2. QED
        BY <4>1, Zenon
    <3>6. Vacant(held) \in PeerConnection
      BY <3>5, VacantTyped
    <3>7. aborted' \in BOOLEAN
      BY <3>1, <3>5, BuildAssumption, Zenon
    <3>8. daemon' \in BOOLEAN
      BY <3>1, Zenon DEF IndInv, TypeOK, SchedulerOK
    <3>9. statistics' \in Statistics /\ statistics'.connected = statistics.connected
      <4>1. st \in Statistics /\ st.connected = statistics.connected
        BY CountTyped DEF IndInv, TypeOK
      <4> HIDE DEF st, busy
      <4>2. QED
        BY <3>1, <4>1, ResolvedStatistics
    <3> HIDE DEF s, a, o, busy, held, st
    <3>10. conn' \in [Slots -> PeerConnection]
      <4>1. [conn EXCEPT ![s] = a] \in [Slots -> PeerConnection]
        BY <3>2, UpdateTyped DEF IndInv, TypeOK, RegistryOK
      <4>2. QED
        BY <3>1, <3>6, <4>1, UpdateTyped
    <3>11. peers' \in [Contact -> Slots \cup {NoSlot}]
      BY <3>1, <3>2, UpdateTyped DEF IndInv, TypeOK, RegistryOK
    <3>12. available' \in Seq(Slots)
      BY <3>1, <3>2, <3>3
    <3>13. generation' \in [Slots -> Nat]
      BY <3>1, <3>3 DEF Released, IndInv, TypeOK, RegistryOK
    <3>14. QED
      BY <3>7, <3>8, <3>9, <3>10, <3>11, <3>12, <3>13 DEF RegistryOK
  <2>5. QED
    BY <2>1, <2>3, <2>4 DEF accept_peer_connection
<1>5. SchedulerOK'
  BY <1>1, <1>4 DEF IndInv, TypeOK, SchedulerOK, scheduler
<1>6. ConnectionCredit'
  BY <1>1, <1>4, CreditKept DEF IndInv, updates
<1>7. QED
  BY <1>2, <1>4, <1>5, <1>6 DEF IndInv, TypeOK

\* A callback that ends by changing one connection record and nothing else.
LEMMA RecordStep ==
  ASSUME IndInv, NEW s \in Slots, NEW p \in PeerConnection,
         conn' = [conn EXCEPT ![s] = p],
         UNCHANGED <<peers, available, generation, aborted, statistics, daemon, scheduler,
                     retry_queue, contacts, updates, arrivals>>
  PROVE  IndInv'
<1>1. conn' \in [Slots -> PeerConnection]
  BY UpdateTyped DEF IndInv, TypeOK, RegistryOK
<1>2. RegistryOK' /\ SchedulerOK' /\ ContactsOK' /\ UpdatesOK' /\ statistics' \in Statistics
  BY <1>1 DEF IndInv, TypeOK, RegistryOK, SchedulerOK, ContactsOK, UpdatesOK, scheduler,
              contacts, updates
<1>3. ConnectionCredit'
  BY CreditKept DEF IndInv, updates
<1>4. QED
  BY <1>2, <1>3 DEF IndInv, TypeOK

\* A callback that gives an attempt up, for a while or for good.
LEMMA GiveUpStep ==
  ASSUME IndInv, NEW s \in Slots, handle_peer_failure(s) \/ hard_delete_peer_connection(s),
         UNCHANGED <<scheduler, contacts, updates, arrivals>>
  PROVE  IndInv'
<1>1. /\ RegistryOK' /\ statistics' \in Statistics /\ daemon' \in BOOLEAN
      /\ retry_queue' = retry_queue
      /\ statistics'.connected = statistics.connected
  BY FailureTyped, HardDeleteTyped DEF IndInv
<1>2. SchedulerOK' /\ ContactsOK' /\ UpdatesOK'
  BY <1>1 DEF IndInv, TypeOK, SchedulerOK, ContactsOK, UpdatesOK, scheduler, contacts, updates
<1>3. ConnectionCredit'
  BY <1>1, CreditKept DEF IndInv, updates
<1>4. QED
  BY <1>1, <1>2, <1>3 DEF IndInv, TypeOK

\* Below the quota a dispatched peer pays for the handle it is sent under.
LEMMA DispatchStep ==
  ASSUME IndInv, NEW s \in Slots, NEW p \in PeerConnection, ~has_met_connection_quota,
         handle_peer_connection_and_dispatch(s, p),
         UNCHANGED <<scheduler, contacts, arrivals>>
  PROVE  IndInv'
<1>1. /\ RegistryOK' /\ statistics' \in Statistics /\ daemon' \in BOOLEAN /\ UpdatesOK'
      /\ statistics'.connected = Inc(statistics.connected)
  BY DispatchTyped DEF IndInv
<1>2. SchedulerOK' /\ ContactsOK'
  BY <1>1 DEF IndInv, TypeOK, SchedulerOK, ContactsOK, scheduler, contacts
<1>3. ConnectionCredit'
  <2>1. /\ statistics.connected \in Nat /\ statistics.connected < Quota
    BY SizesAssumption, SizeMaxAssumption
       DEF has_met_connection_quota, IndInv, TypeOK, Statistics, Counter
  <2>2. statistics'.connected = statistics.connected + 1
    BY <1>1, <2>1, SizesAssumption, SizeMaxAssumption DEF Inc
  <2>3. /\ Len(connects) \in Nat /\ Len(connects') \in Nat
        /\ Len(connects') <= Len(connects) + 1
    BY UpdatesAssumption
       DEF handle_peer_connection_and_dispatch, Pushed, IndInv, TypeOK, UpdatesOK
  <2>4. UNCHANGED <<sessions, disconnects>>
    BY DEF handle_peer_connection_and_dispatch
  <2>5. IsFiniteSet(sessions) /\ Cardinality(sessions) \in Nat /\ Len(disconnects) \in Nat
    BY FS_CardinalityType DEF IndInv, ConnectionCredit, TypeOK, UpdatesOK
  <2>6. QED
    BY <2>1, <2>2, <2>3, <2>4, <2>5, SizesAssumption DEF IndInv, ConnectionCredit
<1>4. QED
  BY <1>1, <1>2, <1>3 DEF IndInv, TypeOK

\* peer_socket_callback: only a handshake completed below the quota takes credit.
LEMMA SocketStep ==
  ASSUME IndInv, NEW s \in Slots, peer_socket_callback(s)
  PROVE  IndInv'
<1>1. conn[s] \in PeerConnection
  BY DEF IndInv, TypeOK, RegistryOK
<1>2. CASE SocketAtQuota(s) \/ SocketFails(s) \/ HandshakeInvalid(s)
  BY <1>2, GiveUpStep DEF SocketAtQuota, SocketFails, HandshakeInvalid
<1>3. CASE handle_peer_transport_level_initiations(s)
  <2>1. PICK sent \in BOOLEAN : conn' = [conn EXCEPT ![s] = Offered(conn[s], sent)]
    BY <1>3, Zenon DEF handle_peer_transport_level_initiations
  <2>2. Offered(conn[s], sent) \in PeerConnection
    BY <1>1, HandshakeTyped, Zenon
  <2>3. UNCHANGED <<peers, available, generation, aborted, statistics, daemon, scheduler,
                    retry_queue, contacts, updates, arrivals>>
    BY <1>3, Zenon DEF handle_peer_transport_level_initiations
  <2>4. QED
    BY <2>1, <2>2, <2>3, RecordStep
<1>4. CASE HandshakeFlushed(s)
  <2> DEFINE p == Flushed(conn[s])
             q == [p EXCEPT !.watch = "READ"]
  <2>1. /\ ~has_met_connection_quota
        /\ UNCHANGED <<scheduler, contacts, arrivals>>
        /\ \/ /\ conn' = [conn EXCEPT ![s] = q]
              /\ UNCHANGED <<peers, available, generation, aborted, statistics, daemon,
                             retry_queue, updates>>
           \/ handle_peer_connection_and_dispatch(s, p)
    BY <1>4, Zenon DEF HandshakeFlushed, Ready
  <2>2. p \in PeerConnection
    BY <1>1, HandshakeTyped
  <2> HIDE DEF p
  <2>3. q \in PeerConnection
    BY <2>2, HandshakeTyped
  <2> HIDE DEF q
  <2>4. QED
    BY <2>1, <2>2, <2>3, DispatchStep, RecordStep
<1>5. CASE HandshakeValid(s)
  <2> DEFINE p == [conn[s] EXCEPT !.outgoing = "sent"]
             q == [conn[s] EXCEPT !.outgoing = "partial", !.watch = "WRITE"]
  <2>1. /\ ~has_met_connection_quota
        /\ UNCHANGED <<scheduler, contacts, arrivals>>
        /\ \/ handle_peer_connection_and_dispatch(s, conn[s])
           \/ handle_peer_connection_and_dispatch(s, p)
           \/ /\ conn' = [conn EXCEPT ![s] = q]
              /\ UNCHANGED <<peers, available, generation, aborted, statistics, daemon,
                             retry_queue, updates>>
    BY <1>5, Zenon DEF HandshakeValid, Ready
  <2>2. p \in PeerConnection /\ q \in PeerConnection
    BY <1>1, HandshakeTyped
  <2> HIDE DEF p, q
  <2>3. QED
    BY <1>1, <2>1, <2>2, DispatchStep, RecordStep
<1>6. QED
  BY <1>2, <1>3, <1>4, <1>5 DEF peer_socket_callback

\* peer_timer_callback queues a retry or gives the attempt up.
LEMMA TimerStep ==
  ASSUME IndInv, NEW s \in Slots, peer_timer_callback(s)
  PROVE  IndInv'
<1>1. UNCHANGED <<scheduler, contacts, updates, arrivals>>
  BY Zenon DEF peer_timer_callback
<1>2. CASE handle_peer_failure(s)
  BY <1>1, <1>2, GiveUpStep
<1>3. CASE /\ conn' = [conn EXCEPT ![s] = RetryDue(conn[s])]
           /\ retry_queue' = Append(retry_queue, <<s, generation[s]>>)
           /\ statistics' = [statistics EXCEPT !.failed = Dec(@), !.retry = Inc(@)]
           /\ daemon' = TRUE
           /\ UNCHANGED <<peers, available, generation, aborted>>
  <2>1. RetryDue(conn[s]) \in PeerConnection
    BY ZenonT(40) DEF RetryDue, PeerConnection, IndInv, TypeOK, RegistryOK
  <2>2. conn' \in [Slots -> PeerConnection]
    BY <1>3, <2>1, UpdateTyped DEF IndInv, TypeOK, RegistryOK
  <2>3. RegistryOK'
    BY <1>3, <2>2 DEF IndInv, TypeOK, RegistryOK
  <2>4. daemon' \in BOOLEAN
    BY <1>3, Zenon
  <2>5. SchedulerOK' /\ ContactsOK'
    BY <1>1, <2>4 DEF IndInv, TypeOK, SchedulerOK, ContactsOK, scheduler, contacts
  <2>6. <<s, generation[s]>> \in Handle
    BY DEF IndInv, TypeOK, RegistryOK, Handle
  <2>7. UpdatesOK'
    BY <1>1, <1>3, <2>6 DEF IndInv, TypeOK, UpdatesOK, updates
  <2>8. statistics' \in Statistics /\ statistics'.connected = statistics.connected
    BY <1>3, CountTyped DEF IndInv, TypeOK
  <2>9. ConnectionCredit'
    BY <1>1, <2>8, CreditKept DEF IndInv, updates
  <2>10. QED
    BY <2>3, <2>5, <2>7, <2>8, <2>9 DEF IndInv, TypeOK
<1>4. QED
  BY <1>2, <1>3, Zenon DEF peer_timer_callback

\* Every step keeps the inductive invariant.
LEMMA NextIndInv == IndInv /\ [Next]_vars => IndInv'
<1> SUFFICES ASSUME IndInv, [Next]_vars PROVE IndInv'
  OBVIOUS
<1>1. CASE UNCHANGED vars
  <2>1. RegistryOK' /\ SchedulerOK' /\ ContactsOK' /\ UpdatesOK' /\ statistics' \in Statistics
    BY <1>1 DEF IndInv, TypeOK, RegistryOK, SchedulerOK, ContactsOK, UpdatesOK,
                registry, scheduler, contacts, updates, vars
  <2>2. ConnectionCredit'
    BY <1>1, CreditKept DEF IndInv, updates, vars
  <2>3. QED
    BY <2>1, <2>2 DEF IndInv, TypeOK
<1>2. CASE Next
  <2>1. CASE (\E c \in TrackerContacts : TrackerReports(c)) \/ TrackerNotifies
    BY <2>1, TrackerStep
  <2>2. CASE TransferTakes
    BY <2>2, TransferTakesStep
  <2>3. CASE \E h \in sessions : TransferDisconnects(h)
    BY <2>3, TransferDisconnectsStep
  <2>4. CASE Due
    BY <2>4, CallbackStep, RoundRobinStep, DiscoveredStep, DisconnectedStep, FailedStep
       DEF Due
  <2>5. CASE \E c \in AcceptContacts : accept_peer_connection(c)
    BY <2>5, AcceptStep
  <2>6. CASE \E s \in Slots : peer_socket_callback(s)
    BY <2>6, SocketStep
  <2>7. CASE \E s \in Slots : peer_timer_callback(s)
    BY <2>7, TimerStep
  <2>8. QED
    BY <1>2, <2>1, <2>2, <2>3, <2>4, <2>5, <2>6, <2>7 DEF Next
<1>3. QED
  BY <1>1, <1>2

LEMMA Inductive == Spec => []IndInv
<1>1. QED
  BY InitIndInv, NextIndInv, PTL DEF Spec
------------------------------------------------------------------------------
\* Every variable keeps its type: no queue of contacts or cache overflows, no counter
\* leaves the range of std::size_t, no handle names a slot outside the pool.
THEOREM TypeCorrect == Spec => []TypeOK
<1>1. IndInv => TypeOK
  BY DEF IndInv
<1>2. QED
  BY <1>1, Inductive, PTL

\* connected_bittorrent_peers never exceeds healthy_peer_count and covers every handle
\* the transfer thread has been sent, holds or has sent back, whatever the order of
\* accepts, disconnects, stale handles and re-used slots.
THEOREM CreditSound == Spec => []ConnectionCredit
<1>1. IndInv => ConnectionCredit
  BY DEF IndInv
<1>2. QED
  BY <1>1, Inductive, PTL
------------------------------------------------------------------------------
(* Slots, register and handles: the inductive invariant.                   *)

Free == ToSet(available)
Transfer == ToSet(connects) \cup sessions \cup ToSet(disconnects)
Queued == ToSet(retry_queue)

\* The five kinds of connection record a slot can hold between two callbacks.
IsVacant(p) ==
  /\ p.state = "null" /\ p.source = "null" /\ p.contact = NoContact
  /\ p.watch = "none" /\ p.timer = FALSE /\ p.outgoing = "none"

IsInFlight(p) ==
  /\ p.state \in {"TRANSPORT", "HANDSHAKE"} /\ p.source # "null"
  /\ p.watch # "none" /\ p.timer = TRUE /\ p.sock = TRUE
  /\ p.state = "TRANSPORT" => p.outgoing = "none"
  /\ p.source = "tcp_server" =>
       p.state = "HANDSHAKE" /\ (p.watch = "READ" => p.outgoing = "none")

IsBackingOff(p) ==
  /\ p.state = "FAILED" /\ p.source = "tracker" /\ p.outgoing = "none"
  /\ p.watch = "none" /\ p.timer = TRUE /\ p.sock = FALSE

IsWaiting(p) ==
  /\ p.state = "TRANSPORT" /\ p.source = "tracker" /\ p.outgoing = "none"
  /\ p.watch = "none" /\ p.timer = FALSE /\ p.sock = FALSE

IsConnected(p) ==
  /\ p.state = "CONNECTED" /\ p.source # "null"
  /\ p.watch = "none" /\ p.timer = FALSE /\ p.sock = TRUE

Occupied(p) == IsInFlight(p) \/ IsBackingOff(p) \/ IsWaiting(p) \/ IsConnected(p)

\* The free stack, the records and the register describe one partition of the slots.
PoolInv ==
  /\ IsInjective(available)
  /\ \A s \in Slots : s \in Free => IsVacant(conn[s])
  /\ \A s \in Slots : s \notin Free =>
       /\ Occupied(conn[s])
       /\ conn[s].contact \in Contact /\ peers[conn[s].contact] = s
  /\ \A c \in Contact : peers[c] # NoSlot => conn[peers[c]].contact = c

\* A handle is never ahead of its slot; one that is current names a connected peer or a
\* peer waiting for its retry, and each of those has its handle under way.
HandleInv ==
  /\ \A h \in Transfer : h[2] <= generation[h[1]]
  /\ \A h \in Queued : h[2] <= generation[h[1]]
  /\ \A s \in Slots : HandleOf(s) \in Transfer <=> IsConnected(conn[s])
  /\ \A s \in Slots : HandleOf(s) \in Queued <=> IsWaiting(conn[s])

\* No handle is under way twice.
DistinctInv ==
  /\ IsInjective(connects) /\ IsInjective(disconnects) /\ IsInjective(retry_queue)
  /\ ToSet(connects) \cap sessions = {}
  /\ ToSet(connects) \cap ToSet(disconnects) = {}
  /\ sessions \cap ToSet(disconnects) = {}

\* discovered_peer_scheduler is entered only with a slot to acquire.
LoopInv == loop = "discovered" => available # << >>

SlotsInv == PoolInv /\ HandleInv /\ DistinctInv /\ LoopInv

PoolIndInv == IndInv /\ SlotsInv
------------------------------------------------------------------------------
(* The kinds of record, and what the handlers make of them.                *)

\* A record is of one kind at most.
LEMMA KindsApart ==
  ASSUME NEW p
  PROVE  /\ IsVacant(p) => ~Occupied(p) /\ ~IsConnected(p) /\ ~IsWaiting(p)
         /\ IsInFlight(p) => ~IsConnected(p) /\ ~IsWaiting(p)
         /\ IsBackingOff(p) => ~IsConnected(p) /\ ~IsWaiting(p)
         /\ IsWaiting(p) => ~IsConnected(p)
BY DEF IsVacant, IsInFlight, IsBackingOff, IsWaiting, IsConnected, Occupied

\* teardown_connection leaves a vacant record.
LEMMA VacantKind ==
  ASSUME NEW b \in BOOLEAN
  PROVE  IsVacant(Vacant(b))
BY DEF IsVacant, Vacant, Fresh

\* A contact put into a vacant record, by the scheduler or by the server socket.
Scheduled(p, c) == [p EXCEPT !.contact = c, !.source = "tracker", !.state = "TRANSPORT"]

Accepted(p, c) == Armed([p EXCEPT !.contact = c, !.source = "tcp_server",
                                  !.state = "HANDSHAKE", !.sock = TRUE], "READ")

LEMMA TakenKind ==
  ASSUME NEW p \in PeerConnection, IsVacant(p), NEW c \in Contact
  PROVE  /\ Scheduled(p, c) \in PeerConnection /\ Scheduled(p, c).contact = c
         /\ \A q \in {Connecting(Scheduled(p, c)), ConnectedAtOnce(Scheduled(p, c))} :
              IsInFlight(q) /\ q.contact = c /\ q.source = "tracker"
         /\ LET a == Accepted(p, c) IN
              /\ IsInFlight(a) /\ a.contact = c
              /\ a.source = "tcp_server" /\ a.state = "HANDSHAKE"
BY DEF IsVacant, IsInFlight, Connecting, ConnectedAtOnce, Armed, PeerConnection,
       Scheduled, Accepted

\* A retry that connects.
LEMMA RetriedKind ==
  ASSUME NEW p \in PeerConnection, IsWaiting(p)
  PROVE  /\ IsInFlight(Connecting(p)) /\ Connecting(p).contact = p.contact
         /\ IsInFlight(ConnectedAtOnce(p)) /\ ConnectedAtOnce(p).contact = p.contact
         /\ Connecting(p).source = "tracker" /\ ConnectedAtOnce(p).source = "tracker"
BY DEF IsWaiting, IsInFlight, Connecting, ConnectedAtOnce, Armed, PeerConnection

\* An attempt that fails and is to be repeated, and its back-off running out.
LEMMA FailedKind ==
  ASSUME NEW p \in PeerConnection, NEW n \in Nat
  PROVE  /\ IsInFlight(p) /\ p.source # "tcp_server" =>
              LET b == BackingOff(Closed([p EXCEPT !.failures = n])) IN
              IsBackingOff(b) /\ b.contact = p.contact /\ b.source = p.source
         /\ IsBackingOff(p) =>
              /\ IsWaiting(RetryDue(p)) /\ RetryDue(p).contact = p.contact
              /\ RetryDue(p).source = p.source
         /\ LET d == Closed([p EXCEPT !.failures = n]) IN
              d.contact = p.contact /\ d.source = p.source
         /\ Closed(p).contact = p.contact /\ Closed(p).source = p.source
BY DEF IsInFlight, IsBackingOff, IsWaiting, BackingOff, Closed, RetryDue, PeerConnection

\* The steps of a handshake stay in flight.
LEMMA HandshakeKind ==
  ASSUME NEW p \in PeerConnection, IsInFlight(p)
  PROVE  /\ p.state = "TRANSPORT" => \A sent \in BOOLEAN :
              /\ IsInFlight(Offered(p, sent)) /\ Offered(p, sent).contact = p.contact
              /\ Offered(p, sent).source = "tracker"
         /\ p.source = "tracker" /\ p.state = "HANDSHAKE" =>
              LET q == [Flushed(p) EXCEPT !.watch = "READ"] IN
              /\ IsInFlight(q) /\ q.contact = p.contact /\ q.source = p.source
         /\ p.source = "tcp_server" /\ p.state = "HANDSHAKE" =>
              LET q == [p EXCEPT !.outgoing = "partial", !.watch = "WRITE"] IN
              /\ IsInFlight(q) /\ q.contact = p.contact /\ q.source = p.source
              /\ q.state = p.state
BY DEF IsInFlight, Offered, Flushed, PeerConnection

\* The end of a handshake.
LEMMA ConnectedKind ==
  ASSUME NEW p \in PeerConnection, IsInFlight(p)
  PROVE  /\ IsConnected(Connected(p)) /\ Connected(p).contact = p.contact
         /\ LET q == Connected(Flushed(p)) IN
              IsConnected(q) /\ q.contact = p.contact /\ Flushed(p).source = p.source
         /\ LET q == Connected([p EXCEPT !.outgoing = "sent"]) IN
              IsConnected(q) /\ q.contact = p.contact
              /\ [p EXCEPT !.outgoing = "sent"].source = p.source
BY DEF IsInFlight, IsConnected, Connected, Flushed, PeerConnection
------------------------------------------------------------------------------
(* What the handlers do to the pool and the register.                      *)

\* A registered contact has an occupied slot, and it is that slot's own.
LEMMA RegisteredSlot ==
  ASSUME RegistryOK, PoolInv, NEW c \in Contact, peers[c] # NoSlot
  PROVE  /\ peers[c] \in Slots /\ peers[c] \notin Free
         /\ conn[peers[c]].contact = c
<1>1. peers[c] \in Slots
  BY DEF RegistryOK
<1>2. conn[peers[c]].contact = c
  BY DEF PoolInv
<1>3. peers[c] \notin Free
  BY <1>1, <1>2, NullAssumption DEF PoolInv, IsVacant
<1>4. QED
  BY <1>1, <1>2, <1>3

\* An occupied slot goes on with the same peer.
LEMMA PoolUpdate ==
  ASSUME RegistryOK, PoolInv, NEW s \in Slots, s \notin Free,
         NEW p, Occupied(p), p.contact = conn[s].contact,
         conn' = [conn EXCEPT ![s] = p], UNCHANGED <<peers, available>>
  PROVE  PoolInv'
<1>1. \A t \in Slots : conn'[t] = IF t = s THEN p ELSE conn[t]
  BY DEF RegistryOK
<1>2. \A t \in Slots : conn'[t].contact = conn[t].contact
  BY <1>1
<1>3. Free' = Free
  BY DEF Free
<1>4. \A t \in Slots : t \in Free' => IsVacant(conn'[t])
  BY <1>1, <1>3 DEF PoolInv
<1>5. \A t \in Slots : t \notin Free' =>
        /\ Occupied(conn'[t])
        /\ conn'[t].contact \in Contact /\ peers'[conn'[t].contact] = t
  BY <1>1, <1>2, <1>3 DEF PoolInv
<1>6. \A c \in Contact : peers'[c] # NoSlot => conn'[peers'[c]].contact = c
  BY <1>2 DEF PoolInv, RegistryOK
<1>7. QED
  BY <1>4, <1>5, <1>6 DEF PoolInv

\* delete_peer_connection gives an occupied slot back and forgets its contact.
LEMMA PoolDelete ==
  ASSUME RegistryOK, PoolInv, NEW s \in Slots, s \notin Free,
         NEW p \in PeerConnection, p.contact = conn[s].contact,
         delete_peer_connection(s, p, peers, available)
  PROVE  PoolInv' /\ Free' = Free \cup {s} /\ IsVacant(conn'[s])
<1> DEFINE k == conn[s].contact
<1>1. k \in Contact /\ peers[k] = s /\ s # NoSlot
  BY NullAssumption DEF PoolInv
<1>2. IsVacant(Vacant(p.sock))
  BY VacantKind DEF PeerConnection
<1>3. /\ \A t \in Slots : conn'[t] = IF t = s THEN Vacant(p.sock) ELSE conn[t]
      /\ \A c \in Contact : peers'[c] = IF c = k THEN NoSlot ELSE peers[c]
      /\ available' = Append(available, s)
  BY <1>1 DEF delete_peer_connection, RegistryOK
<1>4. Free' = Free \cup {s} /\ IsInjective(available')
  BY <1>3, PushedSet DEF Free, RegistryOK, PoolInv
<1> HIDE DEF k
<1>5. \A t \in Slots : t \in Free' => IsVacant(conn'[t])
  BY <1>2, <1>3, <1>4 DEF PoolInv
<1>6. ASSUME NEW t \in Slots, t \notin Free'
      PROVE  /\ Occupied(conn'[t])
             /\ conn'[t].contact \in Contact /\ peers'[conn'[t].contact] = t
  <2>1. t # s /\ t \notin Free /\ conn'[t] = conn[t]
    BY <1>3, <1>4, <1>6
  <2>2. Occupied(conn[t]) /\ conn[t].contact \in Contact /\ peers[conn[t].contact] = t
    BY <2>1 DEF PoolInv
  <2>3. conn[t].contact # k
    BY <1>1, <2>1, <2>2
  <2>4. QED
    BY <1>3, <2>1, <2>2, <2>3
<1>7. ASSUME NEW c \in Contact, peers'[c] # NoSlot PROVE conn'[peers'[c]].contact = c
  <2>1. c # k /\ peers'[c] = peers[c] /\ peers[c] # NoSlot
    BY <1>3, <1>7
  <2>2. peers[c] \in Slots /\ conn[peers[c]].contact = c
    BY <2>1, RegisteredSlot
  <2>3. peers[c] # s
    BY <2>1, <2>2 DEF k
  <2>4. QED
    BY <1>3, <2>1, <2>2, <2>3
<1>8. QED
  BY <1>2, <1>3, <1>4, <1>5, <1>6, <1>7 DEF PoolInv

\* acquire: the top of the free stack is given to a contact that has no slot.
LEMMA PoolAcquire ==
  ASSUME RegistryOK, PoolInv, available # << >>, NEW s, s = Last(available),
         NEW c \in Contact, peers[c] = NoSlot,
         NEW p, Occupied(p), p.contact = c,
         conn' = [conn EXCEPT ![s] = p], peers' = [peers EXCEPT ![c] = s],
         available' = Front(available)
  PROVE  PoolInv' /\ Free' = Free \ {s}
<1>1. s \in Slots /\ s # NoSlot
  BY TopOfStack, NullAssumption DEF RegistryOK
<1>2. Free = Free' \cup {s} /\ s \notin Free' /\ IsInjective(available')
  BY PoppedSet DEF Free, RegistryOK, PoolInv
<1>3. /\ \A t \in Slots : conn'[t] = IF t = s THEN p ELSE conn[t]
      /\ \A d \in Contact : peers'[d] = IF d = c THEN s ELSE peers[d]
  BY <1>1 DEF RegistryOK
<1>4. \A t \in Slots : t \in Free' => IsVacant(conn'[t])
  BY <1>2, <1>3 DEF PoolInv
<1>5. ASSUME NEW t \in Slots, t \notin Free'
      PROVE  /\ Occupied(conn'[t])
             /\ conn'[t].contact \in Contact /\ peers'[conn'[t].contact] = t
  <2>1. CASE t = s
    BY <1>3, <2>1
  <2>2. CASE t # s
    <3>1. t \notin Free /\ conn'[t] = conn[t]
      BY <1>2, <1>3, <1>5, <2>2
    <3>2. Occupied(conn[t]) /\ conn[t].contact \in Contact /\ peers[conn[t].contact] = t
      BY <3>1 DEF PoolInv
    <3>3. conn[t].contact # c
      BY <3>2, NullAssumption
    <3>4. QED
      BY <1>3, <3>1, <3>2, <3>3
  <2>3. QED
    BY <2>1, <2>2
<1>6. ASSUME NEW d \in Contact, peers'[d] # NoSlot PROVE conn'[peers'[d]].contact = d
  <2>1. CASE d = c
    BY <1>1, <1>3, <2>1
  <2>2. CASE d # c
    <3>1. peers'[d] = peers[d] /\ peers[d] # NoSlot
      BY <1>3, <1>6, <2>2
    <3>2. peers[d] \in Slots /\ peers[d] \notin Free /\ conn[peers[d]].contact = d
      BY <3>1, RegisteredSlot
    <3>3. peers[d] # s
      BY <1>2, <3>2
    <3>4. QED
      BY <1>3, <3>1, <3>2, <3>3
  <2>3. QED
    BY <2>1, <2>2
<1>7. QED
  BY <1>2, <1>4, <1>5, <1>6 DEF PoolInv

\* An acquired slot whose connect() fails at once is given back: nothing but its
\* generation and its descriptor has changed.
LEMMA PoolTry ==
  ASSUME RegistryOK, PoolInv, available # << >>, NEW s, s = Last(available),
         NEW c \in Contact, peers[c] = NoSlot,
         NEW p \in PeerConnection, p.contact = c,
         delete_peer_connection(s, p, [peers EXCEPT ![c] = s], Front(available))
  PROVE  PoolInv' /\ UNCHANGED <<peers, available>> /\ IsVacant(conn'[s])
<1>1. s \in Slots /\ s \in Free
  BY TopOfStack, PoppedSet DEF RegistryOK, Free
<1>2. peers' = peers
  BY DEF delete_peer_connection, RegistryOK
<1>3. available' = available
  BY TopOfStack DEF delete_peer_connection, RegistryOK
<1>4. IsVacant(Vacant(p.sock))
  BY VacantKind DEF PeerConnection
<1>5. \A t \in Slots : conn'[t] = IF t = s THEN Vacant(p.sock) ELSE conn[t]
  BY DEF delete_peer_connection, RegistryOK
<1>6. \A d \in Contact : peers[d] # NoSlot => peers[d] \in Slots /\ peers[d] \notin Free
  BY RegisteredSlot
<1>7. Free' = Free
  BY <1>3 DEF Free
<1>8. \A t \in Slots : t \in Free' => IsVacant(conn'[t])
  BY <1>4, <1>5, <1>7 DEF PoolInv
<1>9. \A t \in Slots : t \notin Free' =>
        /\ Occupied(conn'[t])
        /\ conn'[t].contact \in Contact /\ peers'[conn'[t].contact] = t
  BY <1>1, <1>2, <1>5, <1>7 DEF PoolInv
<1>10. \A d \in Contact : peers'[d] # NoSlot => conn'[peers'[d]].contact = d
  BY <1>1, <1>2, <1>5, <1>6 DEF PoolInv
<1>11. QED
  BY <1>1, <1>2, <1>3, <1>4, <1>5, <1>8, <1>9, <1>10 DEF PoolInv

\* A contact that connects again: its old slot is vacated, a free one takes over.
LEMMA PoolReplace ==
  ASSUME RegistryOK, PoolInv, available # << >>, NEW s, s = Last(available),
         NEW c \in Contact, peers[c] # NoSlot, NEW o, o = peers[c],
         NEW p, Occupied(p), p.contact = c, NEW v, IsVacant(v),
         conn' = [conn EXCEPT ![s] = p, ![o] = v], peers' = [peers EXCEPT ![c] = s],
         available' = Append(Front(available), o)
  PROVE  /\ PoolInv' /\ s \in Slots /\ o \in Slots /\ s # o /\ s \in Free /\ o \notin Free
         /\ \A t \in Slots : conn'[t] = IF t = o THEN v ELSE IF t = s THEN p ELSE conn[t]
<1>1. s \in Slots /\ s # NoSlot /\ Front(available) \in Seq(Slots)
  BY TopOfStack, NullAssumption DEF RegistryOK
<1>2. o \in Slots /\ o \notin Free /\ conn[o].contact = c
  BY RegisteredSlot
<1> DEFINE rest == ToSet(Front(available))
<1>3. Free = rest \cup {s} /\ s \notin rest /\ IsInjective(Front(available))
  BY PoppedSet DEF Free, RegistryOK, PoolInv
<1>4. Free' = rest \cup {o} /\ IsInjective(available')
  BY <1>1, <1>2, <1>3, PushedSet DEF Free
<1> HIDE DEF rest
<1>5. s # o
  BY <1>2, <1>3
<1>6. /\ \A t \in Slots : conn'[t] = IF t = o THEN v ELSE IF t = s THEN p ELSE conn[t]
      /\ \A d \in Contact : peers'[d] = IF d = c THEN s ELSE peers[d]
  BY <1>1, <1>2, <1>5 DEF RegistryOK
<1>7. ASSUME NEW t \in Slots, t \in Free' PROVE IsVacant(conn'[t])
  <2>1. CASE t = o
    BY <1>6, <2>1
  <2>2. CASE t # o
    <3>1. t \in Free /\ t # s
      BY <1>3, <1>4, <1>7, <2>2
    <3>2. conn'[t] = conn[t] /\ IsVacant(conn[t])
      BY <1>6, <2>2, <3>1 DEF PoolInv
    <3>3. QED
      BY <3>2, Zenon
  <2>3. QED
    BY <2>1, <2>2
<1>8. ASSUME NEW t \in Slots, t \notin Free'
      PROVE  /\ Occupied(conn'[t])
             /\ conn'[t].contact \in Contact /\ peers'[conn'[t].contact] = t
  <2>1. CASE t = s
    BY <1>5, <1>6, <2>1
  <2>2. CASE t # s
    <3>1. t # o /\ t \notin Free /\ conn'[t] = conn[t]
      BY <1>3, <1>4, <1>6, <1>8, <2>2
    <3>2. Occupied(conn[t]) /\ conn[t].contact \in Contact /\ peers[conn[t].contact] = t
      BY <3>1 DEF PoolInv
    <3>3. conn[t].contact # c
      BY <3>1, <3>2
    <3>4. QED
      BY <1>6, <3>1, <3>2, <3>3
  <2>3. QED
    BY <2>1, <2>2
<1>9. ASSUME NEW d \in Contact, peers'[d] # NoSlot PROVE conn'[peers'[d]].contact = d
  <2>1. CASE d = c
    <3>1. peers'[d] = s /\ conn'[s] = p
      BY <1>1, <1>5, <1>6, <2>1
    <3>2. QED
      BY <2>1, <3>1, Zenon
  <2>2. CASE d # c
    <3>1. peers'[d] = peers[d] /\ peers[d] # NoSlot
      BY <1>6, <1>9, <2>2
    <3>2. peers[d] \in Slots /\ peers[d] \notin Free /\ conn[peers[d]].contact = d
      BY <3>1, RegisteredSlot
    <3>3. peers[d] # s /\ peers[d] # o
      BY <1>2, <1>3, <2>2, <3>2
    <3>4. QED
      BY <1>6, <3>1, <3>2, <3>3
  <2>3. QED
    BY <2>1, <2>2
<1>10. QED
  BY <1>1, <1>2, <1>3, <1>4, <1>5, <1>6, <1>7, <1>8, <1>9 DEF PoolInv
------------------------------------------------------------------------------
(* What the handlers do to the handles.                                    *)

\* Every handle under way names a slot and a generation.
LEMMA HandlesTyped ==
  ASSUME TypeOK
  PROVE  /\ Transfer \subseteq Handle /\ Queued \subseteq Handle
         /\ \A h \in Handle : h[1] \in Slots /\ h[2] \in Nat /\ h = <<h[1], h[2]>>
         /\ \A s \in Slots : generation[s] \in Nat
         /\ \A s \in Slots : HandleOf(s)[1] = s /\ HandleOf(s)[2] = generation[s]
<1>1. ToSet(connects) \subseteq Handle /\ ToSet(disconnects) \subseteq Handle
      /\ Queued \subseteq Handle
  BY SetOfSeq DEF TypeOK, UpdatesOK, Queued
<1>2. QED
  BY <1>1 DEF TypeOK, UpdatesOK, RegistryOK, Transfer, Handle, HandleOf

\* The queues and the generations stay, no slot becomes or stops being connected or due.
LEMMA HandlesKept ==
  ASSUME HandleInv, UNCHANGED <<generation, Transfer, Queued>>,
         \A t \in Slots : /\ IsConnected(conn'[t]) <=> IsConnected(conn[t])
                          /\ IsWaiting(conn'[t]) <=> IsWaiting(conn[t])
  PROVE  HandleInv'
BY DEF HandleInv, HandleOf

\* release(): the handles of slot s become stale, and its record is neither connected
\* nor due; one of them may have been taken off its queue in the same step.
LEMMA HandlesReleased ==
  ASSUME TypeOK, HandleInv, NEW s \in Slots, generation' = Released(s),
         Transfer' \subseteq Transfer, Queued' \subseteq Queued,
         \A t \in Slots \ {s} :
           /\ HandleOf(t) \in Transfer' <=> HandleOf(t) \in Transfer
           /\ HandleOf(t) \in Queued' <=> HandleOf(t) \in Queued
           /\ IsConnected(conn'[t]) <=> IsConnected(conn[t])
           /\ IsWaiting(conn'[t]) <=> IsWaiting(conn[t]),
         ~IsConnected(conn'[s]), ~IsWaiting(conn'[s])
  PROVE  HandleInv'
<1>1. \A t \in Slots : generation'[t] = IF t = s THEN generation[t] + 1 ELSE generation[t]
  BY DEF Released, TypeOK, RegistryOK
<1>2. ASSUME NEW h \in Handle, h[2] <= generation[h[1]]
      PROVE  h[2] <= generation'[h[1]] /\ h # <<s, generation'[s]>>
  <2>1. h[1] \in Slots /\ h[2] \in Nat /\ generation[h[1]] \in Nat
    BY HandlesTyped
  <2>2. h[2] <= generation'[h[1]]
    BY <1>1, <1>2, <2>1
  <2>3. h # <<s, generation'[s]>>
    BY <1>1, <1>2, <2>1
  <2>4. QED
    BY <2>2, <2>3
<1>3. /\ \A h \in Transfer' : h[2] <= generation'[h[1]] /\ h # <<s, generation'[s]>>
      /\ \A h \in Queued' : h[2] <= generation'[h[1]] /\ h # <<s, generation'[s]>>
  BY <1>2, HandlesTyped DEF HandleInv
<1>4. ASSUME NEW t \in Slots
      PROVE  /\ HandleOf(t)' \in Transfer' <=> IsConnected(conn'[t])
             /\ HandleOf(t)' \in Queued' <=> IsWaiting(conn'[t])
  <2>1. CASE t = s
    BY <1>3, <2>1 DEF HandleOf
  <2>2. CASE t # s
    <3>1. HandleOf(t)' = HandleOf(t)
      BY <1>1, <2>2 DEF HandleOf
    <3>2. QED
      BY <2>2, <3>1 DEF HandleInv
  <2>3. QED
    BY <2>1, <2>2
<1>5. QED
  BY <1>3, <1>4 DEF HandleInv

\* A peer becomes connected and its handle is sent.
LEMMA HandlesSent ==
  ASSUME TypeOK, HandleInv, NEW s \in Slots, NEW p, IsConnected(p), ~IsWaiting(conn[s]),
         conn' = [conn EXCEPT ![s] = p], UNCHANGED <<generation, Queued>>,
         Transfer' = Transfer \cup {HandleOf(s)}
  PROVE  HandleInv'
<1>1. \A t \in Slots : conn'[t] = IF t = s THEN p ELSE conn[t]
  BY DEF TypeOK, RegistryOK
<1>2. ~IsWaiting(p)
  BY KindsApart
<1>3. \A t \in Slots : HandleOf(t)' = HandleOf(t) /\ (HandleOf(t) = HandleOf(s) <=> t = s)
  BY HandlesTyped DEF HandleOf
<1>4. \A h \in Transfer' : h[2] <= generation'[h[1]]
  BY HandlesTyped DEF HandleInv
<1>5. ASSUME NEW t \in Slots
      PROVE  /\ HandleOf(t)' \in Transfer' <=> IsConnected(conn'[t])
             /\ HandleOf(t)' \in Queued' <=> IsWaiting(conn'[t])
  <2>1. CASE t = s
    BY <1>1, <1>2, <1>3, <2>1 DEF HandleInv
  <2>2. CASE t # s
    BY <1>1, <1>3, <2>2 DEF HandleInv
  <2>3. QED
    BY <2>1, <2>2
<1>6. QED
  BY <1>4, <1>5 DEF HandleInv

\* A back-off ends and the peer's handle is queued.
LEMMA HandlesDue ==
  ASSUME TypeOK, HandleInv, NEW s \in Slots, NEW p, IsWaiting(p), ~IsConnected(conn[s]),
         conn' = [conn EXCEPT ![s] = p], UNCHANGED <<generation, Transfer>>,
         Queued' = Queued \cup {HandleOf(s)}
  PROVE  HandleInv'
<1>1. \A t \in Slots : conn'[t] = IF t = s THEN p ELSE conn[t]
  BY DEF TypeOK, RegistryOK
<1>2. ~IsConnected(p)
  BY KindsApart
<1>3. \A t \in Slots : HandleOf(t)' = HandleOf(t) /\ (HandleOf(t) = HandleOf(s) <=> t = s)
  BY HandlesTyped DEF HandleOf
<1>4. \A h \in Queued' : h[2] <= generation'[h[1]]
  BY HandlesTyped DEF HandleInv
<1>5. ASSUME NEW t \in Slots
      PROVE  /\ HandleOf(t)' \in Transfer' <=> IsConnected(conn'[t])
             /\ HandleOf(t)' \in Queued' <=> IsWaiting(conn'[t])
  <2>1. CASE t = s
    BY <1>1, <1>2, <1>3, <2>1 DEF HandleInv
  <2>2. CASE t # s
    BY <1>1, <1>3, <2>2 DEF HandleInv
  <2>3. QED
    BY <2>1, <2>2
<1>6. QED
  BY <1>4, <1>5 DEF HandleInv

\* A retry takes the peer's handle off the queue.
LEMMA HandlesRetried ==
  ASSUME TypeOK, HandleInv, NEW s \in Slots, IsWaiting(conn[s]),
         NEW p, ~IsWaiting(p), ~IsConnected(p),
         conn' = [conn EXCEPT ![s] = p], UNCHANGED <<generation, Transfer>>,
         Queued' = Queued \ {HandleOf(s)}
  PROVE  HandleInv'
<1>1. \A t \in Slots : conn'[t] = IF t = s THEN p ELSE conn[t]
  BY DEF TypeOK, RegistryOK
<1>2. ~IsConnected(conn[s])
  BY KindsApart
<1>3. \A t \in Slots : HandleOf(t)' = HandleOf(t) /\ (HandleOf(t) = HandleOf(s) <=> t = s)
  BY HandlesTyped DEF HandleOf
<1>4. \A h \in Queued' : h[2] <= generation'[h[1]]
  BY DEF HandleInv
<1>5. ASSUME NEW t \in Slots
      PROVE  /\ HandleOf(t)' \in Transfer' <=> IsConnected(conn'[t])
             /\ HandleOf(t)' \in Queued' <=> IsWaiting(conn'[t])
  <2>1. CASE t = s
    BY <1>1, <1>2, <1>3, <2>1 DEF HandleInv
  <2>2. CASE t # s
    BY <1>1, <1>3, <2>2 DEF HandleInv
  <2>3. QED
    BY <2>1, <2>2
<1>6. QED
  BY <1>4, <1>5 DEF HandleInv

\* A stale handle is dropped from a queue.
LEMMA HandlesDropped ==
  ASSUME TypeOK, HandleInv, NEW h \in Handle, generation[h[1]] # h[2],
         UNCHANGED <<conn, generation>>,
         Transfer' \in {Transfer, Transfer \ {h}}, Queued' \in {Queued, Queued \ {h}}
  PROVE  HandleInv'
<1>1. \A t \in Slots : HandleOf(t)' = HandleOf(t) /\ HandleOf(t) # h
  BY HandlesTyped DEF HandleOf
<1>2. Transfer' \subseteq Transfer /\ Queued' \subseteq Queued
  OBVIOUS
<1>3. \A t \in Slots : /\ HandleOf(t) \in Transfer' <=> HandleOf(t) \in Transfer
                       /\ HandleOf(t) \in Queued' <=> HandleOf(t) \in Queued
  BY <1>1
<1>4. QED
  BY <1>1, <1>2, <1>3 DEF HandleInv
------------------------------------------------------------------------------
(* The steps.                                                              *)

\* Armed watchers tell which kind of record a slot holds.
LEMMA WatchedKind ==
  ASSUME TypeOK, PoolInv, NEW s \in Slots
  PROVE  /\ conn[s].watch # "none" => IsInFlight(conn[s])
         /\ conn[s].timer => IsInFlight(conn[s]) \/ IsBackingOff(conn[s])
         /\ conn[s].timer /\ conn[s].state = "FAILED" => IsBackingOff(conn[s])
         /\ conn[s].timer /\ conn[s].state # "FAILED" => IsInFlight(conn[s])
         /\ Occupied(conn[s]) => s \notin Free
<1>1. IsVacant(conn[s]) \/ Occupied(conn[s])
  BY DEF PoolInv
<1>2. Occupied(conn[s]) => s \notin Free
  BY KindsApart DEF PoolInv
<1>3. QED
  BY <1>1, <1>2 DEF IsVacant, IsInFlight, IsBackingOff, IsWaiting, IsConnected, Occupied

\* delete_peer_connection on an occupied slot.  Its own handle may leave a queue in the
\* same step.
LEMMA DeleteKeeps ==
  ASSUME TypeOK, PoolInv, HandleInv, NEW s \in Slots, s \notin Free,
         NEW p \in PeerConnection, p.contact = conn[s].contact,
         delete_peer_connection(s, p, peers, available),
         Transfer' \subseteq Transfer, Queued' \subseteq Queued,
         Transfer \ Transfer' \subseteq {HandleOf(s)},
         Queued \ Queued' \subseteq {HandleOf(s)}
  PROVE  PoolInv' /\ HandleInv'
<1>1. PoolInv' /\ IsVacant(conn'[s])
  BY PoolDelete DEF TypeOK
<1>2. ~IsConnected(conn'[s]) /\ ~IsWaiting(conn'[s])
  BY <1>1, KindsApart
<1>3. generation' = Released(s)
  BY DEF delete_peer_connection
<1>4. \A t \in Slots \ {s} :
        /\ HandleOf(t) \in Transfer' <=> HandleOf(t) \in Transfer
        /\ HandleOf(t) \in Queued' <=> HandleOf(t) \in Queued
  <2>1. \A t \in Slots \ {s} : HandleOf(t) # HandleOf(s)
    BY HandlesTyped
  <2>2. QED
    BY <2>1
<1>5. \A t \in Slots \ {s} : conn'[t] = conn[t]
  BY DEF delete_peer_connection, TypeOK, RegistryOK
<1>6. HandleInv'
  BY <1>2, <1>3, <1>4, <1>5, HandlesReleased
<1>7. QED
  BY <1>1, <1>6

\* An attempt in flight is given up, for a while or for good.
LEMMA GiveUpKeeps ==
  ASSUME TypeOK, PoolInv, HandleInv, NEW s \in Slots, IsInFlight(conn[s]),
         handle_peer_failure(s) \/ hard_delete_peer_connection(s),
         UNCHANGED <<Transfer, Queued>>
  PROVE  PoolInv' /\ HandleInv'
<1> DEFINE n == conn[s].failures + 1
           p == Closed([conn[s] EXCEPT !.failures = n])
           b == BackingOff(p)
           d == Closed(conn[s])
<1>1. conn[s] \in PeerConnection /\ n \in Nat /\ s \notin Free
  BY WatchedKind DEF TypeOK, RegistryOK, PeerConnection, Occupied
<1>2. p \in PeerConnection /\ p.contact = conn[s].contact
  BY <1>1, PeerTyped, FailedKind
<1>3. d \in PeerConnection /\ d.contact = conn[s].contact
  BY <1>1, PeerTyped, FailedKind
<1>4. conn[s].source # "tcp_server" => IsBackingOff(b) /\ b.contact = conn[s].contact
  BY <1>1, FailedKind
<1>5. \/ delete_peer_connection(s, p, peers, available)
      \/ delete_peer_connection(s, d, peers, available)
      \/ /\ conn[s].source # "tcp_server"
         /\ conn' = [conn EXCEPT ![s] = b]
         /\ UNCHANGED <<peers, available, generation>>
  BY Zenon DEF handle_peer_failure, hard_delete_peer_connection
<1> HIDE DEF n, p, b, d
<1>6. CASE delete_peer_connection(s, p, peers, available)
  BY <1>1, <1>2, <1>6, DeleteKeeps
<1>7. CASE delete_peer_connection(s, d, peers, available)
  BY <1>1, <1>3, <1>7, DeleteKeeps
<1>8. CASE /\ conn[s].source # "tcp_server"
           /\ conn' = [conn EXCEPT ![s] = b]
           /\ UNCHANGED <<peers, available, generation>>
  <2>1. Occupied(b) /\ b.contact = conn[s].contact
    BY <1>4, <1>8 DEF Occupied
  <2>2. PoolInv'
    BY <1>1, <1>8, <2>1, PoolUpdate DEF TypeOK
  <2>3. ~IsConnected(b) /\ ~IsWaiting(b) /\ ~IsConnected(conn[s]) /\ ~IsWaiting(conn[s])
    BY <1>4, <1>8, KindsApart
  <2>4. \A t \in Slots : conn'[t] = IF t = s THEN b ELSE conn[t]
    BY <1>8 DEF TypeOK, RegistryOK
  <2>5. \A t \in Slots : /\ IsConnected(conn'[t]) <=> IsConnected(conn[t])
                         /\ IsWaiting(conn'[t]) <=> IsWaiting(conn[t])
    BY <2>3, <2>4
  <2>6. HandleInv'
    BY <1>8, <2>5, HandlesKept
  <2>7. QED
    BY <2>2, <2>6
<1>9. QED
  BY <1>5, <1>6, <1>7, <1>8

\* A record in flight stays in flight with the same contact.
LEMMA FlightKeeps ==
  ASSUME TypeOK, PoolInv, HandleInv, NEW s \in Slots, IsInFlight(conn[s]),
         NEW p, IsInFlight(p), p.contact = conn[s].contact,
         conn' = [conn EXCEPT ![s] = p],
         UNCHANGED <<peers, available, generation, Transfer, Queued>>
  PROVE  PoolInv' /\ HandleInv'
<1>1. s \notin Free /\ Occupied(p)
  BY WatchedKind DEF Occupied
<1>2. PoolInv'
  BY <1>1, PoolUpdate DEF TypeOK
<1>3. ~IsConnected(p) /\ ~IsWaiting(p) /\ ~IsConnected(conn[s]) /\ ~IsWaiting(conn[s])
  BY KindsApart
<1>4. \A t \in Slots : conn'[t] = IF t = s THEN p ELSE conn[t]
  BY DEF TypeOK, RegistryOK
<1>5. \A t \in Slots : /\ IsConnected(conn'[t]) <=> IsConnected(conn[t])
                       /\ IsWaiting(conn'[t]) <=> IsWaiting(conn[t])
  BY <1>3, <1>4
<1>6. HandleInv'
  BY <1>5, HandlesKept
<1>7. QED
  BY <1>2, <1>6

\* The queues of handles stay as they are.
LEMMA QueuesKept ==
  ASSUME UNCHANGED <<connects, sessions, disconnects, retry_queue>>
  PROVE  UNCHANGED <<Transfer, Queued>> /\ (DistinctInv => DistinctInv')
BY DEF Transfer, Queued, DistinctInv

\* A free slot is acquired for a contact that has none.
LEMMA AcquireKeeps ==
  ASSUME TypeOK, PoolInv, HandleInv, available # << >>, NEW s, s = Last(available),
         NEW c \in Contact, peers[c] = NoSlot, NEW p, IsInFlight(p), p.contact = c,
         conn' = [conn EXCEPT ![s] = p], peers' = [peers EXCEPT ![c] = s],
         available' = Front(available), UNCHANGED <<generation, Transfer, Queued>>
  PROVE  PoolInv' /\ HandleInv'
<1>1. s \in Slots /\ s \in Free
  BY TopOfStack, PoppedSet DEF TypeOK, RegistryOK, Free
<1>2. PoolInv'
  BY PoolAcquire DEF TypeOK, Occupied
<1>3. ~IsConnected(p) /\ ~IsWaiting(p) /\ ~IsConnected(conn[s]) /\ ~IsWaiting(conn[s])
  BY <1>1, KindsApart DEF PoolInv
<1>4. \A t \in Slots : conn'[t] = IF t = s THEN p ELSE conn[t]
  BY DEF TypeOK, RegistryOK
<1>5. \A t \in Slots : /\ IsConnected(conn'[t]) <=> IsConnected(conn[t])
                       /\ IsWaiting(conn'[t]) <=> IsWaiting(conn[t])
  BY <1>3, <1>4
<1>6. HandleInv'
  BY <1>5, HandlesKept
<1>7. QED
  BY <1>2, <1>6

\* The end of a handler never enters discovered_peer_scheduler.
LEMMA HandlerLoop ==
  ASSUME NEW found, HandlerReturns(found)
  PROVE  LoopInv'
BY DEF HandlerReturns, LoopInv

\* A callback that starts from the idle loop and ends there.
LEMMA IdleLoop ==
  ASSUME Idle, UNCHANGED loop
  PROVE  LoopInv'
BY DEF Idle, LoopInv

\* Initially every slot is free.
LEMMA InitSlots == Init => SlotsInv
<1> SUFFICES ASSUME Init PROVE SlotsInv
  OBVIOUS
<1>1. available \in [1 .. PoolSize -> Slots] /\ Free = Slots /\ IsInjective(available)
  BY DEF Init, Slots, Free, ToSet, IsInjective
<1>2. IsVacant(Fresh)
  BY DEF IsVacant, Fresh
<1>3. ~IsConnected(Fresh) /\ ~IsWaiting(Fresh)
  BY <1>2, KindsApart
<1>4. \A s \in Slots : conn[s] = Fresh
  BY DEF Init
<1>5. PoolInv
  <2>1. \A c \in Contact : peers[c] = NoSlot
    BY DEF Init
  <2>2. QED
    BY <1>1, <1>2, <1>4, <2>1 DEF PoolInv
<1>6. Transfer = {} /\ Queued = {}
  BY DEF Init, Transfer, Queued, ToSet
<1>7. HandleInv
  BY <1>3, <1>4, <1>6 DEF HandleInv
<1>8. DistinctInv
  BY DEF Init, DistinctInv, IsInjective, ToSet
<1>9. LoopInv
  BY DEF Init, LoopInv
<1>10. QED
  BY <1>5, <1>7, <1>8, <1>9 DEF SlotsInv

\* A step that leaves the registry, the handles and the loop alone.
LEMMA SlotsKept ==
  ASSUME SlotsInv, UNCHANGED <<conn, peers, available, generation, connects, sessions,
                               disconnects, retry_queue>>, LoopInv'
  PROVE  SlotsInv'
<1>1. PoolInv'
  BY DEF SlotsInv, PoolInv, Free
<1>2. HandleInv' /\ DistinctInv'
  BY QueuesKept, HandlesKept DEF SlotsInv
<1>3. QED
  BY <1>1, <1>2 DEF SlotsInv

\* The tracker thread, drain_discovered, notify_disconnected and the scheduler's head.
LEMMA QuietSlots ==
  ASSUME PoolIndInv,
         \/ \E c \in TrackerContacts : TrackerReports(c)
         \/ TrackerNotifies \/ DrainBegin \/ DrainPop \/ DrainEnd
         \/ notify_disconnected \/ SchedulerBegin \/ round_robin_establisher_scheduler
  PROVE  SlotsInv'
<1>1. UNCHANGED <<conn, peers, available, generation, connects, sessions, disconnects,
                  retry_queue>>
  BY DEF TrackerReports, TrackerNotifies, DrainBegin, DrainPop, DrainEnd,
         notify_disconnected, SchedulerBegin, round_robin_establisher_scheduler,
         registry, updates
<1>2. LoopInv'
  <2>1. CASE round_robin_establisher_scheduler
    <3>1. CASE HandlerReturns(FALSE)
      BY <3>1, HandlerLoop
    <3>2. CASE loop' = "idle"
      BY <3>2 DEF LoopInv
    <3>3. CASE loop' = current /\ ~(current = "discovered" /\ available = << >>)
      BY <1>1, <3>3 DEF LoopInv
    <3>4. QED
      BY <2>1, <3>1, <3>2, <3>3 DEF round_robin_establisher_scheduler
  <2>2. CASE \/ \E c \in TrackerContacts : TrackerReports(c)
             \/ TrackerNotifies \/ DrainBegin \/ DrainPop \/ DrainEnd
             \/ notify_disconnected \/ SchedulerBegin
    <3>1. loop' \in {loop, "drain", "idle", "round_robin"}
      BY <2>2 DEF TrackerReports, TrackerNotifies, DrainBegin, DrainPop, DrainEnd,
                  notify_disconnected, SchedulerBegin, scheduler
    <3>2. QED
      BY <1>1, <3>1 DEF LoopInv, PoolIndInv, SlotsInv
  <2>3. QED
    BY <2>1, <2>2
<1>3. QED
  BY <1>1, <1>2, SlotsKept DEF PoolIndInv

\* A handle moves from connects to sessions.
LEMMA TakesSlots ==
  ASSUME PoolIndInv, TransferTakes PROVE SlotsInv'
<1> DEFINE h == Head(connects)
           rest == ToSet(Tail(connects))
<1>1. UNCHANGED <<conn, peers, available, generation, disconnects, retry_queue, loop>>
  BY DEF TransferTakes, registry, scheduler
<1>2. ToSet(connects) = rest \cup {h} /\ h \notin rest /\ IsInjective(Tail(connects))
  BY TakenSet DEF TransferTakes, PoolIndInv, SlotsInv, DistinctInv, IndInv, TypeOK, UpdatesOK
<1>3. connects' = Tail(connects) /\ sessions' = sessions \cup {h} /\ ToSet(connects') = rest
  BY DEF TransferTakes
<1> HIDE DEF h, rest
<1>4. UNCHANGED <<Transfer, Queued>>
  BY <1>1, <1>2, <1>3 DEF Transfer, Queued
<1>5. DistinctInv'
  BY <1>1, <1>2, <1>3 DEF DistinctInv, PoolIndInv, SlotsInv
<1>6. HandleInv'
  BY <1>1, <1>4, HandlesKept DEF PoolIndInv, SlotsInv
<1>7. PoolInv' /\ LoopInv'
  BY <1>1 DEF PoolIndInv, SlotsInv, PoolInv, Free, LoopInv
<1>8. QED
  BY <1>5, <1>6, <1>7 DEF SlotsInv

\* The credit leaves room in both queues of updates.
LEMMA RoomForUpdates ==
  ASSUME IndInv
  PROVE  /\ ~has_met_connection_quota => Len(connects) < UpdatesSize
         /\ sessions # {} => Len(disconnects) < UpdatesSize
<1>1. /\ IsFiniteSet(sessions) /\ Cardinality(sessions) \in Nat
      /\ Len(connects) \in Nat /\ Len(disconnects) \in Nat /\ statistics.connected \in Nat
      /\ UpdatesSize \in Nat /\ Quota \in Nat /\ Quota <= UpdatesSize
  BY FS_CardinalityType, SizeMaxAssumption, UpdatesAssumption, SizesAssumption
     DEF IndInv, ConnectionCredit, TypeOK, UpdatesOK, Statistics, Counter
<1>2. sessions # {} => Cardinality(sessions) # 0
  BY <1>1, FS_EmptySet
<1>3. QED
  BY <1>1, <1>2 DEF has_met_connection_quota, IndInv, ConnectionCredit

\* A handle moves from sessions to disconnects.
LEMMA DisconnectsSlots ==
  ASSUME PoolIndInv, NEW h \in sessions, TransferDisconnects(h) PROVE SlotsInv'
<1>1. UNCHANGED <<conn, peers, available, generation, connects, retry_queue, loop>>
  BY DEF TransferDisconnects, registry, scheduler
<1>2. disconnects' = Append(disconnects, h) /\ sessions' = sessions \ {h}
  BY RoomForUpdates DEF TransferDisconnects, Pushed, PoolIndInv
<1>3. /\ ToSet(disconnects') = ToSet(disconnects) \cup {h}
      /\ IsInjective(disconnects')
  BY <1>2, PushedSet DEF PoolIndInv, SlotsInv, DistinctInv, IndInv, TypeOK, UpdatesOK
<1>4. UNCHANGED <<Transfer, Queued>>
  BY <1>1, <1>2, <1>3 DEF Transfer, Queued
<1>5. DistinctInv'
  BY <1>1, <1>2, <1>3 DEF DistinctInv, PoolIndInv, SlotsInv
<1>6. HandleInv'
  BY <1>1, <1>4, HandlesKept DEF PoolIndInv, SlotsInv
<1>7. PoolInv' /\ LoopInv'
  BY <1>1 DEF PoolIndInv, SlotsInv, PoolInv, Free, LoopInv
<1>8. QED
  BY <1>5, <1>6, <1>7 DEF SlotsInv

\* The two ways initiate_connect ends.
LEMMA InitiateCases ==
  ASSUME NEW s, NEW p, NEW st, NEW reg, NEW free, initiate_connect(s, p, st, reg, free)
  PROVE  \/ /\ ~p.sock
            /\ \E q \in {Connecting(p), ConnectedAtOnce(p)} : conn' = [conn EXCEPT ![s] = q]
            /\ peers' = reg /\ available' = free /\ UNCHANGED generation
            /\ statistics' = [st EXCEPT !.inbound = Inc(@)]
            /\ HandlerReturns(TRUE)
         \/ /\ delete_peer_connection(s, p, reg, free)
            /\ statistics' = st
            /\ UNCHANGED scheduler
<1>1. PICK r \in ConnectResults(p) :
        \/ /\ r.ok
           /\ conn' = [conn EXCEPT ![s] = r.peer]
           /\ peers' = reg /\ available' = free
           /\ statistics' = [st EXCEPT !.inbound = Inc(@)]
           /\ HandlerReturns(TRUE)
           /\ UNCHANGED <<generation, aborted>>
        \/ /\ ~r.ok
           /\ delete_peer_connection(s, r.peer, reg, free)
           /\ statistics' = st
           /\ UNCHANGED scheduler
  BY Zenon DEF initiate_connect
<1>2. \/ r.ok = FALSE /\ r.peer = p
      \/ ~p.sock /\ r.ok = TRUE /\ r.peer \in {Connecting(p), ConnectedAtOnce(p)}
  BY DEF ConnectResults
<1>3. CASE r.ok = FALSE /\ r.peer = p
  BY <1>1, <1>3, Zenon
<1>4. CASE ~p.sock /\ r.ok = TRUE /\ r.peer \in {Connecting(p), ConnectedAtOnce(p)}
  <2>1. /\ conn' = [conn EXCEPT ![s] = r.peer]
        /\ peers' = reg /\ available' = free
        /\ statistics' = [st EXCEPT !.inbound = Inc(@)]
        /\ HandlerReturns(TRUE) /\ generation' = generation
    BY <1>1, <1>4, Zenon
  <2>2. QED
    BY <1>4, <2>1, Zenon
<1>5. QED
  BY <1>2, <1>3, <1>4

\* discovered_peer_scheduler acquires a slot, or gives it back in the same turn.
LEMMA DiscoveredSlots ==
  ASSUME PoolIndInv, discovered_peer_scheduler PROVE SlotsInv'
<1>1. UNCHANGED <<connects, sessions, disconnects, retry_queue>> /\ loop = "discovered"
  BY DEF discovered_peer_scheduler, updates
<1>2. UNCHANGED <<Transfer, Queued>> /\ DistinctInv'
  BY <1>1, QueuesKept DEF PoolIndInv, SlotsInv
<1>3. TypeOK /\ RegistryOK /\ PoolInv /\ HandleInv
  BY DEF PoolIndInv, SlotsInv, IndInv, TypeOK
<1>4. CASE HandlerReturns(FALSE) /\ UNCHANGED registry
  BY <1>1, <1>4, HandlerLoop, SlotsKept DEF PoolIndInv, registry
<1>5. CASE cache # << >> /\ available # << >>
  <2> DEFINE c  == Last(cache)
             s  == Last(available)
             st == [statistics EXCEPT !.cached = Dec(@)]
             p  == [conn[s] EXCEPT !.contact = c, !.source = "tracker", !.state = "TRANSPORT"]
  <2>1. s \in Slots /\ s \in Free /\ c \in Contact
    BY <1>3, <1>5, TopOfStack, PoppedSet DEF TypeOK, RegistryOK, ContactsOK, Free, Contact
  <2>2. /\ p \in PeerConnection /\ p.contact = c
        /\ \A q \in {Connecting(p), ConnectedAtOnce(p)} : IsInFlight(q) /\ q.contact = c
    <3>1. conn[s] \in PeerConnection /\ IsVacant(conn[s])
      BY <1>3, <2>1 DEF RegistryOK, PoolInv
    <3>2. p = Scheduled(conn[s], c)
      BY Zenon DEF Scheduled
    <3> HIDE DEF p, c, s
    <3>3. QED
      BY <2>1, <3>1, <3>2, TakenKind
  <2>3. \/ /\ generation' = Released(s)
           /\ UNCHANGED <<conn, peers, available, scheduler>>
        \/ /\ peers[c] = NoSlot
           /\ initiate_connect(s, p, st, [peers EXCEPT ![c] = s], Front(available))
    BY <1>5, Zenon DEF discovered_peer_scheduler
  <2> HIDE DEF c, st, p
  <2>4. CASE /\ generation' = Released(s)
             /\ UNCHANGED <<conn, peers, available, scheduler>>
    <3>1. ~IsConnected(conn[s]) /\ ~IsWaiting(conn[s])
      BY <1>3, <2>1, KindsApart DEF PoolInv
    <3>2. HandleInv'
      BY <1>2, <1>3, <2>1, <2>4, <3>1, HandlesReleased
    <3>3. PoolInv' /\ LoopInv'
      BY <1>3, <1>5, <2>4 DEF PoolInv, Free, LoopInv
    <3>4. QED
      BY <1>2, <3>2, <3>3 DEF SlotsInv
  <2>5. CASE /\ peers[c] = NoSlot
             /\ initiate_connect(s, p, st, [peers EXCEPT ![c] = s], Front(available))
    <3>1. CASE /\ \E q \in {Connecting(p), ConnectedAtOnce(p)} : conn' = [conn EXCEPT ![s] = q]
               /\ peers' = [peers EXCEPT ![c] = s] /\ available' = Front(available)
               /\ UNCHANGED generation /\ HandlerReturns(TRUE)
      <4>1. PICK q \in {Connecting(p), ConnectedAtOnce(p)} : conn' = [conn EXCEPT ![s] = q]
        BY <3>1
      <4>2. IsInFlight(q) /\ q.contact = c
        BY <2>2, <4>1
      <4>3. PoolInv' /\ HandleInv'
        BY <1>2, <1>3, <1>5, <2>1, <2>5, <3>1, <4>1, <4>2, AcquireKeeps
      <4>4. LoopInv'
        BY <3>1, HandlerLoop
      <4>5. QED
        BY <1>2, <4>3, <4>4 DEF SlotsInv
    <3>2. CASE /\ delete_peer_connection(s, p, [peers EXCEPT ![c] = s], Front(available))
               /\ UNCHANGED scheduler
      <4>1. PoolInv' /\ UNCHANGED <<peers, available>> /\ IsVacant(conn'[s])
        BY <1>3, <1>5, <2>1, <2>2, <2>5, <3>2, PoolTry
      <4>2. ~IsConnected(conn'[s]) /\ ~IsWaiting(conn'[s])
        BY <4>1, KindsApart
      <4>3. generation' = Released(s) /\ \A t \in Slots \ {s} : conn'[t] = conn[t]
        BY <1>3, <3>2 DEF delete_peer_connection, RegistryOK
      <4>4. HandleInv'
        BY <1>2, <1>3, <2>1, <4>2, <4>3, HandlesReleased
      <4>5. LoopInv'
        BY <1>5, <4>1 DEF LoopInv
      <4>6. QED
        BY <1>2, <4>1, <4>4, <4>5 DEF SlotsInv
    <3>3. QED
      BY <2>5, <3>1, <3>2, InitiateCases
  <2>6. QED
    BY <2>3, <2>4, <2>5
<1>6. QED
  BY <1>4, <1>5, Zenon DEF discovered_peer_scheduler

\* disconnected_peer_scheduler drops a stale handle or takes its peer's slot back: the
\* descriptor is still in the record, so connect() never gets as far as a socket.
LEMMA DisconnectedSlots ==
  ASSUME PoolIndInv, disconnected_peer_scheduler PROVE SlotsInv'
<1>1. UNCHANGED <<connects, sessions, retry_queue>> /\ loop = "disconnected"
  BY DEF disconnected_peer_scheduler
<1>2. TypeOK /\ RegistryOK /\ PoolInv /\ HandleInv /\ DistinctInv
  BY DEF PoolIndInv, SlotsInv, IndInv, TypeOK
<1>3. CASE HandlerReturns(FALSE) /\ UNCHANGED <<registry, disconnects>>
  BY <1>1, <1>3, HandlerLoop, SlotsKept DEF PoolIndInv, registry
<1>4. CASE disconnects # << >>
  <2> DEFINE h  == Head(disconnects)
             s  == h[1]
             p  == [conn[s] EXCEPT !.state = "DISCONNECTED"]
             q  == [p EXCEPT !.failures = @ + 1]
             st == [statistics EXCEPT !.connected = Dec(@)]
             rest == ToSet(Tail(disconnects))
  <2>1. /\ h \in Handle /\ ToSet(disconnects) = rest \cup {h}
        /\ h \notin rest /\ IsInjective(Tail(disconnects))
    BY <1>2, <1>4, TakenSet DEF DistinctInv, TypeOK, UpdatesOK
  <2>2. disconnects' = Tail(disconnects) /\ ToSet(disconnects') = rest
    BY <1>4 DEF disconnected_peer_scheduler
  <2>3. \/ generation[s] # h[2] /\ UNCHANGED <<registry, scheduler>>
        \/ /\ generation[s] = h[2]
           /\ \/ delete_peer_connection(s, p, peers, available) /\ UNCHANGED scheduler
              \/ initiate_connect(s, q, st, peers, available)
    BY <1>4, Zenon DEF disconnected_peer_scheduler
  <2>4. s \in Slots /\ conn[s] \in PeerConnection
    BY <1>2, <2>1, HandlesTyped DEF RegistryOK
  <2>5. /\ p \in PeerConnection /\ p.contact = conn[s].contact
        /\ q \in PeerConnection /\ q.contact = conn[s].contact
        /\ q.sock = conn[s].sock
    <3>1. p \in PeerConnection /\ q \in PeerConnection
      BY <2>4, DisconnectedTyped
    <3>2. p.contact = conn[s].contact /\ p.sock = conn[s].sock
      BY <2>4 DEF PeerConnection
    <3> HIDE DEF p
    <3>3. q.contact = p.contact /\ q.sock = p.sock
      BY <3>1 DEF PeerConnection
    <3>4. QED
      BY <3>1, <3>2, <3>3
  <2> HIDE DEF rest, p, q, st
  <2>6. Transfer' = Transfer \ {h} /\ Queued' = Queued
    BY <1>1, <1>2, <2>1, <2>2 DEF Transfer, Queued, DistinctInv
  <2>7. DistinctInv'
    BY <1>1, <1>2, <2>1, <2>2 DEF DistinctInv
  <2>8. CASE generation[s] # h[2] /\ UNCHANGED <<registry, scheduler>>
    <3>1. HandleInv'
      BY <1>2, <2>1, <2>6, <2>8, HandlesDropped DEF registry
    <3>2. PoolInv' /\ LoopInv'
      BY <1>1, <1>2, <2>8 DEF PoolInv, Free, LoopInv, registry, scheduler
    <3>3. QED
      BY <2>7, <3>1, <3>2 DEF SlotsInv
  <2>9. CASE generation[s] = h[2]
    <3>1. h = HandleOf(s) /\ h \in Transfer
      BY <1>2, <2>1, <2>9, HandlesTyped DEF HandleOf, Transfer
    <3>2. IsConnected(conn[s])
      BY <1>2, <2>4, <3>1 DEF HandleInv
    <3>3. s \notin Free
      BY <1>2, <2>4, <3>2, WatchedKind DEF Occupied
    <3>4. q.sock
      BY <2>5, <3>2 DEF IsConnected
    <3>5. UNCHANGED scheduler /\ \E r \in {p, q} : delete_peer_connection(s, r, peers, available)
      <4>1. CASE initiate_connect(s, q, st, peers, available)
        <5>1. \/ ~q.sock
              \/ delete_peer_connection(s, q, peers, available) /\ UNCHANGED scheduler
          BY <4>1, InitiateCases
        <5>2. QED
          BY <3>4, <5>1
      <4>2. QED
        BY <2>3, <2>9, <4>1
    <3>6. PoolInv' /\ HandleInv'
      BY <1>2, <2>4, <2>5, <2>6, <3>1, <3>3, <3>5, DeleteKeeps
    <3>7. LoopInv'
      BY <1>1, <3>5 DEF LoopInv, scheduler
    <3>8. QED
      BY <2>7, <3>6, <3>7 DEF SlotsInv
  <2>10. QED
    BY <2>3, <2>8, <2>9
<1>5. QED
  BY <1>3, <1>4, Zenon DEF disconnected_peer_scheduler

\* failed_peer_scheduler drops a stale handle, or retries the waiting peer it names.
LEMMA FailedSlots ==
  ASSUME PoolIndInv, failed_peer_scheduler PROVE SlotsInv'
<1>1. UNCHANGED <<connects, sessions, disconnects>> /\ loop = "failed"
  BY DEF failed_peer_scheduler, updates
<1>2. TypeOK /\ RegistryOK /\ PoolInv /\ HandleInv /\ DistinctInv
  BY DEF PoolIndInv, SlotsInv, IndInv, TypeOK
<1>3. CASE HandlerReturns(FALSE) /\ UNCHANGED <<registry, retry_queue>>
  BY <1>1, <1>3, HandlerLoop, SlotsKept DEF PoolIndInv, registry
<1>4. CASE retry_queue # << >>
  <2> DEFINE h  == Head(retry_queue)
             s  == h[1]
             st == [statistics EXCEPT !.retry = Dec(@)]
             rest == ToSet(Tail(retry_queue))
  <2>1. /\ h \in Handle /\ ToSet(retry_queue) = rest \cup {h}
        /\ h \notin rest /\ IsInjective(Tail(retry_queue))
    BY <1>2, <1>4, TakenSet DEF DistinctInv, TypeOK, UpdatesOK
  <2>2. retry_queue' = Tail(retry_queue) /\ ToSet(retry_queue') = rest
    BY <1>4 DEF failed_peer_scheduler
  <2>3. \/ generation[s] # h[2] /\ UNCHANGED <<registry, scheduler>>
        \/ generation[s] = h[2] /\ initiate_connect(s, conn[s], st, peers, available)
    BY <1>4, Zenon DEF failed_peer_scheduler
  <2>4. s \in Slots /\ conn[s] \in PeerConnection
    BY <1>2, <2>1, HandlesTyped DEF RegistryOK
  <2> HIDE DEF rest, st
  <2>6. Transfer' = Transfer /\ Queued' = Queued \ {h}
    BY <1>1, <1>2, <2>1, <2>2 DEF Transfer, Queued
  <2>7. DistinctInv'
    BY <1>1, <1>2, <2>1, <2>2 DEF DistinctInv
  <2>8. CASE generation[s] # h[2] /\ UNCHANGED <<registry, scheduler>>
    <3>1. HandleInv'
      BY <1>2, <2>1, <2>6, <2>8, HandlesDropped DEF registry
    <3>2. PoolInv' /\ LoopInv'
      BY <1>1, <1>2, <2>8 DEF PoolInv, Free, LoopInv, registry, scheduler
    <3>3. QED
      BY <2>7, <3>1, <3>2 DEF SlotsInv
  <2>9. CASE generation[s] = h[2] /\ initiate_connect(s, conn[s], st, peers, available)
    <3>1. h = HandleOf(s) /\ h \in Queued
      BY <1>2, <2>1, <2>9, HandlesTyped DEF HandleOf, Queued
    <3>2. IsWaiting(conn[s])
      BY <1>2, <2>4, <3>1 DEF HandleInv
    <3>3. s \notin Free
      BY <1>2, <2>4, <3>2, WatchedKind DEF Occupied
    <3>4. CASE /\ \E q \in {Connecting(conn[s]), ConnectedAtOnce(conn[s])} :
                    conn' = [conn EXCEPT ![s] = q]
               /\ UNCHANGED <<peers, available, generation>> /\ HandlerReturns(TRUE)
      <4>1. PICK q \in {Connecting(conn[s]), ConnectedAtOnce(conn[s])} :
              conn' = [conn EXCEPT ![s] = q]
        BY <3>4
      <4>2. IsInFlight(q) /\ q.contact = conn[s].contact
        BY <2>4, <3>2, RetriedKind
      <4>3. PoolInv'
        BY <1>2, <2>4, <3>3, <3>4, <4>1, <4>2, PoolUpdate DEF Occupied
      <4>4. ~IsWaiting(q) /\ ~IsConnected(q)
        BY <4>2, KindsApart
      <4>5. HandleInv'
        BY <1>2, <2>4, <2>6, <3>1, <3>2, <3>4, <4>1, <4>4, HandlesRetried
      <4>6. LoopInv'
        BY <3>4, HandlerLoop
      <4>7. QED
        BY <2>7, <4>3, <4>5, <4>6 DEF SlotsInv
    <3>5. CASE delete_peer_connection(s, conn[s], peers, available) /\ UNCHANGED scheduler
      <4>1. PoolInv' /\ HandleInv'
        BY <1>2, <2>4, <2>6, <3>1, <3>3, <3>5, DeleteKeeps
      <4>2. LoopInv'
        BY <1>1, <3>5 DEF LoopInv, scheduler
      <4>3. QED
        BY <2>7, <4>1, <4>2 DEF SlotsInv
    <3>6. QED
      BY <2>9, <3>4, <3>5, InitiateCases
  <2>10. QED
    BY <2>3, <2>8, <2>9
<1>5. QED
  BY <1>3, <1>4, Zenon DEF failed_peer_scheduler

\* server_socket_callback: a free slot is acquired, or one slot is traded for another.
LEMMA AcceptSlots ==
  ASSUME PoolIndInv, NEW c \in AcceptContacts, accept_peer_connection(c)
  PROVE  SlotsInv'
<1>1. UNCHANGED <<connects, sessions, disconnects, retry_queue, loop>> /\ Idle
  BY DEF accept_peer_connection, AcceptRefused, AcceptNew, AcceptReplacing, CanAccept,
         updates, scheduler
<1>2. TypeOK /\ RegistryOK /\ PoolInv /\ HandleInv /\ c \in Contact
  BY DEF PoolIndInv, SlotsInv, IndInv, TypeOK, Contact
<1>3. UNCHANGED <<Transfer, Queued>> /\ DistinctInv' /\ LoopInv'
  BY <1>1, QueuesKept, IdleLoop DEF PoolIndInv, SlotsInv
<1>4. CASE AcceptRefused(c)
  BY <1>1, <1>3, <1>4, SlotsKept DEF AcceptRefused, registry, PoolIndInv
<1>5. ASSUME available # << >>
      PROVE  /\ Last(available) \in Slots /\ Last(available) \in Free
             /\ LET a == AcceptedPeer(Last(available), c) IN
                  IsInFlight(a) /\ a.contact = c
  <2>1. Last(available) \in Slots /\ Last(available) \in Free
    BY <1>2, <1>5, TopOfStack, PoppedSet DEF RegistryOK, Free
  <2>2. conn[Last(available)] \in PeerConnection /\ IsVacant(conn[Last(available)])
    BY <1>2, <2>1 DEF RegistryOK, PoolInv
  <2>3. AcceptedPeer(Last(available), c) = Accepted(conn[Last(available)], c)
    BY Zenon DEF AcceptedPeer, Accepted
  <2>4. QED
    BY <1>2, <2>1, <2>2, <2>3, TakenKind
<1>6. CASE AcceptNew(c)
  <2> DEFINE s == Last(available)
             a == AcceptedPeer(s, c)
  <2>1. /\ conn' = [conn EXCEPT ![s] = a]
        /\ peers' = [peers EXCEPT ![c] = s]
        /\ available' = Front(available)
        /\ available # << >> /\ peers[c] = NoSlot /\ UNCHANGED generation
    BY <1>6, Zenon DEF AcceptNew
  <2>2. IsInFlight(a) /\ a.contact = c
    BY <1>5, <2>1
  <2> HIDE DEF a
  <2>3. PoolInv' /\ HandleInv'
    BY <1>2, <1>3, <2>1, <2>2, AcquireKeeps
  <2>4. QED
    BY <1>3, <2>3 DEF SlotsInv
<1>7. CASE AcceptReplacing(c)
  <2> DEFINE s    == Last(available)
             a    == AcceptedPeer(s, c)
             o    == peers[c]
             held == conn[o].state = "CONNECTED" /\ conn[o].sock
             v    == Vacant(held)
  <2>1. /\ conn' = [conn EXCEPT ![s] = a, ![o] = v]
        /\ peers' = [peers EXCEPT ![c] = s]
        /\ available' = Append(Front(available), o)
        /\ generation' = Released(o)
        /\ available # << >> /\ peers[c] # NoSlot
    BY <1>7, Zenon DEF AcceptReplacing
  <2>2. IsInFlight(a) /\ a.contact = c
    BY <1>5, <2>1
  <2>3. IsVacant(v)
    <3>1. o \in Slots
      BY <1>2, <2>1, RegisteredSlot
    <3>2. conn[o].sock \in BOOLEAN
      BY <1>2, <3>1 DEF RegistryOK, PeerConnection
    <3>3. held \in BOOLEAN
      BY <3>2, Zenon
    <3>4. QED
      BY <3>3, VacantKind
  <2> HIDE DEF a, v, held
  <2>4. /\ PoolInv' /\ s \in Slots /\ o \in Slots /\ s # o /\ s \in Free
        /\ \A t \in Slots : conn'[t] = IF t = o THEN v ELSE IF t = s THEN a ELSE conn[t]
    BY <1>2, <2>1, <2>2, <2>3, PoolReplace DEF Occupied
  <2>5. /\ ~IsConnected(a) /\ ~IsWaiting(a) /\ ~IsConnected(v) /\ ~IsWaiting(v)
        /\ ~IsConnected(conn[s]) /\ ~IsWaiting(conn[s])
    BY <1>2, <2>2, <2>3, <2>4, KindsApart DEF PoolInv
  <2> HIDE DEF s, o
  <2>6. /\ \A t \in Slots \ {o} : /\ IsConnected(conn'[t]) <=> IsConnected(conn[t])
                                  /\ IsWaiting(conn'[t]) <=> IsWaiting(conn[t])
        /\ ~IsConnected(conn'[o]) /\ ~IsWaiting(conn'[o])
    BY <2>4, <2>5
  <2>7. HandleInv'
    BY <1>2, <1>3, <2>1, <2>4, <2>6, HandlesReleased
  <2>8. QED
    BY <1>3, <2>4, <2>7 DEF SlotsInv
<1>8. QED
  BY <1>4, <1>6, <1>7 DEF accept_peer_connection

\* handle_peer_connection_and_dispatch: the handshake of a peer in flight is complete.
LEMMA DispatchSlots ==
  ASSUME PoolIndInv, NEW s \in Slots, IsInFlight(conn[s]), Idle, UNCHANGED loop,
         ~has_met_connection_quota,
         NEW p, IsConnected(Connected(p)), Connected(p).contact = conn[s].contact,
         handle_peer_connection_and_dispatch(s, p)
  PROVE  SlotsInv'
<1> DEFINE q == Connected(p)
<1>1. TypeOK /\ RegistryOK /\ PoolInv /\ HandleInv /\ DistinctInv
  BY DEF PoolIndInv, SlotsInv, IndInv, TypeOK
<1>2. /\ conn' = [conn EXCEPT ![s] = q]
      /\ connects' = Append(connects, HandleOf(s))
      /\ UNCHANGED <<peers, available, generation, retry_queue, sessions, disconnects>>
  BY RoomForUpdates DEF handle_peer_connection_and_dispatch, Pushed, HandleOf, PoolIndInv
<1> HIDE DEF q
<1>3. ~IsConnected(conn[s]) /\ ~IsWaiting(conn[s]) /\ s \notin Free /\ Occupied(q)
      /\ IsConnected(q) /\ q.contact = conn[s].contact
  BY <1>1, KindsApart, WatchedKind DEF Occupied, q
<1>4. HandleOf(s) \in Handle /\ HandleOf(s) \notin Transfer
  BY <1>1, <1>3 DEF HandleInv, HandleOf, Handle, RegistryOK
<1>5. ToSet(connects') = ToSet(connects) \cup {HandleOf(s)} /\ IsInjective(connects')
  BY <1>1, <1>2, <1>4, PushedSet DEF DistinctInv, TypeOK, UpdatesOK, Transfer
<1>6. Transfer' = Transfer \cup {HandleOf(s)} /\ Queued' = Queued
  BY <1>2, <1>5 DEF Transfer, Queued
<1>7. DistinctInv'
  BY <1>1, <1>2, <1>4, <1>5 DEF DistinctInv, Transfer
<1>8. PoolInv'
  BY <1>1, <1>2, <1>3, PoolUpdate
<1>9. HandleInv'
  BY <1>1, <1>2, <1>3, <1>6, HandlesSent
<1>10. QED
  BY <1>7, <1>8, <1>9, IdleLoop DEF SlotsInv

\* A callback that changes one record in flight and nothing else.
LEMMA FlightSlots ==
  ASSUME PoolIndInv, NEW s \in Slots, IsInFlight(conn[s]), Idle,
         NEW p, IsInFlight(p), p.contact = conn[s].contact,
         conn' = [conn EXCEPT ![s] = p],
         UNCHANGED <<peers, available, generation, retry_queue, connects, sessions,
                     disconnects, loop>>
  PROVE  SlotsInv'
<1>1. UNCHANGED <<Transfer, Queued>> /\ DistinctInv'
  BY QueuesKept DEF PoolIndInv, SlotsInv
<1>2. PoolInv' /\ HandleInv'
  BY <1>1, FlightKeeps DEF PoolIndInv, SlotsInv, IndInv
<1>3. QED
  BY <1>1, <1>2, IdleLoop DEF SlotsInv

\* A callback that gives an attempt up.
LEMMA GiveUpSlots ==
  ASSUME PoolIndInv, NEW s \in Slots, IsInFlight(conn[s]), Idle,
         handle_peer_failure(s) \/ hard_delete_peer_connection(s),
         UNCHANGED <<scheduler, updates>>
  PROVE  SlotsInv'
<1>1. UNCHANGED <<retry_queue, connects, sessions, disconnects, loop>>
  BY Zenon DEF handle_peer_failure, hard_delete_peer_connection, scheduler, updates
<1>2. UNCHANGED <<Transfer, Queued>> /\ DistinctInv'
  BY <1>1, QueuesKept DEF PoolIndInv, SlotsInv
<1>3. PoolInv' /\ HandleInv'
  BY <1>2, GiveUpKeeps DEF PoolIndInv, SlotsInv, IndInv
<1>4. QED
  BY <1>1, <1>2, <1>3, IdleLoop DEF SlotsInv

\* peer_socket_callback: a watcher that fires belongs to a peer in flight.
LEMMA SocketSlots ==
  ASSUME PoolIndInv, NEW s \in Slots, peer_socket_callback(s)
  PROVE  SlotsInv'
<1>1. conn[s] \in PeerConnection /\ TypeOK /\ PoolInv
  BY DEF PoolIndInv, SlotsInv, IndInv, TypeOK, RegistryOK
<1>2. Idle /\ conn[s].watch # "none"
  BY DEF peer_socket_callback, SocketAtQuota, SocketFails, Ready, HandshakeInvalid,
         handle_peer_transport_level_initiations, HandshakeFlushed, HandshakeValid
<1>3. IsInFlight(conn[s])
  BY <1>1, <1>2, WatchedKind
<1>4. CASE SocketAtQuota(s) \/ SocketFails(s) \/ HandshakeInvalid(s)
  BY <1>2, <1>3, <1>4, GiveUpSlots DEF SocketAtQuota, SocketFails, HandshakeInvalid
<1>5. CASE handle_peer_transport_level_initiations(s)
  <2>1. PICK sent \in BOOLEAN : conn' = [conn EXCEPT ![s] = Offered(conn[s], sent)]
    BY <1>5, Zenon DEF handle_peer_transport_level_initiations
  <2>2. conn[s].state \in {"TRANSPORT", "DISCONNECTED", "FAILED"}
        /\ UNCHANGED <<peers, available, generation, retry_queue, connects, sessions,
                       disconnects, loop>>
    BY <1>5 DEF handle_peer_transport_level_initiations, updates, scheduler
  <2>3. conn[s].state = "TRANSPORT"
    BY <1>3, <2>2 DEF IsInFlight
  <2>4. IsInFlight(Offered(conn[s], sent)) /\ Offered(conn[s], sent).contact = conn[s].contact
    BY <1>1, <1>3, <2>3, HandshakeKind, Zenon
  <2>5. QED
    BY <1>2, <1>3, <2>1, <2>2, <2>4, FlightSlots
<1>6. CASE HandshakeFlushed(s)
  <2> DEFINE p == Flushed(conn[s])
             q == [p EXCEPT !.watch = "READ"]
  <2>1. /\ ~has_met_connection_quota /\ conn[s].state = "HANDSHAKE"
        /\ UNCHANGED <<scheduler, contacts, arrivals>>
        /\ \/ /\ conn' = [conn EXCEPT ![s] = q] /\ conn[s].source = "tracker"
              /\ UNCHANGED <<peers, available, generation, aborted, statistics, daemon,
                             retry_queue, updates>>
           \/ handle_peer_connection_and_dispatch(s, p)
    BY <1>6, Zenon DEF HandshakeFlushed, Ready
  <2>2. IsConnected(Connected(p)) /\ Connected(p).contact = conn[s].contact
    BY <1>1, <1>3, ConnectedKind, Zenon
  <2>3. conn[s].source = "tracker" => IsInFlight(q) /\ q.contact = conn[s].contact
    BY <1>1, <1>3, <2>1, HandshakeKind, Zenon
  <2> HIDE DEF p, q
  <2>4. CASE handle_peer_connection_and_dispatch(s, p)
    BY <1>2, <1>3, <2>1, <2>2, <2>4, DispatchSlots DEF scheduler
  <2>5. CASE /\ conn' = [conn EXCEPT ![s] = q] /\ conn[s].source = "tracker"
             /\ UNCHANGED <<peers, available, generation, retry_queue, updates>>
    BY <1>2, <1>3, <2>1, <2>3, <2>5, FlightSlots DEF scheduler, updates
  <2>6. QED
    BY <2>1, <2>4, <2>5
<1>7. CASE HandshakeValid(s)
  <2> DEFINE p == [conn[s] EXCEPT !.outgoing = "sent"]
             q == [conn[s] EXCEPT !.outgoing = "partial", !.watch = "WRITE"]
  <2>1. /\ ~has_met_connection_quota /\ conn[s].state = "HANDSHAKE"
        /\ UNCHANGED <<scheduler, contacts, arrivals>>
        /\ \/ handle_peer_connection_and_dispatch(s, conn[s])
           \/ handle_peer_connection_and_dispatch(s, p)
           \/ /\ conn' = [conn EXCEPT ![s] = q] /\ conn[s].source = "tcp_server"
              /\ UNCHANGED <<peers, available, generation, aborted, statistics, daemon,
                             retry_queue, updates>>
    BY <1>7, Zenon DEF HandshakeValid, Ready
  <2>2. /\ IsConnected(Connected(p)) /\ Connected(p).contact = conn[s].contact
        /\ IsConnected(Connected(conn[s])) /\ Connected(conn[s]).contact = conn[s].contact
    BY <1>1, <1>3, ConnectedKind, Zenon
  <2>3. conn[s].source = "tcp_server" => IsInFlight(q) /\ q.contact = conn[s].contact
    BY <1>1, <1>3, <2>1, HandshakeKind, Zenon
  <2> HIDE DEF p, q
  <2>4. CASE handle_peer_connection_and_dispatch(s, conn[s])
    BY <1>2, <1>3, <2>1, <2>2, <2>4, DispatchSlots DEF scheduler
  <2>5. CASE handle_peer_connection_and_dispatch(s, p)
    BY <1>2, <1>3, <2>1, <2>2, <2>5, DispatchSlots DEF scheduler
  <2>6. CASE /\ conn' = [conn EXCEPT ![s] = q] /\ conn[s].source = "tcp_server"
             /\ UNCHANGED <<peers, available, generation, retry_queue, updates>>
    BY <1>2, <1>3, <2>1, <2>3, <2>6, FlightSlots DEF scheduler, updates
  <2>7. QED
    BY <2>1, <2>4, <2>5, <2>6
<1>8. QED
  BY <1>4, <1>5, <1>6, <1>7 DEF peer_socket_callback

\* peer_timer_callback: a back-off ends, or an attempt in flight has taken too long.
LEMMA TimerSlots ==
  ASSUME PoolIndInv, NEW s \in Slots, peer_timer_callback(s)
  PROVE  SlotsInv'
<1>1. /\ conn[s] \in PeerConnection /\ TypeOK /\ RegistryOK /\ PoolInv /\ HandleInv
      /\ DistinctInv
  BY DEF PoolIndInv, SlotsInv, IndInv, TypeOK, RegistryOK
<1>2. Idle /\ conn[s].timer /\ UNCHANGED <<scheduler, updates>>
  BY Zenon DEF peer_timer_callback
<1>3. CASE conn[s].state # "FAILED" /\ handle_peer_failure(s)
  <2>1. IsInFlight(conn[s])
    BY <1>1, <1>2, <1>3, WatchedKind
  <2>2. QED
    BY <1>2, <1>3, <2>1, GiveUpSlots
<1>4. CASE /\ conn[s].state = "FAILED"
           /\ conn' = [conn EXCEPT ![s] = RetryDue(conn[s])]
           /\ retry_queue' = Append(retry_queue, <<s, generation[s]>>)
           /\ UNCHANGED <<peers, available, generation>>
  <2> DEFINE q == RetryDue(conn[s])
  <2>1. IsBackingOff(conn[s])
    BY <1>1, <1>2, <1>4, WatchedKind
  <2>2. IsWaiting(q) /\ q.contact = conn[s].contact
    <3>1. 0 \in Nat
      OBVIOUS
    <3>2. QED
      BY <1>1, <2>1, <3>1, FailedKind, Zenon
  <2>3. conn' = [conn EXCEPT ![s] = q]
    BY <1>4
  <2> HIDE DEF q
  <2>4. ~IsConnected(conn[s]) /\ ~IsWaiting(conn[s]) /\ s \notin Free /\ Occupied(q)
    BY <1>1, <2>1, <2>2, KindsApart, WatchedKind DEF Occupied
  <2>5. HandleOf(s) \in Handle /\ HandleOf(s) \notin Queued
    BY <1>1, <2>4 DEF HandleInv, HandleOf, Handle, RegistryOK
  <2>6. retry_queue' = Append(retry_queue, HandleOf(s))
    BY <1>4 DEF HandleOf
  <2>7. ToSet(retry_queue') = ToSet(retry_queue) \cup {HandleOf(s)} /\ IsInjective(retry_queue')
    BY <1>1, <2>5, <2>6, PushedSet DEF DistinctInv, TypeOK, UpdatesOK, Queued
  <2>8. Queued' = Queued \cup {HandleOf(s)} /\ Transfer' = Transfer
    BY <1>2, <2>7 DEF Queued, Transfer, updates
  <2>9. DistinctInv'
    BY <1>1, <1>2, <2>7 DEF DistinctInv, updates
  <2>10. PoolInv'
    BY <1>1, <1>4, <2>2, <2>3, <2>4, PoolUpdate
  <2>11. HandleInv'
    BY <1>1, <1>4, <2>2, <2>3, <2>4, <2>8, HandlesDue
  <2>12. LoopInv'
    BY <1>2, IdleLoop DEF scheduler
  <2>13. QED
    BY <2>9, <2>10, <2>11, <2>12 DEF SlotsInv
<1>5. QED
  BY <1>3, <1>4, Zenon DEF peer_timer_callback

\* Every step keeps the slots, the register and the handles in order.
LEMMA NextSlots == PoolIndInv /\ [Next]_vars => SlotsInv'
<1> SUFFICES ASSUME PoolIndInv, [Next]_vars PROVE SlotsInv'
  OBVIOUS
<1>1. CASE UNCHANGED vars
  <2>1. UNCHANGED <<conn, peers, available, generation, connects, sessions, disconnects,
                    retry_queue, loop>>
    BY <1>1 DEF vars, registry, updates, scheduler
  <2>2. LoopInv'
    BY <2>1 DEF LoopInv, PoolIndInv, SlotsInv
  <2>3. QED
    BY <2>1, <2>2, SlotsKept DEF PoolIndInv
<1>2. CASE Next
  <2>1. CASE (\E c \in TrackerContacts : TrackerReports(c)) \/ TrackerNotifies
    BY <2>1, QuietSlots
  <2>2. CASE TransferTakes
    BY <2>2, TakesSlots
  <2>3. CASE \E h \in sessions : TransferDisconnects(h)
    BY <2>3, DisconnectsSlots
  <2>4. CASE Due
    BY <2>4, QuietSlots, DiscoveredSlots, DisconnectedSlots, FailedSlots DEF Due
  <2>5. CASE \E c \in AcceptContacts : accept_peer_connection(c)
    BY <2>5, AcceptSlots
  <2>6. CASE \E s \in Slots : peer_socket_callback(s)
    BY <2>6, SocketSlots
  <2>7. CASE \E s \in Slots : peer_timer_callback(s)
    BY <2>7, TimerSlots
  <2>8. QED
    BY <1>2, <2>1, <2>2, <2>3, <2>4, <2>5, <2>6, <2>7 DEF Next
<1>3. QED
  BY <1>1, <1>2

LEMMA PoolInductive == Spec => []PoolIndInv
<1>1. Init => PoolIndInv
  BY InitIndInv, InitSlots DEF PoolIndInv
<1>2. PoolIndInv /\ [Next]_vars => PoolIndInv'
  BY NextIndInv, NextSlots DEF PoolIndInv
<1>3. QED
  BY <1>1, <1>2, PTL DEF Spec
------------------------------------------------------------------------------
\* A slot is free exactly once and then holds no peer, or it is registered under its own
\* contact and under no other, through every acquire, release, failed connect() and
\* replacement of a peer that connects again.
THEOREM SlotsPartitioned == Spec => []PoolSound
<1>1. PoolIndInv => PoolSound
  <2> SUFFICES ASSUME PoolIndInv PROVE PoolSound
    OBVIOUS
  <2>1. PoolInv /\ Free \subseteq Slots
    BY SetOfSeq DEF PoolIndInv, SlotsInv, IndInv, TypeOK, RegistryOK, Free
  <2>2. QED
    BY <2>1 DEF PoolInv, PoolSound, Free, IsVacant
<1>2. QED
  BY <1>1, PoolInductive, PTL

\* The asserts of the callbacks and schedulers hold (teardown_connection's apart): a
\* watcher that fires belongs to a peer in the middle of an attempt, with a descriptor and
\* a timeout, and discovered_peer_scheduler always finds a slot to acquire.
THEOREM CallbackAsserts == Spec => []AssertsHold
<1>1. PoolIndInv => AssertsHold
  <2> SUFFICES ASSUME PoolIndInv PROVE AssertsHold
    OBVIOUS
  <2>1. ASSUME NEW s \in Slots
        PROVE  /\ conn[s].watch # "none" \/ conn[s].timer =>
                    conn[s].source # "null" /\ conn[s].state \notin {"null", "CONNECTED"}
               /\ conn[s].watch # "none" => conn[s].sock /\ conn[s].timer
               /\ conn[s].sock =>
                    conn[s].watch # "none" \/ conn[s].state \in {"null", "CONNECTED"}
               /\ conn[s].state = "TRANSPORT" => conn[s].outgoing = "none"
               /\ conn[s].source = "tcp_server" /\ conn[s].watch = "READ"
                    => conn[s].outgoing = "none"
    <3>1. IsVacant(conn[s]) \/ Occupied(conn[s])
      BY DEF PoolIndInv, SlotsInv, PoolInv
    <3>2. QED
      BY <3>1 DEF Occupied, IsVacant, IsInFlight, IsBackingOff, IsWaiting, IsConnected
  <2>2. QED
    BY <2>1 DEF AssertsHold, PoolIndInv, SlotsInv, LoopInv
<1>2. QED
  BY <1>1, PoolInductive, PTL

\* A handle that passes the generation check names the peer it was made for: a connected
\* one in the transfer queues, one waiting for its retry in retry_queue, never the slot's
\* next occupant; and no handle is under way twice.
THEOREM HandlesNameTheirPeers == Spec => []HandlesSafe
<1>1. PoolIndInv => HandlesSafe
  <2> SUFFICES ASSUME PoolIndInv PROVE HandlesSafe
    OBVIOUS
  <2>1. TypeOK /\ HandleInv /\ DistinctInv /\ IsFiniteSet(sessions)
    BY DEF PoolIndInv, SlotsInv, IndInv, ConnectionCredit
  <2>2. \A h \in Transfer : generation[h[1]] = h[2] => IsConnected(conn[h[1]])
    BY <2>1, HandlesTyped DEF HandleInv, HandleOf
  <2>3. \A h \in Queued : generation[h[1]] = h[2] => IsWaiting(conn[h[1]])
    BY <2>1, HandlesTyped DEF HandleInv, HandleOf
  <2>4. Cardinality(Transfer) = Len(connects) + Cardinality(sessions) + Len(disconnects)
    <3> DEFINE C == ToSet(connects)
               D == ToSet(disconnects)
    <3>1. /\ IsFiniteSet(C) /\ Cardinality(C) = Len(connects)
          /\ IsFiniteSet(D) /\ Cardinality(D) = Len(disconnects)
          /\ Len(connects) \in Nat /\ Len(disconnects) \in Nat
      BY <2>1, DistinctCount DEF DistinctInv, TypeOK, UpdatesOK
    <3>2. C \cap sessions = {} /\ (C \cup sessions) \cap D = {} /\ Transfer = C \cup sessions \cup D
      BY <2>1 DEF DistinctInv, Transfer
    <3> HIDE DEF C, D
    <3>3. /\ IsFiniteSet(C \cup sessions)
          /\ Cardinality(C \cup sessions) =
               Cardinality(C) + Cardinality(sessions) - Cardinality(C \cap sessions)
      BY <2>1, <3>1, FS_Union
    <3>4. Cardinality(C \cup sessions \cup D) =
            Cardinality(C \cup sessions) + Cardinality(D) - Cardinality((C \cup sessions) \cap D)
      BY <3>1, <3>3, FS_Union
    <3>5. Cardinality({}) = 0 /\ Cardinality(sessions) \in Nat
      BY <2>1, FS_EmptySet, FS_CardinalityType
    <3>6. Cardinality(C \cap sessions) = 0 /\ Cardinality((C \cup sessions) \cap D) = 0
      BY <3>2, <3>5, Zenon
    <3> DEFINE cs == Cardinality(C \cup sessions)
               n  == Cardinality(sessions)
    <3>7. cs = Len(connects) + n - 0 /\ n \in Nat
      BY <3>1, <3>3, <3>5, <3>6, Zenon
    <3>8. Cardinality(Transfer) = cs + Len(disconnects) - 0
      BY <3>1, <3>2, <3>4, <3>6, Zenon
    <3> HIDE DEF cs, n
    <3>9. cs \in Nat /\ cs = Len(connects) + n
      BY <3>1, <3>7
    <3>10. Cardinality(Transfer) = Len(connects) + n + Len(disconnects)
      BY <3>1, <3>8, <3>9
    <3>11. QED
      BY <3>10 DEF n
  <2>5. \A p : IsWaiting(p) => /\ p.state = "TRANSPORT" /\ p.source = "tracker"
                               /\ p.watch = "none" /\ ~p.timer
    BY DEF IsWaiting
  <2>6. \A p : IsConnected(p) => p.state = "CONNECTED"
    BY DEF IsConnected
  <2>7. IsInjective(retry_queue)
    BY <2>1 DEF DistinctInv
  <2>8. QED
    BY <2>2, <2>3, <2>4, <2>5, <2>6, <2>7 DEF HandlesSafe, Transfer, Queued
<1>2. QED
  BY <1>1, PoolInductive, PTL

\* No peer is forgotten: a connected one has its handle in the hands of the transfer
\* thread or on the way to or from it, every other one a running timer or a place in
\* retry_queue.
THEOREM EveryPeerHeld == Spec => []NoOrphan
<1>1. PoolIndInv => NoOrphan
  <2> SUFFICES ASSUME PoolIndInv, NEW s \in Live
               PROVE  IF conn[s].state = "CONNECTED"
                      THEN HandleOf(s) \in ToSet(connects) \cup sessions \cup ToSet(disconnects)
                      ELSE conn[s].timer \/ HandleOf(s) \in ToSet(retry_queue)
    BY DEF NoOrphan
  <2>1. s \in Slots /\ Occupied(conn[s])
    BY DEF Live, Free, PoolIndInv, SlotsInv, PoolInv
  <2>2. /\ IsConnected(conn[s]) => HandleOf(s) \in Transfer
        /\ IsWaiting(conn[s]) => HandleOf(s) \in Queued
    BY <2>1 DEF PoolIndInv, SlotsInv, HandleInv
  <2>3. QED
    BY <2>1, <2>2 DEF Occupied, IsConnected, IsWaiting, IsInFlight, IsBackingOff, Transfer, Queued
<1>2. QED
  BY <1>1, PoolInductive, PTL
------------------------------------------------------------------------------
(* Updates to the transfer thread.                                         *)

\* A step that sends no handle: none appears, and no generation goes back.
Unsent ==
  /\ Transfer' \subseteq Transfer
  /\ generation' = generation \/ \E s \in Slots : generation' = Released(s)

\* Giving a peer up, or acquiring a slot for one, releases one slot at most.
LEMMA GenerationMoves ==
  ASSUME NEW s \in Slots,
         \/ handle_peer_failure(s) \/ hard_delete_peer_connection(s)
         \/ \E p, reg, free : delete_peer_connection(s, p, reg, free)
         \/ \E p, st, reg, free : initiate_connect(s, p, st, reg, free)
  PROVE  generation' = generation \/ generation' = Released(s)
<1>1. ASSUME NEW p, NEW reg, NEW free, delete_peer_connection(s, p, reg, free)
      PROVE  generation' = Released(s)
  BY <1>1 DEF delete_peer_connection
<1>2. CASE handle_peer_failure(s)
  BY <1>1, <1>2, Zenon DEF handle_peer_failure
<1>3. CASE hard_delete_peer_connection(s)
  BY <1>1, <1>3, Zenon DEF hard_delete_peer_connection
<1>4. CASE \E p, st, reg, free : initiate_connect(s, p, st, reg, free)
  BY <1>1, <1>4, Zenon DEF initiate_connect
<1>5. QED
  BY <1>1, <1>2, <1>3, <1>4

\* Every step but a dispatch sends nothing.
LEMMA SentOrUnsent ==
  ASSUME PoolIndInv, [Next]_vars
  PROVE  \/ Unsent
         \/ \E s \in Slots, p \in PeerConnection :
              handle_peer_connection_and_dispatch(s, p) /\ ~has_met_connection_quota
<1>1. TypeOK /\ PoolInv /\ HandleInv
  BY DEF PoolIndInv, SlotsInv, IndInv
<1>2. ASSUME UNCHANGED <<connects, sessions, disconnects>> PROVE Transfer' \subseteq Transfer
  BY <1>2 DEF Transfer
<1>3. CASE \/ UNCHANGED vars \/ TrackerNotifies \/ DrainBegin \/ DrainPop \/ DrainEnd
           \/ \E c \in TrackerContacts : TrackerReports(c)
           \/ notify_disconnected \/ SchedulerBegin \/ round_robin_establisher_scheduler
  <2>1. UNCHANGED <<generation, connects, sessions, disconnects>>
    BY <1>3 DEF vars, TrackerReports, TrackerNotifies, DrainBegin, DrainPop, DrainEnd,
         notify_disconnected, SchedulerBegin, round_robin_establisher_scheduler,
         registry, updates
  <2>2. QED
    BY <1>2, <2>1 DEF Unsent
<1>4. CASE TransferTakes
  <2>1. ToSet(connects) = ToSet(Tail(connects)) \cup {Head(connects)}
    BY <1>1, <1>4, TakenSet DEF TransferTakes, TypeOK, UpdatesOK
  <2>2. /\ ToSet(connects') = ToSet(Tail(connects)) /\ UNCHANGED <<generation, disconnects>>
        /\ sessions' = sessions \cup {Head(connects)}
    BY <1>4 DEF TransferTakes, registry
  <2>3. QED
    BY <2>1, <2>2 DEF Unsent, Transfer
<1>5. ASSUME NEW h \in sessions, TransferDisconnects(h) PROVE Unsent
  <2>1. disconnects' = Append(disconnects, h) \/ disconnects' = disconnects
    BY <1>5 DEF TransferDisconnects, Pushed
  <2>2. ToSet(disconnects') \subseteq ToSet(disconnects) \cup {h}
    <3>1. h \in Handle /\ disconnects \in Seq(Handle)
      BY <1>1 DEF TypeOK, UpdatesOK
    <3>2. ToSet(Append(disconnects, h)) = ToSet(disconnects) \cup {h}
      BY <3>1, PushedSet
    <3>3. CASE disconnects' = Append(disconnects, h)
      BY <3>2, <3>3
    <3>4. CASE disconnects' = disconnects
      BY <3>4
    <3>5. QED
      BY <2>1, <3>3, <3>4
  <2>3. UNCHANGED <<generation, connects>> /\ sessions' \subseteq sessions
    BY <1>5 DEF TransferDisconnects, registry
  <2>4. QED
    BY <2>2, <2>3 DEF Unsent, Transfer
<1>6. CASE discovered_peer_scheduler
  <2>1. Last(available) \in Slots \/ available = << >>
    BY <1>1, TopOfStack DEF TypeOK, RegistryOK
  <2>2. /\ UNCHANGED <<connects, sessions, disconnects>>
        /\ \/ generation' = generation
           \/ available # << >> /\ generation' = Released(Last(available))
           \/ available # << >> /\ \E p, st, reg, free :
                initiate_connect(Last(available), p, st, reg, free)
    BY <1>6, Zenon DEF discovered_peer_scheduler, updates, registry
  <2>3. QED
    BY <1>2, <2>1, <2>2, GenerationMoves DEF Unsent
<1>7. CASE disconnected_peer_scheduler
  <2>1. CASE disconnects = << >>
    BY <1>2, <1>7, <2>1 DEF disconnected_peer_scheduler, Unsent, registry
  <2>2. CASE disconnects # << >>
    <3>1. Head(disconnects)[1] \in Slots /\ ToSet(disconnects) =
            ToSet(Tail(disconnects)) \cup {Head(disconnects)}
      BY <1>1, <2>2, TakenSet, HandlesTyped DEF TypeOK, UpdatesOK
    <3>2. /\ UNCHANGED <<connects, sessions>> /\ disconnects' = Tail(disconnects)
          /\ \/ generation' = generation
             \/ \E p, reg, free :
                  delete_peer_connection(Head(disconnects)[1], p, reg, free)
             \/ \E p, st, reg, free :
                  initiate_connect(Head(disconnects)[1], p, st, reg, free)
      BY <1>7, <2>2, Zenon DEF disconnected_peer_scheduler, registry
    <3>3. Transfer' \subseteq Transfer
      BY <3>1, <3>2 DEF Transfer
    <3>4. QED
      BY <3>1, <3>2, <3>3, GenerationMoves DEF Unsent
  <2>3. QED
    BY <2>1, <2>2
<1>8. CASE failed_peer_scheduler
  <2>1. Head(retry_queue)[1] \in Slots \/ retry_queue = << >>
    BY <1>1, TakenSet, HandlesTyped DEF TypeOK, UpdatesOK
  <2>2. /\ UNCHANGED <<connects, sessions, disconnects>>
        /\ \/ generation' = generation
           \/ retry_queue # << >> /\ \E p, st, reg, free :
                initiate_connect(Head(retry_queue)[1], p, st, reg, free)
    BY <1>8, Zenon DEF failed_peer_scheduler, updates, registry
  <2>3. QED
    BY <1>2, <2>1, <2>2, GenerationMoves DEF Unsent
<1>9. ASSUME NEW c \in AcceptContacts, accept_peer_connection(c) PROVE Unsent
  <2>1. c \in Contact
    BY DEF Contact
  <2>2. peers[c] # NoSlot => peers[c] \in Slots
    BY <1>1, <2>1 DEF TypeOK, RegistryOK
  <2>3. /\ UNCHANGED <<connects, sessions, disconnects>>
        /\ \/ generation' = generation
           \/ peers[c] # NoSlot /\ generation' = Released(peers[c])
    BY <1>9, Zenon DEF accept_peer_connection, AcceptRefused, AcceptNew, AcceptReplacing,
                       updates, registry
  <2>4. QED
    BY <1>2, <2>2, <2>3 DEF Unsent
<1>10. ASSUME NEW s \in Slots, peer_socket_callback(s)
       PROVE  \/ Unsent
              \/ \E p \in PeerConnection :
                   handle_peer_connection_and_dispatch(s, p) /\ ~has_met_connection_quota
  <2>1. conn[s] \in PeerConnection
    BY <1>1 DEF TypeOK, RegistryOK
  <2>2. \/ /\ UNCHANGED <<connects, sessions, disconnects>>
           /\ \/ generation' = generation
              \/ handle_peer_failure(s) \/ hard_delete_peer_connection(s)
        \/ /\ ~has_met_connection_quota
           /\ \/ handle_peer_connection_and_dispatch(s, Flushed(conn[s]))
              \/ handle_peer_connection_and_dispatch(s, conn[s])
              \/ handle_peer_connection_and_dispatch(s, [conn[s] EXCEPT !.outgoing = "sent"])
    BY <1>10, Zenon DEF peer_socket_callback, SocketAtQuota, SocketFails,
         handle_peer_transport_level_initiations, HandshakeFlushed, HandshakeInvalid,
         HandshakeValid, Ready, updates
  <2>3. /\ Flushed(conn[s]) \in PeerConnection
        /\ [conn[s] EXCEPT !.outgoing = "sent"] \in PeerConnection
    BY <2>1, HandshakeTyped
  <2>4. QED
    BY <1>2, <2>1, <2>2, <2>3, GenerationMoves DEF Unsent
<1>11. ASSUME NEW s \in Slots, peer_timer_callback(s) PROVE Unsent
  <2>1. /\ UNCHANGED <<connects, sessions, disconnects>>
        /\ generation' = generation \/ handle_peer_failure(s)
    BY <1>11, Zenon DEF peer_timer_callback, updates
  <2>2. QED
    BY <1>2, <2>1, GenerationMoves DEF Unsent
<1>12. QED
  BY <1>3, <1>4, <1>5, <1>6, <1>7, <1>8, <1>9, <1>10, <1>11 DEF Next, Due

\* Only the end of a session takes its handle away from the transfer thread.
LEMMA SessionEnds ==
  ASSUME IndInv, [Next]_vars, NEW h \in sessions, h \notin sessions'
  PROVE  disconnects' = Append(disconnects, h)
<1>1. CASE \E g \in sessions : TransferDisconnects(g)
  <2>1. PICK g \in sessions : TransferDisconnects(g)
    BY <1>1
  <2>2. g = h /\ disconnects' = Pushed(disconnects, h)
    BY <2>1 DEF TransferDisconnects
  <2>3. QED
    BY <2>2, RoomForUpdates DEF Pushed
<1>2. CASE TransferTakes
  BY <1>2 DEF TransferTakes
<1>3. CASE UNCHANGED vars \/ (\E c \in TrackerContacts : TrackerReports(c)) \/ TrackerNotifies
           \/ Due \/ \E c \in AcceptContacts : accept_peer_connection(c)
  <2>1. UNCHANGED sessions
    BY <1>3 DEF vars, TrackerReports, TrackerNotifies, Due, DrainBegin, DrainPop, DrainEnd,
         notify_disconnected, SchedulerBegin, round_robin_establisher_scheduler,
         discovered_peer_scheduler, disconnected_peer_scheduler, failed_peer_scheduler,
         accept_peer_connection, AcceptRefused, AcceptNew, AcceptReplacing, updates
  <2>2. QED
    BY <2>1
<1>4. ASSUME NEW s \in Slots, peer_socket_callback(s) \/ peer_timer_callback(s)
      PROVE  UNCHANGED sessions
  BY <1>4, Zenon DEF peer_socket_callback, SocketAtQuota, SocketFails,
       handle_peer_transport_level_initiations, HandshakeFlushed, HandshakeInvalid,
       HandshakeValid, handle_peer_connection_and_dispatch, peer_timer_callback, updates
<1>5. QED
  BY <1>1, <1>2, <1>3, <1>4 DEF Next

\* A slot that becomes connected does so in the step that queues its handle.
LEMMA ConnectSent ==
  ASSUME PoolIndInv, PoolIndInv', [Next]_vars, NEW s \in Slots,
         conn[s].state # "CONNECTED", conn'[s].state = "CONNECTED"
  PROVE  connects' = Append(connects, HandleOf(s))
<1>1. TypeOK /\ PoolInv /\ HandleInv /\ TypeOK' /\ PoolInv' /\ HandleInv'
  BY DEF PoolIndInv, SlotsInv, IndInv
<1>2. IsConnected(conn'[s])
  <2>1. IsVacant(conn'[s]) \/ Occupied(conn'[s])
    BY <1>1 DEF PoolInv
  <2>2. QED
    BY <2>1 DEF Occupied, IsVacant, IsInFlight, IsBackingOff, IsWaiting, IsConnected
<1>3. HandleOf(s) \notin Transfer
  BY <1>1 DEF HandleInv, IsConnected
<1>4. HandleOf(s)' \in Transfer'
  BY <1>1, <1>2 DEF HandleInv
<1>5. CASE Unsent
  <2>1. generation[s] \in Nat
    BY <1>1 DEF TypeOK, RegistryOK
  <2>2. generation'[s] = generation[s] \/ generation'[s] = generation[s] + 1
    BY <1>1, <1>5 DEF Unsent, Released, TypeOK, RegistryOK
  <2>3. <<s, generation'[s]>> \in Transfer
    BY <1>4, <1>5 DEF Unsent, HandleOf
  <2>4. generation'[s] <= generation[s]
    <3>1. <<s, generation'[s]>>[1] = s /\ <<s, generation'[s]>>[2] = generation'[s]
      OBVIOUS
    <3>2. QED
      BY <1>1, <2>3, <3>1, Zenon DEF HandleInv
  <2>5. generation'[s] = generation[s]
    BY <2>1, <2>2, <2>4
  <2>6. QED
    BY <1>3, <2>3, <2>5 DEF HandleOf
<1>6. CASE \E t \in Slots, p \in PeerConnection :
             handle_peer_connection_and_dispatch(t, p) /\ ~has_met_connection_quota
  <2>1. PICK t \in Slots, p \in PeerConnection :
          handle_peer_connection_and_dispatch(t, p) /\ ~has_met_connection_quota
    BY <1>6
  <2>2. /\ conn' = [conn EXCEPT ![t] = Connected(p)]
        /\ connects' = Append(connects, HandleOf(t))
    BY <2>1, RoomForUpdates DEF handle_peer_connection_and_dispatch, Pushed, HandleOf, PoolIndInv
  <2>3. t = s
    BY <1>1, <2>2 DEF TypeOK, RegistryOK
  <2>4. QED
    BY <2>2, <2>3
<1>7. QED
  BY <1>5, <1>6, SentOrUnsent

\* push() on connects and on disconnects never meets a full queue, although its callers
\* would not notice: every peer that becomes connected is sent, every ended session is
\* reported.
THEOREM UpdatesArrive == Spec => NoUpdateLost
<1>1. PoolIndInv /\ PoolIndInv' /\ [Next]_vars =>
        [ /\ \A s \in Slots : conn[s].state # "CONNECTED" /\ conn'[s].state = "CONNECTED"
                                => connects' = Append(connects, HandleOf(s))
          /\ \A h \in sessions \ sessions' : disconnects' = Append(disconnects, h) ]_vars
  BY ConnectSent, SessionEnds DEF PoolIndInv
<1>2. QED
  BY <1>1, PoolInductive, PTL DEF Spec, NoUpdateLost
------------------------------------------------------------------------------
(* What the counters are about.                                            *)

IsOpen(p)    == p.source = "tcp_server" /\ p.state = "HANDSHAKE"
IsFlying(p)  == p.source = "tracker" /\ p.watch # "none"
IsFailing(p) == p.state = "FAILED"

Open    == {s \in Slots : IsOpen(conn[s])}
Flying  == {s \in Slots : IsFlying(conn[s])}
Failing == {s \in Slots : IsFailing(conn[s])}
Waiting == {s \in Slots : IsWaiting(conn[s])}

\* outbound_inflight counts the accepted peers whose handshake is open.
OutboundInv ==
  /\ statistics.outbound = Cardinality(Open)
  /\ statistics.outbound <= MaxOutbound

\* The counters of the scheduler, while nobody connects to us: every attempt is its own,
\* a handler runs only below the limit, and no queued retry is stale.
InboundInv ==
  /\ statistics.inbound = Cardinality(Flying)
  /\ statistics.inbound <= MaxInbound
  /\ loop \in Handlers => statistics.inbound < MaxInbound
  /\ statistics.failed = Cardinality(Failing)
  /\ statistics.retry = Cardinality(Waiting)
  /\ statistics.retry = Len(retry_queue)
  /\ \A h \in Queued : generation[h[1]] = h[2]
  /\ \A s \in Slots : conn[s].source # "tcp_server"

\* cached counts the contacts in the cache.
CacheInv == statistics.cached = Len(cache)
------------------------------------------------------------------------------
(* Counting.                                                               *)

Unit(b) == IF b THEN 1 ELSE 0

\* A set of slots that changes at one slot changes its cardinality by at most one.
LEMMA CountMove ==
  ASSUME NEW X, NEW Y, X \subseteq Slots, Y \subseteq Slots, NEW s \in Slots,
         X \ {s} = Y \ {s}
  PROVE  /\ Cardinality(X) \in 0 .. PoolSize /\ Cardinality(Y) \in 0 .. PoolSize
         /\ Cardinality(Y) = Cardinality(X) + Unit(s \in Y) - Unit(s \in X)
<1>1. IsFiniteSet(Slots) /\ Cardinality(Slots) = PoolSize /\ PoolSize \in Nat
  <2>1. PoolSize \in Nat
    BY SizesAssumption
  <2>2. IsFiniteSet(1 .. PoolSize) /\ Cardinality(1 .. PoolSize) =
          IF 1 > PoolSize THEN 0 ELSE PoolSize - 1 + 1
    BY <2>1, FS_Interval
  <2>3. (IF 1 > PoolSize THEN 0 ELSE PoolSize - 1 + 1) = PoolSize
    BY <2>1
  <2>4. QED
    BY <2>1, <2>2, <2>3 DEF Slots
<1>2. IsFiniteSet(X) /\ IsFiniteSet(Y)
  BY <1>1, FS_Subset
<1>3. Cardinality(X) \in Nat /\ Cardinality(Y) \in Nat
  BY <1>2, FS_CardinalityType
<1>4. Cardinality(X) <= PoolSize /\ Cardinality(Y) <= PoolSize
  BY <1>1, FS_Subset
<1> DEFINE R == X \ {s}
<1>5. IsFiniteSet(R) /\ s \notin R /\ Cardinality(R) \in Nat
  BY <1>2, FS_Subset, FS_CardinalityType
<1>6. Cardinality(R \cup {s}) = Cardinality(R) + 1
  BY <1>5, FS_AddElement
<1>7. /\ X = (IF s \in X THEN R \cup {s} ELSE R)
      /\ Y = (IF s \in Y THEN R \cup {s} ELSE R)
  OBVIOUS
<1> HIDE DEF R
<1>8. /\ Cardinality(X) = Cardinality(R) + Unit(s \in X)
      /\ Cardinality(Y) = Cardinality(R) + Unit(s \in Y)
  BY <1>5, <1>6, <1>7 DEF Unit
<1>9. QED
  BY <1>3, <1>4, <1>5, <1>8 DEF Unit

\* One record changes.
LEMMA RecordMove ==
  ASSUME RegistryOK, NEW s \in Slots, NEW q, conn' = [conn EXCEPT ![s] = q]
  PROVE  /\ Cardinality(Open') =
              Cardinality(Open) + Unit(IsOpen(q)) - Unit(IsOpen(conn[s]))
         /\ Cardinality(Flying') =
              Cardinality(Flying) + Unit(IsFlying(q)) - Unit(IsFlying(conn[s]))
         /\ Cardinality(Failing') =
              Cardinality(Failing) + Unit(IsFailing(q)) - Unit(IsFailing(conn[s]))
         /\ Cardinality(Waiting') =
              Cardinality(Waiting) + Unit(IsWaiting(q)) - Unit(IsWaiting(conn[s]))
         /\ {Cardinality(Open), Cardinality(Flying), Cardinality(Failing),
             Cardinality(Waiting), Cardinality(Open'), Cardinality(Flying'),
             Cardinality(Failing'), Cardinality(Waiting')} \subseteq 0 .. PoolSize
<1>1. \A t \in Slots : conn'[t] = IF t = s THEN q ELSE conn[t]
  BY DEF RegistryOK
<1>2. Open' = {t \in Slots : IsOpen(conn'[t])} /\ Flying' = {t \in Slots : IsFlying(conn'[t])}
      /\ Failing' = {t \in Slots : IsFailing(conn'[t])}
      /\ Waiting' = {t \in Slots : IsWaiting(conn'[t])}
  BY DEF Open, Flying, Failing, Waiting
<1>3. /\ Open \subseteq Slots /\ Open' \subseteq Slots /\ Open \ {s} = Open' \ {s}
      /\ (s \in Open <=> IsOpen(conn[s])) /\ (s \in Open' <=> IsOpen(q))
  BY <1>1, <1>2 DEF Open
<1>4. /\ Flying \subseteq Slots /\ Flying' \subseteq Slots /\ Flying \ {s} = Flying' \ {s}
      /\ (s \in Flying <=> IsFlying(conn[s])) /\ (s \in Flying' <=> IsFlying(q))
  BY <1>1, <1>2 DEF Flying
<1>5. /\ Failing \subseteq Slots /\ Failing' \subseteq Slots /\ Failing \ {s} = Failing' \ {s}
      /\ (s \in Failing <=> IsFailing(conn[s])) /\ (s \in Failing' <=> IsFailing(q))
  BY <1>1, <1>2 DEF Failing
<1>6. /\ Waiting \subseteq Slots /\ Waiting' \subseteq Slots /\ Waiting \ {s} = Waiting' \ {s}
      /\ (s \in Waiting <=> IsWaiting(conn[s])) /\ (s \in Waiting' <=> IsWaiting(q))
  BY <1>1, <1>2 DEF Waiting
<1>7. /\ Cardinality(Open) \in 0 .. PoolSize /\ Cardinality(Open') \in 0 .. PoolSize
      /\ Cardinality(Open') =
              Cardinality(Open) + Unit(IsOpen(q)) - Unit(IsOpen(conn[s]))
  BY <1>3, CountMove DEF Unit
<1>8. /\ Cardinality(Flying) \in 0 .. PoolSize /\ Cardinality(Flying') \in 0 .. PoolSize
      /\ Cardinality(Flying') =
              Cardinality(Flying) + Unit(IsFlying(q)) - Unit(IsFlying(conn[s]))
  BY <1>4, CountMove DEF Unit
<1>9. /\ Cardinality(Failing) \in 0 .. PoolSize /\ Cardinality(Failing') \in 0 .. PoolSize
      /\ Cardinality(Failing') =
              Cardinality(Failing) + Unit(IsFailing(q)) - Unit(IsFailing(conn[s]))
  BY <1>5, CountMove DEF Unit
<1>10. /\ Cardinality(Waiting) \in 0 .. PoolSize /\ Cardinality(Waiting') \in 0 .. PoolSize
       /\ Cardinality(Waiting') =
              Cardinality(Waiting) + Unit(IsWaiting(q)) - Unit(IsWaiting(conn[s]))
  BY <1>6, CountMove DEF Unit
<1>11. QED
  BY <1>7, <1>8, <1>9, <1>10

\* Which counter each kind of record belongs to.
LEMMA KindCounts ==
  ASSUME NEW p
  PROVE  /\ IsVacant(p) \/ IsConnected(p) =>
              ~IsOpen(p) /\ ~IsFlying(p) /\ ~IsFailing(p) /\ ~IsWaiting(p)
         /\ IsInFlight(p) /\ p.source = "tcp_server" =>
              IsOpen(p) /\ ~IsFlying(p) /\ ~IsFailing(p) /\ ~IsWaiting(p)
         /\ IsInFlight(p) /\ p.source = "tracker" =>
              ~IsOpen(p) /\ IsFlying(p) /\ ~IsFailing(p) /\ ~IsWaiting(p)
         /\ IsBackingOff(p) => ~IsOpen(p) /\ ~IsFlying(p) /\ IsFailing(p) /\ ~IsWaiting(p)
         /\ IsWaiting(p) => ~IsOpen(p) /\ ~IsFlying(p) /\ ~IsFailing(p)
BY DEF IsVacant, IsConnected, IsInFlight, IsBackingOff, IsWaiting, IsOpen, IsFlying, IsFailing

\* What the handlers' updates of the statistics do to each counter.
LEMMA CountersMoved ==
  ASSUME NEW st \in Statistics
  PROVE  /\ LET r == Resolved(st, "tcp_server") IN
              /\ r.outbound = Dec(st.outbound) /\ r.inbound = st.inbound
              /\ r.failed = st.failed /\ r.retry = st.retry /\ r.cached = st.cached
         /\ \A source : source # "tcp_server" =>
              LET r == Resolved(st, source) IN
              /\ r.outbound = st.outbound /\ r.inbound = Dec(st.inbound)
              /\ r.failed = st.failed /\ r.retry = st.retry /\ r.cached = st.cached
         /\ LET r == [st EXCEPT !.failed = Inc(@)] IN
              /\ r.outbound = st.outbound /\ r.inbound = st.inbound
              /\ r.failed = Inc(st.failed) /\ r.retry = st.retry /\ r.cached = st.cached
         /\ LET r == [st EXCEPT !.connected = Inc(@)] IN
              /\ r.outbound = st.outbound /\ r.inbound = st.inbound
              /\ r.failed = st.failed /\ r.retry = st.retry /\ r.cached = st.cached
         /\ LET r == [st EXCEPT !.connected = Dec(@)] IN
              /\ r.outbound = st.outbound /\ r.inbound = st.inbound
              /\ r.failed = st.failed /\ r.retry = st.retry /\ r.cached = st.cached
         /\ LET r == [st EXCEPT !.inbound = Inc(@)] IN
              /\ r.outbound = st.outbound /\ r.inbound = Inc(st.inbound)
              /\ r.failed = st.failed /\ r.retry = st.retry /\ r.cached = st.cached
         /\ LET r == [st EXCEPT !.outbound = Inc(@)] IN
              /\ r.outbound = Inc(st.outbound) /\ r.inbound = st.inbound
              /\ r.failed = st.failed /\ r.retry = st.retry /\ r.cached = st.cached
         /\ LET r == [st EXCEPT !.retry = Dec(@)] IN
              /\ r.outbound = st.outbound /\ r.inbound = st.inbound
              /\ r.failed = st.failed /\ r.retry = Dec(st.retry) /\ r.cached = st.cached
         /\ LET r == [st EXCEPT !.cached = Dec(@)] IN
              /\ r.outbound = st.outbound /\ r.inbound = st.inbound
              /\ r.failed = st.failed /\ r.retry = st.retry /\ r.cached = Dec(st.cached)
         /\ LET r == [st EXCEPT !.failed = Dec(@), !.retry = Inc(@)] IN
              /\ r.outbound = st.outbound /\ r.inbound = st.inbound
              /\ r.failed = Dec(st.failed) /\ r.retry = Inc(st.retry)
              /\ r.cached = st.cached
BY DEF Statistics, Resolved

\* A counter that is below its limit, or above zero, does not wrap around.
LEMMA CounterSteps ==
  ASSUME NEW n \in Nat
  PROVE  /\ n > 0 => Dec(n) = n - 1
         /\ n < SizeMax => Inc(n) = n + 1
BY SizeMaxAssumption DEF Inc, Dec

\* No queued retry becomes stale when the slot of another peer is released.
LEMMA FreshKept ==
  ASSUME TypeOK, HandleInv, \A h \in Queued : generation[h[1]] = h[2],
         NEW s \in Slots, ~IsWaiting(conn[s]),
         generation' = generation \/ generation' = Released(s), Queued' \subseteq Queued
  PROVE  \A h \in Queued' : generation'[h[1]] = h[2]
<1> SUFFICES ASSUME NEW h \in Queued' PROVE generation'[h[1]] = h[2]
  OBVIOUS
<1>1. h \in Queued /\ h[1] \in Slots /\ h = HandleOf(h[1])
  BY HandlesTyped DEF HandleOf
<1>2. h[1] # s
  BY <1>1 DEF HandleInv
<1>3. QED
  BY <1>1, <1>2 DEF Released, TypeOK, RegistryOK

\* The steps that leave records, retries and the four counters alone.
LEMMA BooksKept ==
  ASSUME PoolIndInv, UNCHANGED <<conn, retry_queue>>,
         UNCHANGED <<statistics.outbound, statistics.inbound, statistics.failed,
                     statistics.retry>>,
         \/ generation' = generation
         \/ \E s \in Slots : ~IsWaiting(conn[s]) /\ generation' = Released(s),
         loop' \in Handlers => loop \in Handlers \/ statistics.inbound < MaxInbound
  PROVE  (OutboundInv => OutboundInv') /\ (InboundInv => InboundInv')
<1>1. UNCHANGED <<Open, Flying, Failing, Waiting, Queued>>
  BY DEF Open, Flying, Failing, Waiting, Queued
<1>2. OutboundInv => OutboundInv'
  BY <1>1 DEF OutboundInv
<1>3. ASSUME InboundInv PROVE InboundInv'
  <2>1. \A h \in Queued' : generation'[h[1]] = h[2]
    BY <1>1, <1>3, FreshKept DEF PoolIndInv, IndInv, SlotsInv, InboundInv
  <2>2. QED
    BY <1>1, <1>3, <2>1 DEF InboundInv
<1>4. QED
  BY <1>2, <1>3

\* An attempt is over: its peer is given up, backs off or is connected.
LEMMA BooksResolved ==
  ASSUME PoolIndInv, NEW s \in Slots, IsInFlight(conn[s]),
         NEW q, conn' = [conn EXCEPT ![s] = q],
         NEW st \in Statistics, st = Resolved(statistics, conn[s].source),
         UNCHANGED <<retry_queue, loop>>, loop \notin Handlers,
         generation' = generation \/ generation' = Released(s),
         statistics'.outbound = st.outbound, statistics'.inbound = st.inbound,
         statistics'.retry = st.retry,
         \/ /\ IsVacant(q) \/ (IsConnected(q) /\ q.source = conn[s].source)
            /\ statistics'.failed = st.failed
         \/ IsBackingOff(q) /\ statistics'.failed = Inc(st.failed)
  PROVE  (OutboundInv => OutboundInv') /\ (InboundInv => InboundInv')
<1>1. TypeOK /\ RegistryOK /\ HandleInv /\ statistics \in Statistics
      /\ conn[s] \in PeerConnection /\ PoolSize \in Nat /\ PoolSize <= SizeMax
  BY SizesAssumption, LimitsAssumption
     DEF PoolIndInv, SlotsInv, IndInv, TypeOK, RegistryOK
<1>2. conn[s].source \in {"tracker", "tcp_server"}
  BY <1>1 DEF PeerConnection, IsInFlight
<1>3. ~IsOpen(q) /\ ~IsFlying(q) /\ ~IsWaiting(q)
      /\ (IsVacant(q) \/ IsConnected(q) => ~IsFailing(q)) /\ (IsBackingOff(q) => IsFailing(q))
      /\ ~IsWaiting(conn[s]) /\ ~IsFailing(conn[s])
      /\ (conn[s].source = "tcp_server" <=> IsOpen(conn[s]))
      /\ (conn[s].source = "tracker" <=> IsFlying(conn[s]))
  BY <1>2, KindCounts
<1> DEFINE o == Cardinality(Open)
           f == Cardinality(Flying)
           b == Cardinality(Failing)
           w == Cardinality(Waiting)
<1>4. /\ o \in 0 .. PoolSize /\ f \in 0 .. PoolSize /\ b \in 0 .. PoolSize
      /\ w \in 0 .. PoolSize /\ b' \in 0 .. PoolSize
      /\ o' \in 0 .. PoolSize /\ f' \in 0 .. PoolSize
      /\ o' = o + Unit(IsOpen(q)) - Unit(IsOpen(conn[s]))
      /\ f' = f + Unit(IsFlying(q)) - Unit(IsFlying(conn[s]))
      /\ b' = b + Unit(IsFailing(q)) - Unit(IsFailing(conn[s]))
      /\ w' = w + Unit(IsWaiting(q)) - Unit(IsWaiting(conn[s]))
  <2>1. RegistryOK /\ conn' = [conn EXCEPT ![s] = q]
    BY <1>1
  <2>2. QED
    BY <2>1, RecordMove
<1> HIDE DEF o, f, b, w
<1>5. /\ o' = o - Unit(IsOpen(conn[s])) /\ f' = f - Unit(IsFlying(conn[s]))
      /\ b' = b + Unit(IsFailing(q)) /\ w' = w
  BY <1>1, <1>3, <1>4 DEF Unit
<1>6. {o, f, b, w, o', f', b'} \subseteq Nat
  BY <1>1, <1>4
<1>7. ASSUME OutboundInv PROVE OutboundInv'
  <2>1. statistics.outbound = o /\ o <= MaxOutbound /\ MaxOutbound \in Nat
    BY <1>7, SizesAssumption DEF OutboundInv, o
  <2>2. CASE conn[s].source = "tcp_server"
    <3>1. o > 0 /\ o' = o - 1
      BY <1>3, <1>5, <1>6, <2>2 DEF Unit
    <3>2. statistics'.outbound = Dec(o)
      BY <1>1, <2>1, <2>2, CountersMoved
    <3>3. Dec(o) = o - 1
      BY <1>6, <3>1, CounterSteps
    <3>4. statistics'.outbound = o' /\ o' <= MaxOutbound
      BY <1>6, <2>1, <3>1, <3>2, <3>3
    <3>5. QED
      BY <3>4 DEF OutboundInv, o
  <2>3. CASE conn[s].source # "tcp_server"
    <3>1. o' = o
      BY <1>3, <1>5, <1>6, <2>3 DEF Unit
    <3>2. statistics'.outbound = o
      BY <1>1, <2>1, <2>3, CountersMoved
    <3>3. QED
      BY <2>1, <3>1, <3>2 DEF OutboundInv, o
  <2>4. QED
    BY <2>2, <2>3
<1>8. ASSUME InboundInv PROVE InboundInv'
  <2>1. /\ statistics.inbound = f /\ f <= MaxInbound /\ statistics.failed = b
        /\ statistics.retry = w /\ w = Len(retry_queue)
        /\ \A t \in Slots : conn[t].source # "tcp_server"
        /\ \A h \in Queued : generation[h[1]] = h[2]
        /\ MaxInbound \in Nat
    BY <1>8, SizesAssumption DEF InboundInv, f, b, w
  <2>2. conn[s].source = "tracker"
    BY <1>2, <2>1
  <2>3. f > 0 /\ f' = f - 1
    BY <1>3, <1>5, <1>6, <2>2 DEF Unit
  <2>4. statistics'.inbound = Dec(f) /\ statistics'.retry = w /\ st.failed = b
    BY <1>1, <2>1, <2>2, CountersMoved
  <2>5. statistics'.inbound = f' /\ f' <= MaxInbound
    <3>1. Dec(f) = f - 1
      BY <1>6, <2>3, CounterSteps
    <3>2. QED
      BY <1>6, <2>1, <2>3, <2>4, <3>1
  <2>6. statistics'.failed = b'
    <3>1. CASE ~IsFailing(q)
      BY <1>3, <1>5, <1>6, <2>4, <3>1 DEF Unit
    <3>2. CASE IsFailing(q)
      <4>1. b' = b + 1 /\ b < SizeMax
        BY <1>1, <1>4, <1>5, <1>6, <3>2, SizeMaxAssumption DEF Unit
      <4>2. Inc(b) = b + 1
        BY <1>6, <4>1, CounterSteps
      <4>3. QED
        BY <1>3, <2>4, <3>2, <4>1, <4>2
    <3>3. QED
      BY <3>1, <3>2
  <2>7. \A h \in Queued' : generation'[h[1]] = h[2]
    BY <1>1, <1>3, <2>1, FreshKept DEF Queued
  <2>8. \A t \in Slots : conn'[t].source # "tcp_server"
    <3>1. q.source # "tcp_server"
      BY <2>2 DEF IsVacant, IsBackingOff
    <3>2. QED
      BY <1>1, <2>1, <3>1 DEF RegistryOK
  <2>9. QED
    BY <1>5, <2>1, <2>4, <2>5, <2>6, <2>7, <2>8 DEF InboundInv, f, b, w
<1>9. QED
  BY <1>7, <1>8

\* A record changes and stays of the kind it was, for all the counters can tell.
LEMMA BooksSame ==
  ASSUME PoolIndInv, NEW s \in Slots, NEW q, conn' = [conn EXCEPT ![s] = q],
         IsOpen(q) <=> IsOpen(conn[s]), IsFlying(q) <=> IsFlying(conn[s]),
         IsFailing(q) <=> IsFailing(conn[s]), IsWaiting(q) <=> IsWaiting(conn[s]),
         q.source = "tcp_server" => conn[s].source = "tcp_server",
         UNCHANGED <<retry_queue, loop>>,
         UNCHANGED <<statistics.outbound, statistics.inbound, statistics.failed,
                     statistics.retry>>,
         generation' = generation \/ (~IsWaiting(conn[s]) /\ generation' = Released(s))
  PROVE  (OutboundInv => OutboundInv') /\ (InboundInv => InboundInv')
<1>1. TypeOK /\ HandleInv /\ \A t \in Slots : conn'[t] = IF t = s THEN q ELSE conn[t]
  BY DEF PoolIndInv, SlotsInv, IndInv, TypeOK, RegistryOK
<1>2. UNCHANGED <<Open, Flying, Failing, Waiting, Queued>>
  BY <1>1 DEF Open, Flying, Failing, Waiting, Queued
<1>3. OutboundInv => OutboundInv'
  BY <1>2 DEF OutboundInv
<1>4. ASSUME InboundInv PROVE InboundInv'
  <2>1. \A h \in Queued' : generation'[h[1]] = h[2]
    <3>1. CASE generation' = generation
      BY <1>2, <1>4, <3>1 DEF InboundInv
    <3>2. CASE ~IsWaiting(conn[s]) /\ generation' = Released(s)
      BY <1>1, <1>2, <1>4, <3>2, FreshKept DEF InboundInv
    <3>3. QED
      BY <3>1, <3>2
  <2>2. \A t \in Slots : conn'[t].source # "tcp_server"
    BY <1>1, <1>4 DEF InboundInv
  <2>3. QED
    BY <1>2, <1>4, <2>1, <2>2 DEF InboundInv
<1>5. QED
  BY <1>3, <1>4

\* A handler of the scheduler has started an attempt of a new or of a waiting peer, or
\* given up a waiting one whose connect() failed.
LEMMA BooksStarted ==
  ASSUME PoolIndInv, NEW s \in Slots, NEW q, conn' = [conn EXCEPT ![s] = q],
         loop \in Handlers, statistics'.outbound = statistics.outbound,
         statistics'.failed = statistics.failed,
         \/ /\ IsInFlight(q) /\ q.source = "tracker"
            /\ statistics'.inbound = Inc(statistics.inbound)
            /\ loop' \notin Handlers /\ generation' = generation
         \/ /\ IsVacant(q) /\ statistics'.inbound = statistics.inbound
            /\ generation' = Released(s),
         \/ /\ IsVacant(conn[s]) /\ statistics'.retry = statistics.retry
            /\ UNCHANGED retry_queue
         \/ /\ IsWaiting(conn[s]) /\ statistics'.retry = Dec(statistics.retry)
            /\ retry_queue # << >> /\ HandleOf(s) = Head(retry_queue)
            /\ retry_queue' = Tail(retry_queue)
  PROVE  (OutboundInv => OutboundInv') /\ (InboundInv => InboundInv')
<1>1. TypeOK /\ RegistryOK /\ HandleInv /\ PoolSize \in Nat /\ MaxInbound \in Nat
      /\ MaxInbound <= SizeMax /\ retry_queue \in Seq(Handle) /\ IsInjective(retry_queue)
  BY SizesAssumption, LimitsAssumption
     DEF PoolIndInv, SlotsInv, DistinctInv, IndInv, TypeOK, UpdatesOK
<1>2. /\ ~IsOpen(q) /\ ~IsFailing(q) /\ ~IsWaiting(q)
      /\ ~IsOpen(conn[s]) /\ ~IsFailing(conn[s]) /\ ~IsFlying(conn[s])
      /\ (IsVacant(q) => ~IsFlying(q))
      /\ (IsInFlight(q) /\ q.source = "tracker" => IsFlying(q))
      /\ (IsVacant(conn[s]) => ~IsWaiting(conn[s]))
  BY KindCounts
<1> DEFINE o == Cardinality(Open)
           f == Cardinality(Flying)
           b == Cardinality(Failing)
           w == Cardinality(Waiting)
<1>3. /\ o \in 0 .. PoolSize /\ f \in 0 .. PoolSize /\ b \in 0 .. PoolSize
      /\ w \in 0 .. PoolSize /\ w' \in 0 .. PoolSize
      /\ o' = o + Unit(IsOpen(q)) - Unit(IsOpen(conn[s]))
      /\ f' = f + Unit(IsFlying(q)) - Unit(IsFlying(conn[s]))
      /\ b' = b + Unit(IsFailing(q)) - Unit(IsFailing(conn[s]))
      /\ w' = w + Unit(IsWaiting(q)) - Unit(IsWaiting(conn[s]))
  BY <1>1, RecordMove
<1> HIDE DEF o, f, b, w
<1>4. /\ o' = o /\ b' = b /\ f' = f + Unit(IsFlying(q)) /\ w' = w - Unit(IsWaiting(conn[s]))
      /\ {o, f, b, w, w'} \subseteq Nat
  BY <1>1, <1>2, <1>3 DEF Unit
<1>5. OutboundInv => OutboundInv'
  BY <1>4 DEF OutboundInv, o
<1>6. ASSUME InboundInv PROVE InboundInv'
  <2>1. /\ statistics.inbound = f /\ f < MaxInbound /\ statistics.failed = b
        /\ statistics.retry = w /\ w = Len(retry_queue)
        /\ \A t \in Slots : conn[t].source # "tcp_server"
        /\ \A h \in Queued : generation[h[1]] = h[2]
    BY <1>6 DEF InboundInv, f, b, w
  <2>2. /\ statistics'.inbound = f' /\ f' <= MaxInbound
        /\ loop' \in Handlers => statistics'.inbound < MaxInbound
    <3>1. CASE IsVacant(q) /\ statistics'.inbound = statistics.inbound
      BY <1>1, <1>2, <1>4, <2>1, <3>1 DEF Unit
    <3>2. CASE /\ IsInFlight(q) /\ q.source = "tracker" /\ loop' \notin Handlers
               /\ statistics'.inbound = Inc(statistics.inbound)
      <4>1. f < SizeMax
        BY <1>1, <1>4, <2>1, SizeMaxAssumption
      <4>2. Inc(f) = f + 1
        BY <1>4, <4>1, CounterSteps
      <4>3. QED
        BY <1>1, <1>2, <1>4, <2>1, <3>2, <4>2 DEF Unit
    <3>3. QED
      BY <3>1, <3>2
  <2>3. /\ statistics'.retry = w' /\ w' = Len(retry_queue')
        /\ \A h \in Queued' : generation'[h[1]] = h[2]
    <3>1. CASE /\ IsVacant(conn[s]) /\ statistics'.retry = statistics.retry
               /\ UNCHANGED retry_queue
      <4>1. w' = w
        BY <1>2, <1>4, <3>1 DEF Unit
      <4>2. generation' = generation \/ generation' = Released(s)
        OBVIOUS
      <4>3. \A h \in Queued' : generation'[h[1]] = h[2]
        BY <1>1, <1>2, <2>1, <3>1, <4>2, FreshKept DEF Queued
      <4>4. QED
        BY <2>1, <3>1, <4>1, <4>3
    <3>2. CASE /\ IsWaiting(conn[s]) /\ statistics'.retry = Dec(statistics.retry)
               /\ retry_queue # << >> /\ HandleOf(s) = Head(retry_queue)
               /\ retry_queue' = Tail(retry_queue)
      <4>1. w' = w - 1 /\ w > 0
        BY <1>2, <1>4, <3>2 DEF Unit
      <4>2. statistics'.retry = w'
        BY <1>4, <2>1, <3>2, <4>1, CounterSteps
      <4>3. Len(retry_queue') = Len(retry_queue) - 1
        BY <1>1, <3>2
      <4>4. Queued = Queued' \cup {HandleOf(s)} /\ HandleOf(s) \notin Queued'
        BY <1>1, <3>2, TakenSet DEF Queued
      <4>5. ASSUME NEW h \in Queued' PROVE generation'[h[1]] = h[2]
        <5>1. h \in Queued /\ h # HandleOf(s) /\ h[1] \in Slots /\ h = <<h[1], h[2]>>
              /\ generation[h[1]] = h[2]
          BY <1>1, <2>1, <4>4, HandlesTyped
        <5>2. h[1] # s
          BY <5>1 DEF HandleOf
        <5>3. generation'[h[1]] = generation[h[1]]
          BY <1>1, <5>1, <5>2 DEF Released, RegistryOK
        <5>4. QED
          BY <5>1, <5>3
      <4>6. QED
        BY <2>1, <4>1, <4>2, <4>3, <4>5
    <3>3. QED
      BY <3>1, <3>2
  <2>4. \A t \in Slots : conn'[t].source # "tcp_server"
    <3>1. q.source # "tcp_server"
      BY DEF IsVacant
    <3>2. QED
      BY <1>1, <2>1, <3>1 DEF RegistryOK
  <2>5. QED
    BY <1>4, <2>1, <2>2, <2>3, <2>4 DEF InboundInv, f, b, w
<1>7. QED
  BY <1>5, <1>6

\* The back-off of a failed peer is over.
LEMMA BooksDue ==
  ASSUME PoolIndInv, NEW s \in Slots, IsBackingOff(conn[s]),
         NEW q, IsWaiting(q), conn' = [conn EXCEPT ![s] = q],
         retry_queue' = Append(retry_queue, HandleOf(s)), UNCHANGED <<generation, loop>>,
         UNCHANGED <<statistics.outbound, statistics.inbound>>,
         statistics'.failed = Dec(statistics.failed), statistics'.retry = Inc(statistics.retry)
  PROVE  (OutboundInv => OutboundInv') /\ (InboundInv => InboundInv')
<1>1. TypeOK /\ RegistryOK /\ HandleInv /\ PoolSize \in Nat /\ PoolSize <= SizeMax
      /\ SizeMax \in Nat /\ retry_queue \in Seq(Handle) /\ HandleOf(s) \in Handle
  BY SizesAssumption, SizeMaxAssumption, LimitsAssumption
     DEF PoolIndInv, SlotsInv, IndInv, TypeOK, UpdatesOK, RegistryOK, HandleOf, Handle
<1>2. /\ ~IsOpen(q) /\ ~IsFailing(q) /\ ~IsFlying(q)
      /\ ~IsOpen(conn[s]) /\ IsFailing(conn[s]) /\ ~IsFlying(conn[s]) /\ ~IsWaiting(conn[s])
  BY KindCounts
<1> DEFINE o == Cardinality(Open)
           f == Cardinality(Flying)
           b == Cardinality(Failing)
           w == Cardinality(Waiting)
<1>3. /\ o \in 0 .. PoolSize /\ f \in 0 .. PoolSize /\ b \in 0 .. PoolSize
      /\ w \in 0 .. PoolSize /\ w' \in 0 .. PoolSize /\ b' \in 0 .. PoolSize
      /\ o' = o + Unit(IsOpen(q)) - Unit(IsOpen(conn[s]))
      /\ f' = f + Unit(IsFlying(q)) - Unit(IsFlying(conn[s]))
      /\ b' = b + Unit(IsFailing(q)) - Unit(IsFailing(conn[s]))
      /\ w' = w + Unit(IsWaiting(q)) - Unit(IsWaiting(conn[s]))
  BY <1>1, RecordMove
<1> HIDE DEF o, f, b, w
<1>4. /\ o' = o /\ f' = f /\ b' = b - 1 /\ w' = w + 1
      /\ {o, f, b, w, w'} \subseteq Nat /\ b > 0 /\ w < SizeMax
  BY <1>1, <1>2, <1>3 DEF Unit
<1>5. OutboundInv => OutboundInv'
  BY <1>4 DEF OutboundInv, o
<1>6. ASSUME InboundInv PROVE InboundInv'
  <2>1. /\ statistics.inbound = f /\ statistics.failed = b
        /\ statistics.retry = w /\ w = Len(retry_queue)
        /\ \A t \in Slots : conn[t].source # "tcp_server"
        /\ \A h \in Queued : generation[h[1]] = h[2]
    BY <1>6 DEF InboundInv, f, b, w
  <2>2. statistics'.failed = b'
    BY <1>4, <2>1, CounterSteps
  <2>3. statistics'.retry = w' /\ Len(retry_queue') = w'
    BY <1>1, <1>4, <2>1, CounterSteps
  <2>4. Queued' = Queued \cup {HandleOf(s)}
    BY <1>1, PushedSet DEF Queued
  <2>5. \A h \in Queued' : generation'[h[1]] = h[2]
    BY <2>1, <2>4 DEF HandleOf
  <2>6. \A t \in Slots : conn'[t].source # "tcp_server"
    BY <1>1, <2>1 DEF IsWaiting, RegistryOK
  <2>7. QED
    BY <1>4, <1>6, <2>1, <2>2, <2>3, <2>5, <2>6 DEF InboundInv, f, b, w
<1>7. QED
  BY <1>5, <1>6
------------------------------------------------------------------------------
(* The steps.                                                              *)

BooksNext == (OutboundInv => OutboundInv') /\ (InboundInv => InboundInv')

\* The steps of the other threads, drain_discovered, and the scheduler's head.
LEMMA QuietBooks ==
  ASSUME PoolIndInv,
         \/ \E c \in TrackerContacts : TrackerReports(c)
         \/ TrackerNotifies \/ TransferTakes \/ \E h \in sessions : TransferDisconnects(h)
         \/ DrainBegin \/ DrainPop \/ DrainEnd
         \/ notify_disconnected \/ SchedulerBegin \/ round_robin_establisher_scheduler
  PROVE  BooksNext
<1>1. UNCHANGED <<conn, generation, retry_queue>>
  BY DEF TrackerReports, TrackerNotifies, TransferTakes, TransferDisconnects, DrainBegin,
         DrainPop, DrainEnd, notify_disconnected, SchedulerBegin,
         round_robin_establisher_scheduler, registry
<1>2. UNCHANGED <<statistics.outbound, statistics.inbound, statistics.failed,
                  statistics.retry>>
  <2>1. CASE DrainPop
    <3>1. statistics \in Statistics
      BY DEF PoolIndInv, IndInv, TypeOK
    <3>2. statistics' = [statistics EXCEPT !.cached = IF @ < CacheSize THEN Inc(@) ELSE @]
      BY <2>1 DEF DrainPop
    <3>3. QED
      BY <3>1, <3>2 DEF Statistics
  <2>2. CASE ~DrainPop
    BY <2>2 DEF TrackerReports, TrackerNotifies, TransferTakes, TransferDisconnects,
         DrainBegin, DrainEnd, notify_disconnected, SchedulerBegin,
         round_robin_establisher_scheduler
  <2>3. QED
    BY <2>1, <2>2
<1>3. loop' \in Handlers => loop \in Handlers \/ statistics.inbound < MaxInbound
  BY DEF TrackerReports, TrackerNotifies, TransferTakes, TransferDisconnects, DrainBegin,
         DrainPop, DrainEnd, notify_disconnected, SchedulerBegin, HandlerReturns,
         round_robin_establisher_scheduler, scheduler, Handlers
<1>4. QED
  BY <1>1, <1>2, <1>3, BooksKept DEF BooksNext

\* A handler that found nothing to do.
LEMMA IdleHandlerBooks ==
  ASSUME PoolIndInv, HandlerReturns(FALSE), UNCHANGED <<registry, statistics, retry_queue>>
  PROVE  BooksNext
<1>1. loop' \notin Handlers
  BY DEF HandlerReturns, Handlers
<1>2. QED
  BY <1>1, BooksKept DEF BooksNext, registry

\* discovered_peer_scheduler.
LEMMA DiscoveredBooks ==
  ASSUME PoolIndInv, discovered_peer_scheduler PROVE BooksNext
<1>1. UNCHANGED retry_queue /\ loop \in Handlers
  BY DEF discovered_peer_scheduler, Handlers
<1>2. TypeOK /\ RegistryOK /\ PoolInv /\ statistics \in Statistics
  BY DEF PoolIndInv, SlotsInv, IndInv, TypeOK
<1>3. CASE HandlerReturns(FALSE) /\ UNCHANGED <<registry, statistics>>
  BY <1>1, <1>3, IdleHandlerBooks
<1>4. CASE cache # << >> /\ available # << >>
  <2> DEFINE c  == Last(cache)
             s  == Last(available)
             st == [statistics EXCEPT !.cached = Dec(@)]
             p  == [conn[s] EXCEPT !.contact = c, !.source = "tracker", !.state = "TRANSPORT"]
             reg  == [peers EXCEPT ![c] = s]
             free == Front(available)
  <2>1. s \in Slots /\ s \in Free /\ c \in Contact
    BY <1>2, <1>4, TopOfStack, PoppedSet DEF TypeOK, RegistryOK, ContactsOK, Free, Contact
  <2>2. conn[s] \in PeerConnection /\ IsVacant(conn[s]) /\ ~IsWaiting(conn[s])
    BY <1>2, <2>1, KindsApart DEF RegistryOK, PoolInv
  <2>3. /\ p \in PeerConnection
        /\ \A q \in {Connecting(p), ConnectedAtOnce(p)} : IsInFlight(q) /\ q.source = "tracker"
    <3>1. p = Scheduled(conn[s], c)
      BY Zenon DEF Scheduled
    <3> HIDE DEF p, c, s
    <3>2. QED
      BY <2>1, <2>2, <3>1, TakenKind
  <2>4. \/ /\ generation' = Released(s) /\ statistics' = st
           /\ UNCHANGED <<conn, scheduler>>
        \/ initiate_connect(s, p, st, reg, free)
    BY <1>4, Zenon DEF discovered_peer_scheduler
  <2>5. /\ st.outbound = statistics.outbound /\ st.inbound = statistics.inbound
        /\ st.failed = statistics.failed /\ st.retry = statistics.retry /\ st \in Statistics
    BY <1>2, CountersMoved, CountTyped
  <2> HIDE DEF c, s, st, p, reg, free
  <2>6. CASE /\ generation' = Released(s) /\ statistics' = st
             /\ UNCHANGED <<conn, scheduler>>
    <3>1. UNCHANGED <<statistics.outbound, statistics.inbound, statistics.failed,
                      statistics.retry>>
      BY <2>5, <2>6
    <3>2. QED
      BY <1>1, <2>1, <2>2, <2>6, <3>1, BooksKept DEF scheduler, BooksNext
  <2>7. CASE /\ \E q \in {Connecting(p), ConnectedAtOnce(p)} : conn' = [conn EXCEPT ![s] = q]
             /\ UNCHANGED generation /\ HandlerReturns(TRUE)
             /\ statistics' = [st EXCEPT !.inbound = Inc(@)]
    <3>1. PICK q \in {Connecting(p), ConnectedAtOnce(p)} : conn' = [conn EXCEPT ![s] = q]
      BY <2>7
    <3>2. IsInFlight(q) /\ q.source = "tracker"
      BY <2>3
    <3>3. /\ statistics'.outbound = statistics.outbound
          /\ statistics'.inbound = Inc(statistics.inbound)
          /\ statistics'.failed = statistics.failed /\ statistics'.retry = statistics.retry
      BY <2>5, <2>7, CountersMoved
    <3>4. loop' \notin Handlers
      BY <2>7 DEF HandlerReturns, Handlers
    <3>5. QED
      BY <1>1, <2>1, <2>2, <2>7, <3>1, <3>2, <3>3, <3>4, BooksStarted DEF BooksNext
  <2>8. CASE delete_peer_connection(s, p, reg, free) /\ statistics' = st
    <3>1. conn' = [conn EXCEPT ![s] = Vacant(p.sock)] /\ generation' = Released(s)
      BY <2>8 DEF delete_peer_connection
    <3>2. IsVacant(Vacant(p.sock))
      BY <2>3, VacantKind DEF PeerConnection
    <3>3. QED
      BY <1>1, <2>1, <2>2, <2>5, <2>8, <3>1, <3>2, BooksStarted DEF BooksNext
  <2>9. QED
    <3>1. CASE initiate_connect(s, p, st, reg, free)
      BY <2>7, <2>8, <3>1, InitiateCases
    <3>2. QED
      BY <2>4, <2>6, <3>1
<1>5. QED
  BY <1>3, <1>4, Zenon DEF discovered_peer_scheduler

\* disconnected_peer_scheduler: a connected peer's slot is taken back, and no attempt is
\* started, since its record still holds the descriptor.
LEMMA DisconnectedBooks ==
  ASSUME PoolIndInv, disconnected_peer_scheduler PROVE BooksNext
<1>1. UNCHANGED retry_queue /\ loop \in Handlers
  BY DEF disconnected_peer_scheduler, Handlers
<1>2. TypeOK /\ RegistryOK /\ HandleInv /\ statistics \in Statistics
  BY DEF PoolIndInv, SlotsInv, IndInv, TypeOK
<1>3. CASE HandlerReturns(FALSE) /\ UNCHANGED <<registry, statistics>>
  BY <1>1, <1>3, IdleHandlerBooks
<1>4. CASE disconnects # << >>
  <2> DEFINE h  == Head(disconnects)
             s  == h[1]
             p  == [conn[s] EXCEPT !.state = "DISCONNECTED"]
             q  == [p EXCEPT !.failures = @ + 1]
             st == [statistics EXCEPT !.connected = Dec(@)]
  <2>1. h \in Handle /\ h \in Transfer
    BY <1>2, <1>4, TakenSet DEF TypeOK, UpdatesOK, Transfer
  <2>2. \/ generation[s] # h[2] /\ UNCHANGED <<registry, statistics, scheduler>>
        \/ /\ generation[s] = h[2]
           /\ \/ delete_peer_connection(s, p, peers, available) /\ statistics' = st
                 /\ UNCHANGED scheduler
              \/ initiate_connect(s, q, st, peers, available)
    BY <1>4, Zenon DEF disconnected_peer_scheduler
  <2>3. s \in Slots /\ conn[s] \in PeerConnection
    BY <1>2, <2>1, HandlesTyped DEF RegistryOK
  <2>4. p \in PeerConnection /\ q \in PeerConnection /\ q.sock = conn[s].sock
    <3>1. p \in PeerConnection /\ q \in PeerConnection
      BY <2>3, DisconnectedTyped
    <3>2. p.sock = conn[s].sock
      BY <2>3 DEF PeerConnection
    <3> HIDE DEF p
    <3>3. q.sock = p.sock
      BY <3>1 DEF PeerConnection
    <3>4. QED
      BY <3>1, <3>2, <3>3
  <2>5. /\ st.outbound = statistics.outbound /\ st.inbound = statistics.inbound
        /\ st.failed = statistics.failed /\ st.retry = statistics.retry
    BY <1>2, CountersMoved
  <2> HIDE DEF p, q, st
  <2>6. CASE generation[s] # h[2] /\ UNCHANGED <<registry, statistics, scheduler>>
    BY <1>1, <2>6, BooksKept DEF registry, scheduler, BooksNext
  <2>7. CASE generation[s] = h[2]
    <3>1. IsConnected(conn[s])
      BY <1>2, <2>1, <2>3, <2>7, HandlesTyped DEF HandleInv, HandleOf
    <3>2. /\ UNCHANGED scheduler /\ statistics' = st
          /\ \E r \in {p, q} : delete_peer_connection(s, r, peers, available)
      <4>1. CASE initiate_connect(s, q, st, peers, available)
        <5>1. \/ ~q.sock
              \/ /\ delete_peer_connection(s, q, peers, available) /\ UNCHANGED scheduler
                 /\ statistics' = st
          BY <4>1, InitiateCases
        <5>2. QED
          BY <2>4, <3>1, <5>1 DEF IsConnected
      <4>2. QED
        BY <2>2, <2>7, <4>1
    <3>3. PICK r \in {p, q} : delete_peer_connection(s, r, peers, available)
      BY <3>2
    <3> DEFINE v == Vacant(r.sock)
    <3>4. conn' = [conn EXCEPT ![s] = v] /\ generation' = Released(s)
      BY <3>3 DEF delete_peer_connection
    <3>5. IsVacant(v)
      BY <2>4, VacantKind DEF PeerConnection
    <3> HIDE DEF v
    <3>6. /\ IsOpen(v) <=> IsOpen(conn[s])
          /\ IsFlying(v) <=> IsFlying(conn[s])
          /\ IsFailing(v) <=> IsFailing(conn[s])
          /\ IsWaiting(v) <=> IsWaiting(conn[s])
          /\ ~IsWaiting(conn[s]) /\ v.source # "tcp_server"
      <4>1. v.source # "tcp_server"
        BY <3>5 DEF IsVacant
      <4>2. QED
        BY <3>1, <3>5, <4>1, KindCounts
    <3>7. UNCHANGED <<statistics.outbound, statistics.inbound, statistics.failed,
                      statistics.retry>> /\ UNCHANGED loop
      BY <2>5, <3>2 DEF scheduler
    <3>8. QED
      BY <1>1, <2>3, <3>4, <3>6, <3>7, BooksSame DEF BooksNext
  <2>8. QED
    BY <2>2, <2>6, <2>7
<1>5. QED
  BY <1>3, <1>4, Zenon DEF disconnected_peer_scheduler

\* failed_peer_scheduler retries a waiting peer, gives it up, or drops a stale handle.
LEMMA FailedBooks ==
  ASSUME PoolIndInv, failed_peer_scheduler PROVE BooksNext
<1>1. loop \in Handlers
  BY DEF failed_peer_scheduler, Handlers
<1>2. TypeOK /\ RegistryOK /\ HandleInv /\ statistics \in Statistics
  BY DEF PoolIndInv, SlotsInv, IndInv, TypeOK
<1>3. CASE HandlerReturns(FALSE) /\ UNCHANGED <<registry, statistics, retry_queue>>
  BY <1>3, IdleHandlerBooks
<1>4. CASE retry_queue # << >>
  <2> DEFINE h  == Head(retry_queue)
             s  == h[1]
             st == [statistics EXCEPT !.retry = Dec(@)]
  <2>1. h \in Handle /\ h \in Queued
    BY <1>2, <1>4, TakenSet DEF TypeOK, UpdatesOK, Queued
  <2>2. /\ retry_queue' = Tail(retry_queue)
        /\ \/ generation[s] # h[2] /\ statistics' = st /\ UNCHANGED <<registry, scheduler>>
           \/ generation[s] = h[2] /\ initiate_connect(s, conn[s], st, peers, available)
    BY <1>4, Zenon DEF failed_peer_scheduler
  <2>3. s \in Slots /\ conn[s] \in PeerConnection
    BY <1>2, <2>1, HandlesTyped DEF RegistryOK
  <2>4. /\ st.outbound = statistics.outbound /\ st.inbound = statistics.inbound
        /\ st.failed = statistics.failed /\ st.retry = Dec(statistics.retry)
        /\ st \in Statistics
    BY <1>2, CountersMoved, CountTyped
  <2> HIDE DEF st
  <2>5. CASE generation[s] # h[2] /\ statistics' = st /\ UNCHANGED <<registry, scheduler>>
    <3>1. Open' = Open /\ statistics'.outbound = statistics.outbound
      BY <2>4, <2>5 DEF Open, registry
    <3>2. OutboundInv => OutboundInv'
      BY <3>1 DEF OutboundInv
    <3>3. ~InboundInv
      BY <2>1, <2>5 DEF InboundInv
    <3>4. QED
      BY <3>2, <3>3 DEF BooksNext
  <2>6. CASE generation[s] = h[2] /\ initiate_connect(s, conn[s], st, peers, available)
    <3>1. h = HandleOf(s)
      BY <1>2, <2>1, <2>6, HandlesTyped DEF HandleOf
    <3>2. IsWaiting(conn[s])
      BY <1>2, <2>1, <2>3, <3>1 DEF HandleInv
    <3>3. CASE /\ \E q \in {Connecting(conn[s]), ConnectedAtOnce(conn[s])} :
                    conn' = [conn EXCEPT ![s] = q]
               /\ UNCHANGED generation /\ HandlerReturns(TRUE)
               /\ statistics' = [st EXCEPT !.inbound = Inc(@)]
      <4>1. PICK q \in {Connecting(conn[s]), ConnectedAtOnce(conn[s])} :
              conn' = [conn EXCEPT ![s] = q]
        BY <3>3
      <4>2. IsInFlight(q) /\ q.source = "tracker"
        BY <2>3, <3>2, RetriedKind
      <4>3. /\ statistics'.outbound = statistics.outbound
            /\ statistics'.inbound = Inc(statistics.inbound)
            /\ statistics'.failed = statistics.failed
            /\ statistics'.retry = Dec(statistics.retry)
        BY <2>4, <3>3, CountersMoved
      <4>4. loop' \notin Handlers
        BY <3>3 DEF HandlerReturns, Handlers
      <4>5. QED
        BY <1>1, <1>4, <2>2, <2>3, <3>1, <3>2, <3>3, <4>1, <4>2, <4>3, <4>4, BooksStarted
           DEF BooksNext
    <3>4. CASE delete_peer_connection(s, conn[s], peers, available) /\ statistics' = st
      <4>1. conn' = [conn EXCEPT ![s] = Vacant(conn[s].sock)] /\ generation' = Released(s)
        BY <3>4 DEF delete_peer_connection
      <4>2. IsVacant(Vacant(conn[s].sock))
        BY <2>3, VacantKind DEF PeerConnection
      <4>3. QED
        BY <1>1, <1>4, <2>2, <2>3, <2>4, <3>1, <3>2, <3>4, <4>1, <4>2, BooksStarted
           DEF BooksNext
    <3>5. QED
      BY <2>6, <3>3, <3>4, InitiateCases
  <2>7. QED
    BY <2>2, <2>5, <2>6
<1>5. QED
  BY <1>3, <1>4, Zenon DEF failed_peer_scheduler

\* handle_peer_failure and hard_delete_peer_connection.
LEMMA GiveUpBooks ==
  ASSUME PoolIndInv, NEW s \in Slots, IsInFlight(conn[s]), Idle,
         handle_peer_failure(s) \/ hard_delete_peer_connection(s), UNCHANGED scheduler
  PROVE  BooksNext
<1> DEFINE n  == conn[s].failures + 1
           p  == Closed([conn[s] EXCEPT !.failures = n])
           b  == BackingOff(p)
           d  == Closed(conn[s])
           st == Resolved(statistics, conn[s].source)
<1>1. conn[s] \in PeerConnection /\ n \in Nat /\ statistics \in Statistics
  BY DEF PoolIndInv, IndInv, TypeOK, RegistryOK, PeerConnection
<1>2. p \in PeerConnection /\ d \in PeerConnection
  BY <1>1, PeerTyped
<1>3. conn[s].source # "tcp_server" => IsBackingOff(b)
  BY <1>1, FailedKind, Zenon
<1>4. st \in Statistics
  BY <1>1, ResolvedStatistics
<1>5. UNCHANGED <<retry_queue, loop>> /\ loop \notin Handlers
  BY Zenon DEF handle_peer_failure, hard_delete_peer_connection, scheduler, Idle, Handlers
<1>6. \/ /\ \E r \in {p, d} : delete_peer_connection(s, r, peers, available)
         /\ statistics' = st
      \/ /\ conn[s].source # "tcp_server" /\ conn' = [conn EXCEPT ![s] = b]
         /\ statistics' = [st EXCEPT !.failed = Inc(@)] /\ UNCHANGED generation
  BY Zenon DEF handle_peer_failure, hard_delete_peer_connection
<1> HIDE DEF n, p, b, d, st
<1>7. CASE /\ \E r \in {p, d} : delete_peer_connection(s, r, peers, available)
           /\ statistics' = st
  <2>1. PICK r \in {p, d} : delete_peer_connection(s, r, peers, available)
    BY <1>7
  <2>2. conn' = [conn EXCEPT ![s] = Vacant(r.sock)] /\ generation' = Released(s)
    BY <2>1 DEF delete_peer_connection
  <2>3. IsVacant(Vacant(r.sock))
    BY <1>2, VacantKind DEF PeerConnection
  <2>4. QED
    BY <1>4, <1>5, <1>7, <2>2, <2>3, BooksResolved DEF BooksNext, st
<1>8. CASE /\ conn[s].source # "tcp_server" /\ conn' = [conn EXCEPT ![s] = b]
           /\ statistics' = [st EXCEPT !.failed = Inc(@)] /\ UNCHANGED generation
  <2>1. /\ statistics'.outbound = st.outbound /\ statistics'.inbound = st.inbound
        /\ statistics'.retry = st.retry /\ statistics'.failed = Inc(st.failed)
    BY <1>4, <1>8, CountersMoved
  <2>2. QED
    BY <1>3, <1>4, <1>5, <1>8, <2>1, BooksResolved DEF BooksNext, st
<1>9. QED
  BY <1>6, <1>7, <1>8

\* handle_peer_connection_and_dispatch.
LEMMA DispatchBooks ==
  ASSUME PoolIndInv, NEW s \in Slots, IsInFlight(conn[s]), Idle, UNCHANGED loop,
         NEW p, IsConnected(Connected(p)), p.source = conn[s].source,
         Connected(p).source = conn[s].source,
         handle_peer_connection_and_dispatch(s, p)
  PROVE  BooksNext
<1> DEFINE q  == Connected(p)
           st == Resolved(statistics, conn[s].source)
<1>1. st \in Statistics
  BY ResolvedStatistics DEF PoolIndInv, IndInv, TypeOK
<1>2. /\ conn' = [conn EXCEPT ![s] = q] /\ UNCHANGED <<generation, retry_queue>>
      /\ statistics' = [st EXCEPT !.connected = Inc(@)]
  BY DEF handle_peer_connection_and_dispatch
<1>3. loop \notin Handlers
  BY DEF Idle, Handlers
<1> HIDE DEF q, st
<1>4. /\ statistics'.outbound = st.outbound /\ statistics'.inbound = st.inbound
      /\ statistics'.retry = st.retry /\ statistics'.failed = st.failed
  BY <1>1, <1>2, CountersMoved
<1>5. QED
  BY <1>1, <1>2, <1>3, <1>4, BooksResolved DEF BooksNext, q, st

\* A callback that changes one record in flight and nothing else.
LEMMA FlightBooks ==
  ASSUME PoolIndInv, NEW s \in Slots, IsInFlight(conn[s]),
         NEW p, IsInFlight(p), p.source = conn[s].source,
         conn' = [conn EXCEPT ![s] = p], UNCHANGED <<generation, retry_queue, statistics, loop>>
  PROVE  BooksNext
<1>1. conn[s].source \in {"tracker", "tcp_server"}
  BY DEF IsInFlight, PoolIndInv, IndInv, TypeOK, RegistryOK, PeerConnection
<1>2. /\ IsOpen(p) <=> IsOpen(conn[s])
      /\ IsFlying(p) <=> IsFlying(conn[s])
      /\ IsFailing(p) <=> IsFailing(conn[s])
      /\ IsWaiting(p) <=> IsWaiting(conn[s])
  BY <1>1, KindCounts
<1>3. QED
  BY <1>2, BooksSame DEF BooksNext

\* Being connected does not change where a peer came from.
LEMMA ConnectedSource ==
  ASSUME NEW p \in PeerConnection
  PROVE  Connected(p).source = p.source
BY DEF Connected, PeerConnection

\* peer_socket_callback.
LEMMA SocketBooks ==
  ASSUME PoolIndInv, NEW s \in Slots, peer_socket_callback(s) PROVE BooksNext
<1>1. conn[s] \in PeerConnection /\ TypeOK /\ PoolInv
  BY DEF PoolIndInv, SlotsInv, IndInv, TypeOK, RegistryOK
<1>2. Idle /\ conn[s].watch # "none" /\ UNCHANGED scheduler
  BY Zenon DEF peer_socket_callback, SocketAtQuota, SocketFails, Ready, HandshakeInvalid,
         handle_peer_transport_level_initiations, HandshakeFlushed, HandshakeValid
<1>3. IsInFlight(conn[s]) /\ UNCHANGED loop
  BY <1>1, <1>2, WatchedKind DEF scheduler
<1>4. CASE SocketAtQuota(s) \/ SocketFails(s) \/ HandshakeInvalid(s)
  BY <1>2, <1>3, <1>4, GiveUpBooks DEF SocketAtQuota, SocketFails, HandshakeInvalid
<1>5. CASE handle_peer_transport_level_initiations(s)
  <2>1. PICK sent \in BOOLEAN : conn' = [conn EXCEPT ![s] = Offered(conn[s], sent)]
    BY <1>5, Zenon DEF handle_peer_transport_level_initiations
  <2>2. /\ conn[s].state = "TRANSPORT" /\ UNCHANGED <<generation, retry_queue, statistics>>
    BY <1>3, <1>5 DEF handle_peer_transport_level_initiations, IsInFlight
  <2>3. IsInFlight(Offered(conn[s], sent)) /\ Offered(conn[s], sent).source = "tracker"
    BY <1>1, <1>3, <2>2, HandshakeKind, Zenon
  <2>4. conn[s].source = "tracker"
    BY <1>1, <1>3, <2>2 DEF IsInFlight, PeerConnection
  <2>5. QED
    BY <1>3, <2>1, <2>2, <2>3, <2>4, FlightBooks
<1>6. CASE HandshakeFlushed(s)
  <2> DEFINE p == Flushed(conn[s])
             q == [p EXCEPT !.watch = "READ"]
  <2>1. /\ conn[s].state = "HANDSHAKE"
        /\ \/ /\ conn' = [conn EXCEPT ![s] = q] /\ conn[s].source = "tracker"
              /\ UNCHANGED <<generation, statistics, retry_queue>>
           \/ handle_peer_connection_and_dispatch(s, p)
    BY <1>6, Zenon DEF HandshakeFlushed, Ready
  <2>2. IsConnected(Connected(p)) /\ p.source = conn[s].source /\ p \in PeerConnection
    BY <1>1, <1>3, ConnectedKind, HandshakeTyped, Zenon
  <2>3. conn[s].source = "tracker" => IsInFlight(q) /\ q.source = conn[s].source
    BY <1>1, <1>3, <2>1, HandshakeKind, Zenon
  <2> HIDE DEF p, q
  <2>4. CASE handle_peer_connection_and_dispatch(s, p)
    BY <1>2, <1>3, <2>2, <2>4, ConnectedSource, DispatchBooks
  <2>5. CASE /\ conn' = [conn EXCEPT ![s] = q] /\ conn[s].source = "tracker"
             /\ UNCHANGED <<generation, statistics, retry_queue>>
    BY <1>3, <2>3, <2>5, FlightBooks
  <2>6. QED
    BY <2>1, <2>4, <2>5
<1>7. CASE HandshakeValid(s)
  <2> DEFINE p == [conn[s] EXCEPT !.outgoing = "sent"]
             q == [conn[s] EXCEPT !.outgoing = "partial", !.watch = "WRITE"]
  <2>1. /\ conn[s].state = "HANDSHAKE"
        /\ \/ handle_peer_connection_and_dispatch(s, conn[s])
           \/ handle_peer_connection_and_dispatch(s, p)
           \/ /\ conn' = [conn EXCEPT ![s] = q] /\ conn[s].source = "tcp_server"
              /\ UNCHANGED <<generation, statistics, retry_queue>>
    BY <1>7, Zenon DEF HandshakeValid, Ready
  <2>2. /\ IsConnected(Connected(p)) /\ p.source = conn[s].source /\ p \in PeerConnection
        /\ IsConnected(Connected(conn[s]))
    BY <1>1, <1>3, ConnectedKind, HandshakeTyped, Zenon
  <2>3. conn[s].source = "tcp_server" => IsInFlight(q) /\ q.source = conn[s].source
    BY <1>1, <1>3, <2>1, HandshakeKind, Zenon
  <2> HIDE DEF p, q
  <2>4. CASE handle_peer_connection_and_dispatch(s, conn[s])
    BY <1>1, <1>2, <1>3, <2>2, <2>4, ConnectedSource, DispatchBooks
  <2>5. CASE handle_peer_connection_and_dispatch(s, p)
    BY <1>2, <1>3, <2>2, <2>5, ConnectedSource, DispatchBooks
  <2>6. CASE /\ conn' = [conn EXCEPT ![s] = q] /\ conn[s].source = "tcp_server"
             /\ UNCHANGED <<generation, statistics, retry_queue>>
    BY <1>3, <2>3, <2>6, FlightBooks
  <2>7. QED
    BY <2>1, <2>4, <2>5, <2>6
<1>8. QED
  BY <1>4, <1>5, <1>6, <1>7 DEF peer_socket_callback

\* peer_timer_callback.
LEMMA TimerBooks ==
  ASSUME PoolIndInv, NEW s \in Slots, peer_timer_callback(s) PROVE BooksNext
<1>1. /\ conn[s] \in PeerConnection /\ TypeOK /\ PoolInv /\ statistics \in Statistics
  BY DEF PoolIndInv, SlotsInv, IndInv, TypeOK, RegistryOK
<1>2. Idle /\ conn[s].timer /\ UNCHANGED scheduler
  BY Zenon DEF peer_timer_callback
<1>3. CASE conn[s].state # "FAILED" /\ handle_peer_failure(s)
  <2>1. IsInFlight(conn[s])
    BY <1>1, <1>2, <1>3, WatchedKind
  <2>2. QED
    BY <1>2, <1>3, <2>1, GiveUpBooks
<1>4. CASE /\ conn[s].state = "FAILED"
           /\ conn' = [conn EXCEPT ![s] = RetryDue(conn[s])]
           /\ retry_queue' = Append(retry_queue, <<s, generation[s]>>)
           /\ statistics' = [statistics EXCEPT !.failed = Dec(@), !.retry = Inc(@)]
           /\ UNCHANGED generation
  <2> DEFINE q == RetryDue(conn[s])
  <2>1. IsBackingOff(conn[s])
    BY <1>1, <1>2, <1>4, WatchedKind
  <2>2. IsWaiting(q)
    <3>1. 0 \in Nat
      OBVIOUS
    <3>2. QED
      BY <1>1, <2>1, <3>1, FailedKind, Zenon
  <2>3. conn' = [conn EXCEPT ![s] = q] /\ retry_queue' = Append(retry_queue, HandleOf(s))
    BY <1>4 DEF HandleOf
  <2> HIDE DEF q
  <2>4. /\ UNCHANGED <<statistics.outbound, statistics.inbound>>
        /\ statistics'.failed = Dec(statistics.failed)
        /\ statistics'.retry = Inc(statistics.retry)
    BY <1>1, <1>4, CountersMoved
  <2>5. UNCHANGED loop
    BY <1>2 DEF scheduler
  <2>6. QED
    BY <1>4, <2>1, <2>2, <2>3, <2>4, <2>5, BooksDue DEF BooksNext
<1>5. QED
  BY <1>3, <1>4, Zenon DEF peer_timer_callback

\* server_socket_callback keeps its own counter exact, a peer that connects again while
\* its earlier connection is still in its handshake included.
LEMMA AcceptBooks ==
  ASSUME PoolIndInv, OutboundInv, NEW c \in AcceptContacts, accept_peer_connection(c)
  PROVE  OutboundInv'
<1>1. TypeOK /\ RegistryOK /\ PoolInv /\ c \in Contact /\ statistics \in Statistics
  BY DEF PoolIndInv, SlotsInv, IndInv, TypeOK, Contact
<1> DEFINE n == Cardinality(Open)
<1>2. /\ statistics.outbound = n /\ statistics.outbound < MaxOutbound
      /\ MaxOutbound \in Nat /\ MaxOutbound <= SizeMax /\ n \in Nat /\ SizeMax \in Nat
      /\ PoolSize \in Nat
  BY <1>1, SizesAssumption, SizeMaxAssumption, LimitsAssumption
     DEF OutboundInv, accept_peer_connection, AcceptRefused, AcceptNew, AcceptReplacing,
         CanAccept, Statistics, Counter
<1>3. Inc(n) = n + 1 /\ Dec(n + 1) = n
  <2>1. n < SizeMax /\ n + 1 \in Nat /\ n + 1 > 0 /\ n + 1 - 1 = n
    BY <1>2
  <2>2. Inc(n) = n + 1 /\ Dec(n + 1) = n + 1 - 1
    BY <1>2, <2>1, CounterSteps
  <2>3. QED
    BY <2>1, <2>2
<1>4. CASE AcceptRefused(c)
  BY <1>4 DEF AcceptRefused, registry, OutboundInv, Open
<1>5. ASSUME available # << >>
      PROVE  /\ Last(available) \in Slots /\ Last(available) \in Free
             /\ IsVacant(conn[Last(available)]) /\ ~IsOpen(conn[Last(available)])
             /\ LET a == AcceptedPeer(Last(available), c) IN
                  IsInFlight(a) /\ a.contact = c /\ IsOpen(a)
  <2>1. Last(available) \in Slots /\ Last(available) \in Free
    BY <1>1, <1>5, TopOfStack, PoppedSet DEF RegistryOK, Free
  <2>2. conn[Last(available)] \in PeerConnection /\ IsVacant(conn[Last(available)])
    BY <1>1, <2>1 DEF RegistryOK, PoolInv
  <2>3. AcceptedPeer(Last(available), c) = Accepted(conn[Last(available)], c)
    BY Zenon DEF AcceptedPeer, Accepted
  <2>4. QED
    BY <1>1, <2>1, <2>2, <2>3, TakenKind, KindCounts
<1>6. CASE AcceptNew(c)
  <2> DEFINE s == Last(available)
             a == AcceptedPeer(s, c)
  <2>1. /\ conn' = [conn EXCEPT ![s] = a] /\ available # << >>
        /\ statistics' = [statistics EXCEPT !.outbound = Inc(@)]
    BY <1>6, Zenon DEF AcceptNew
  <2>2. IsOpen(a) /\ ~IsOpen(conn[s]) /\ s \in Slots
    BY <1>5, <2>1
  <2> HIDE DEF s, a
  <2>3. n' = n + Unit(IsOpen(a)) - Unit(IsOpen(conn[s]))
    BY <1>1, <2>1, <2>2, RecordMove
  <2> HIDE DEF n
  <2>4. n' = n + 1
    BY <1>2, <2>2, <2>3 DEF Unit
  <2>5. statistics'.outbound = n + 1
    BY <1>1, <1>2, <1>3, <2>1, CountersMoved
  <2>6. n + 1 <= MaxOutbound
    BY <1>2
  <2>7. QED
    BY <2>4, <2>5, <2>6 DEF OutboundInv, n
<1>7. CASE AcceptReplacing(c)
  <2> DEFINE s    == Last(available)
             a    == AcceptedPeer(s, c)
             o    == peers[c]
             busy == conn[o].state = "CONNECTED"
             held == busy /\ conn[o].sock
             v    == Vacant(held)
             st   == [statistics EXCEPT !.outbound = Inc(@)]
  <2>1. /\ conn' = [conn EXCEPT ![s] = a, ![o] = v]
        /\ peers' = [peers EXCEPT ![c] = s]
        /\ available' = Append(Front(available), o)
        /\ available # << >> /\ peers[c] # NoSlot
        /\ statistics' = IF busy THEN st ELSE Resolved(st, conn[o].source)
    BY <1>7, Zenon DEF AcceptReplacing
  <2>2. IsInFlight(a) /\ a.contact = c /\ IsOpen(a) /\ ~IsOpen(conn[s])
    BY <1>5, <2>1
  <2>3. IsVacant(v) /\ o \in Slots
    <3>1. o \in Slots
      BY <1>1, <2>1, RegisteredSlot
    <3>2. conn[o].sock \in BOOLEAN
      BY <1>1, <3>1 DEF RegistryOK, PeerConnection
    <3>3. held \in BOOLEAN
      BY <3>2, Zenon
    <3>4. QED
      BY <3>1, <3>3, VacantKind
  <2>4. st \in Statistics /\ st.outbound = n + 1
    <3>1. st \in Statistics /\ st.outbound = Inc(statistics.outbound)
      BY <1>1, CountTyped, CountersMoved
    <3>2. QED
      BY <1>2, <1>3, <3>1, Zenon
  <2> HIDE DEF a, v, held, st
  <2>5. /\ s \in Slots /\ s # o /\ o \notin Free
        /\ \A t \in Slots : conn'[t] = IF t = o THEN v ELSE IF t = s THEN a ELSE conn[t]
    BY <1>1, <2>1, <2>2, <2>3, PoolReplace DEF Occupied
  <2>6. /\ busy => ~IsOpen(conn[o])
        /\ ~busy => (IsOpen(conn[o]) <=> conn[o].source = "tcp_server")
    <3>1. Occupied(conn[o])
      BY <1>1, <2>3, <2>5 DEF PoolInv
    <3>2. QED
      BY <3>1 DEF Occupied, IsInFlight, IsBackingOff, IsWaiting, IsConnected, IsOpen
  <2>7. n' = n + 1 - Unit(IsOpen(conn[o]))
    <3> HIDE DEF s, o
    <3> DEFINE Mid == Open \cup {s}
    <3>1. ~IsOpen(v)
      BY <2>3, KindCounts
    <3>2. Open' = {t \in Slots : IsOpen(conn'[t])}
      BY DEF Open
    <3>3. /\ Open \subseteq Slots /\ Mid \subseteq Slots /\ Open' \subseteq Slots
          /\ s \notin Open /\ s \in Mid /\ Open \ {s} = Mid \ {s}
      BY <2>2, <2>5, <3>2 DEF Open
    <3>4. /\ Mid \ {o} = Open' \ {o} /\ o \notin Open'
          /\ (o \in Mid <=> IsOpen(conn[o]))
      BY <2>2, <2>3, <2>5, <3>1, <3>2 DEF Open
    <3> HIDE DEF Mid
    <3>5. Cardinality(Mid) = n + 1
      BY <1>2, <2>5, <3>3, CountMove DEF Unit
    <3>6. Cardinality(Open') = Cardinality(Mid) - Unit(IsOpen(conn[o]))
          /\ Cardinality(Mid) \in 0 .. PoolSize
      <4>1. /\ Cardinality(Open') =
                 Cardinality(Mid) + Unit(o \in Open') - Unit(o \in Mid)
            /\ Cardinality(Mid) \in 0 .. PoolSize
        BY <2>3, <3>3, <3>4, CountMove
      <4>2. QED
        BY <1>2, <3>4, <4>1 DEF Unit
    <3>7. n' = Cardinality(Open')
      OBVIOUS
    <3> HIDE DEF n
    <3>8. QED
      BY <1>2, <3>5, <3>6, <3>7 DEF Unit
  <2>8. statistics'.outbound = n'
    <3> HIDE DEF n, o
    <3>1. CASE busy \/ conn[o].source # "tcp_server"
      <4>1. statistics'.outbound = n + 1
        BY <2>1, <2>4, <3>1, CountersMoved
      <4>2. n' = n + 1
        BY <1>2, <2>6, <2>7, <3>1 DEF Unit
      <4>3. QED
        BY <4>1, <4>2
    <3>2. CASE ~busy /\ conn[o].source = "tcp_server"
      <4>1. statistics'.outbound = n
        BY <1>3, <2>1, <2>4, <3>2, CountersMoved
      <4>2. n' = n
        BY <1>2, <2>6, <2>7, <3>2 DEF Unit
      <4>3. QED
        BY <4>1, <4>2
    <3>3. QED
      BY <3>1, <3>2
  <2> HIDE DEF n
  <2>9. n' <= MaxOutbound
    BY <1>2, <2>7 DEF Unit
  <2>10. QED
    BY <2>8, <2>9 DEF OutboundInv, n
<1>8. QED
  BY <1>4, <1>6, <1>7 DEF accept_peer_connection

\* The cache and its counter move together.
LEMMA NextCache ==
  ASSUME PoolIndInv, CacheInv, [Next]_vars PROVE CacheInv'
<1>1. /\ statistics \in Statistics /\ cache \in Seq(TrackerContacts) /\ Len(cache) \in Nat
      /\ Len(cache) <= CacheSize /\ CacheSize \in Nat /\ CacheSize < SizeMax
      /\ SizeMax \in Nat /\ discoveries \in Seq(TrackerContacts) /\ TypeOK
  BY SizesAssumption, SizeMaxAssumption DEF PoolIndInv, IndInv, TypeOK, ContactsOK
<1>2. ASSUME UNCHANGED cache, statistics'.cached = statistics.cached PROVE CacheInv'
  BY <1>2 DEF CacheInv
<1>3. CASE DrainPop
  <2> DEFINE longer == Append(cache, Head(discoveries))
  <2>1. /\ cache' = IF Len(cache) < CacheSize THEN longer ELSE Tail(longer)
        /\ statistics' = [statistics EXCEPT !.cached = IF @ < CacheSize THEN Inc(@) ELSE @]
    BY <1>3 DEF DrainPop
  <2>2. longer \in Seq(TrackerContacts) /\ Len(longer) = Len(cache) + 1 /\ longer # << >>
    <3>1. Head(discoveries) \in TrackerContacts
      BY <1>1, <1>3, TakenSet DEF DrainPop
    <3>2. QED
      BY <1>1, <3>1
  <2>3. Len(Tail(longer)) = Len(cache)
    BY <1>1, <2>2
  <2> HIDE DEF longer
  <2>4. statistics'.cached = IF Len(cache) < CacheSize THEN Inc(Len(cache)) ELSE Len(cache)
    BY <1>1, <2>1 DEF CacheInv, Statistics
  <2>5. Len(cache) < CacheSize => Inc(Len(cache)) = Len(cache) + 1
    BY <1>1, CounterSteps
  <2>6. QED
    BY <2>1, <2>2, <2>3, <2>4, <2>5 DEF CacheInv
<1>4. CASE discovered_peer_scheduler
  <2>1. CASE cache = << >>
    BY <1>2, <1>4, <2>1 DEF discovered_peer_scheduler
  <2>2. CASE cache # << >>
    <3> DEFINE st == [statistics EXCEPT !.cached = Dec(@)]
    <3>1. /\ cache' = Front(cache)
          /\ \/ statistics' = st
             \/ \E s, p, reg, free : initiate_connect(s, p, st, reg, free)
      BY <1>4, <2>2, Zenon DEF discovered_peer_scheduler
    <3>2. st \in Statistics /\ st.cached = Dec(statistics.cached)
      BY <1>1, CountTyped, CountersMoved
    <3> HIDE DEF st
    <3>3. statistics'.cached = st.cached
      <4>1. statistics' = st \/ statistics' = [st EXCEPT !.inbound = Inc(@)]
        BY <3>1, InitiateCases
      <4>2. QED
        BY <3>2, <4>1, CountersMoved
    <3>4. Len(cache) > 0 /\ Len(Front(cache)) = Len(cache) - 1
      BY <1>1, <2>2, StackTyped
    <3>5. Dec(Len(cache)) = Len(cache) - 1
      BY <1>1, <3>4, CounterSteps
    <3>6. QED
      BY <3>1, <3>2, <3>3, <3>4, <3>5 DEF CacheInv
  <2>3. QED
    BY <2>1, <2>2
<1>5. ASSUME NEW s \in Slots, handle_peer_failure(s) \/ hard_delete_peer_connection(s)
      PROVE  statistics'.cached = statistics.cached
  <2> DEFINE st == Resolved(statistics, conn[s].source)
  <2>1. st \in Statistics /\ st.cached = statistics.cached
    BY <1>1, ResolvedStatistics, CountersMoved
  <2>2. statistics' = st \/ statistics' = [st EXCEPT !.failed = Inc(@)]
    BY <1>5, Zenon DEF handle_peer_failure, hard_delete_peer_connection
  <2> HIDE DEF st
  <2>3. CASE statistics' = [st EXCEPT !.failed = Inc(@)]
    BY <2>1, <2>3, CountersMoved
  <2>4. QED
    BY <2>1, <2>2, <2>3
<1>6. ASSUME NEW s \in Slots, NEW p, handle_peer_connection_and_dispatch(s, p)
      PROVE  statistics'.cached = statistics.cached
  <2> DEFINE st == Resolved(statistics, p.source)
  <2>1. st \in Statistics /\ st.cached = statistics.cached
    BY <1>1, ResolvedStatistics, CountersMoved
  <2>2. statistics' = [st EXCEPT !.connected = Inc(@)]
    BY <1>6 DEF handle_peer_connection_and_dispatch
  <2> HIDE DEF st
  <2>3. QED
    BY <2>1, <2>2, CountersMoved
<1>7. CASE disconnected_peer_scheduler \/ failed_peer_scheduler
  <2> DEFINE d == [statistics EXCEPT !.connected = Dec(@)]
             r == [statistics EXCEPT !.retry = Dec(@)]
  <2>1. d \in Statistics /\ r \in Statistics /\ d.cached = statistics.cached
        /\ r.cached = statistics.cached
    BY <1>1, CountTyped, CountersMoved
  <2>2. /\ UNCHANGED cache
        /\ \/ statistics' = statistics \/ statistics' = d \/ statistics' = r
           \/ \E s, p, reg, free : initiate_connect(s, p, d, reg, free)
           \/ \E s, p, reg, free : initiate_connect(s, p, r, reg, free)
    <3>1. CASE disconnected_peer_scheduler
      BY <3>1, Zenon DEF disconnected_peer_scheduler, contacts
    <3>2. CASE failed_peer_scheduler
      BY <3>2, Zenon DEF failed_peer_scheduler, contacts
    <3>3. QED
      BY <1>7, <3>1, <3>2
  <2> HIDE DEF d, r
  <2>3. \/ statistics' = statistics \/ statistics' = d \/ statistics' = r
        \/ statistics' = [d EXCEPT !.inbound = Inc(@)]
        \/ statistics' = [r EXCEPT !.inbound = Inc(@)]
    BY <2>2, InitiateCases
  <2>4. /\ [d EXCEPT !.inbound = Inc(@)].cached = d.cached
        /\ [r EXCEPT !.inbound = Inc(@)].cached = r.cached
    BY <2>1, CountersMoved
  <2>5. statistics'.cached = statistics.cached
    BY <2>1, <2>3, <2>4, Zenon
  <2>6. QED
    BY <1>2, <2>2, <2>5
<1>8. ASSUME NEW c \in AcceptContacts, accept_peer_connection(c) PROVE CacheInv'
  <2> DEFINE st == [statistics EXCEPT !.outbound = Inc(@)]
  <2>1. st \in Statistics /\ st.cached = statistics.cached
    BY <1>1, CountTyped, CountersMoved
  <2>2. /\ UNCHANGED cache
        /\ statistics' = statistics \/ statistics' = st \/ \E x : statistics' = Resolved(st, x)
    BY <1>8, Zenon DEF accept_peer_connection, AcceptRefused, AcceptNew, AcceptReplacing, contacts
  <2> HIDE DEF st
  <2>3. QED
    BY <1>2, <2>1, <2>2, CountersMoved
<1>9. ASSUME NEW s \in Slots, peer_socket_callback(s) PROVE CacheInv'
  <2>1. /\ UNCHANGED cache
        /\ \/ UNCHANGED statistics
           \/ handle_peer_failure(s) \/ hard_delete_peer_connection(s)
           \/ \E p : handle_peer_connection_and_dispatch(s, p)
    BY <1>9, Zenon DEF peer_socket_callback, SocketAtQuota, SocketFails, HandshakeFlushed,
         handle_peer_transport_level_initiations, HandshakeInvalid, HandshakeValid, contacts
  <2>2. QED
    BY <1>2, <1>5, <1>6, <2>1
<1>10. ASSUME NEW s \in Slots, peer_timer_callback(s) PROVE CacheInv'
  <2>1. /\ UNCHANGED cache
        /\ \/ handle_peer_failure(s)
           \/ statistics' = [statistics EXCEPT !.failed = Dec(@), !.retry = Inc(@)]
    BY <1>10, Zenon DEF peer_timer_callback, contacts
  <2>2. QED
    BY <1>1, <1>2, <1>5, <2>1, CountersMoved
<1>11. CASE \/ UNCHANGED vars \/ TrackerNotifies \/ TransferTakes
            \/ (\E c \in TrackerContacts : TrackerReports(c))
            \/ (\E h \in sessions : TransferDisconnects(h))
            \/ DrainBegin \/ DrainEnd \/ notify_disconnected \/ SchedulerBegin
            \/ round_robin_establisher_scheduler
  <2>1. UNCHANGED <<cache, statistics>>
    BY <1>11 DEF vars, TrackerNotifies, TransferTakes, TrackerReports, TransferDisconnects,
         DrainBegin, DrainEnd, notify_disconnected, SchedulerBegin,
         round_robin_establisher_scheduler, contacts
  <2>2. QED
    BY <1>2, <2>1
<1>12. QED
  BY <1>3, <1>4, <1>7, <1>8, <1>9, <1>10, <1>11 DEF Next, Due

\* Every step keeps the outbound counter exact.
LEMMA NextOutbound == PoolIndInv /\ OutboundInv /\ [Next]_vars => OutboundInv'
<1> SUFFICES ASSUME PoolIndInv, OutboundInv, [Next]_vars PROVE OutboundInv'
  OBVIOUS
<1>1. CASE UNCHANGED vars
  BY <1>1 DEF vars, registry, OutboundInv, Open
<1>2. CASE \E c \in AcceptContacts : accept_peer_connection(c)
  BY <1>2, AcceptBooks
<1>3. CASE \E s \in Slots : peer_socket_callback(s) \/ peer_timer_callback(s)
  BY <1>3, SocketBooks, TimerBooks DEF BooksNext
<1>4. CASE Due
  BY <1>4, QuietBooks, DiscoveredBooks, DisconnectedBooks, FailedBooks DEF Due, BooksNext
<1>5. CASE \/ (\E c \in TrackerContacts : TrackerReports(c)) \/ TrackerNotifies
           \/ TransferTakes \/ \E h \in sessions : TransferDisconnects(h)
  BY <1>5, QuietBooks DEF BooksNext
<1>6. QED
  BY <1>1, <1>2, <1>3, <1>4, <1>5 DEF Next

\* Without incoming connections every step keeps the scheduler's counters exact.
LEMMA NextInbound ==
  ASSUME AcceptContacts = {}, PoolIndInv, InboundInv, [Next]_vars PROVE InboundInv'
<1>1. CASE UNCHANGED vars
  <2>1. UNCHANGED <<conn, retry_queue, generation, statistics, loop>>
    BY <1>1 DEF vars, registry, scheduler
  <2>2. QED
    BY <2>1, BooksKept
<1>2. CASE \E s \in Slots : peer_socket_callback(s) \/ peer_timer_callback(s)
  BY <1>2, SocketBooks, TimerBooks DEF BooksNext
<1>3. CASE Due
  BY <1>3, QuietBooks, DiscoveredBooks, DisconnectedBooks, FailedBooks DEF Due, BooksNext
<1>4. CASE \/ (\E c \in TrackerContacts : TrackerReports(c)) \/ TrackerNotifies
           \/ TransferTakes \/ \E h \in sessions : TransferDisconnects(h)
  BY <1>4, QuietBooks DEF BooksNext
<1>5. QED
  BY <1>1, <1>2, <1>3, <1>4 DEF Next

\* Initially nothing is counted.
LEMMA InitBooks == Init => OutboundInv /\ InboundInv /\ CacheInv
<1> SUFFICES ASSUME Init PROVE OutboundInv /\ InboundInv /\ CacheInv
  OBVIOUS
<1>1. IsVacant(Fresh) /\ Fresh.source # "tcp_server"
  BY DEF IsVacant, Fresh
<1>2. \A s \in Slots : conn[s] = Fresh
  BY DEF Init
<1>3. Open = {} /\ Flying = {} /\ Failing = {} /\ Waiting = {}
  BY <1>1, <1>2, KindCounts DEF Open, Flying, Failing, Waiting
<1>4. Cardinality({}) = 0
  BY FS_EmptySet
<1>5. /\ statistics.outbound = 0 /\ statistics.inbound = 0 /\ statistics.failed = 0
      /\ statistics.retry = 0 /\ statistics.cached = 0
      /\ loop \notin Handlers /\ retry_queue = << >> /\ cache = << >>
  BY DEF Init, Handlers
<1>6. Queued = {} /\ Len(retry_queue) = 0 /\ Len(cache) = 0
  BY <1>5 DEF Queued, ToSet
<1>7. 0 <= MaxInbound /\ 0 <= MaxOutbound
  BY SizesAssumption
<1>8. QED
  BY <1>1, <1>2, <1>3, <1>4, <1>5, <1>6, <1>7 DEF OutboundInv, InboundInv, CacheInv
------------------------------------------------------------------------------
\* The accept loop's limit is real: outbound_inflight is at all times the number of
\* accepted peers in their handshake and never exceeds max_outbound_inflight, through
\* timeouts, failures, dispatches and peers that connect a second time.
THEOREM OutboundExact == Spec => []OutboundAccounting
<1>1. OutboundInv => OutboundAccounting
  BY Zenon DEF OutboundInv, OutboundAccounting, Open, IsOpen
<1>2. Init => OutboundInv
  BY InitBooks
<1>3. QED
  BY <1>1, <1>2, NextOutbound, PoolInductive, PTL DEF Spec

\* As long as nobody connects to our server socket, inbound_inflight, the failed, the
\* retry and the cached counter are exact, no counter ever wraps around, and the scheduler
\* keeps to max_inbound_inflight.  (With incoming connections the second half fails.)
THEOREM InboundExact ==
  ASSUME AcceptContacts = {} PROVE Spec => []InboundAccounting
<1>1. InboundInv /\ CacheInv => InboundAccounting
  BY Zenon DEF InboundInv, CacheInv, InboundAccounting, Flying, IsFlying, Failing, IsFailing
<1>2. Init => InboundInv /\ CacheInv
  BY InitBooks
<1>3. PoolIndInv /\ InboundInv /\ [Next]_vars => InboundInv'
  BY NextInbound
<1>4. PoolIndInv /\ CacheInv /\ [Next]_vars => CacheInv'
  BY NextCache
<1>5. QED
  BY <1>1, <1>2, <1>3, <1>4, PoolInductive, PTL DEF Spec
==============================================================================
