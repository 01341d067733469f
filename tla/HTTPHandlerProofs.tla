-------------------------- MODULE HTTPHandlerProofs --------------------------
(***************************************************************************)
(* Proofs about HTTPHandler for every set of requests, every set of        *)
(* sockets each may have open, and every number of transfers.              *)
(***************************************************************************)
EXTENDS HTTPHandler, Integers, FiniteSetTheorems, TLAPS

TransfersOK ==
  /\ transfer \in [Requests -> {"none", "running"}]
  /\ serial \in [Requests -> Nat] /\ told \in [Requests -> Nat]
  /\ data \in [Requests -> Seq(Nat)]

\* Between two callbacks no result is unread, a request is owed one answer exactly while
\* its transfer runs, and only a running transfer has a body, all of it its own.
IndInv ==
  /\ TransfersOK
  /\ messages = {}
  /\ AnsweredOnce
  /\ FreshData
  /\ \A r \in Requests : transfer[r] = "none" => data[r] = << >>

\* Initially no transfer was begun.
LEMMA InitIndInv == Init => IndInv
<1> SUFFICES ASSUME Init PROVE IndInv
  OBVIOUS
<1>1. TransfersOK
  BY DEF Init, TransfersOK
<1>2. AnsweredOnce
  BY DEF Init, AnsweredOnce, Added
<1>3. FreshData
  BY DEF Init, FreshData
<1>4. QED
  BY <1>1, <1>2, <1>3 DEF Init, IndInv

\* add_request: the transfer begins with an empty body.
LEMMA AddKeeps ==
  ASSUME IndInv, NEW r \in Requests, add_request(r) PROVE IndInv'
<1>1. /\ TransfersOK /\ transfer[r] = "none" /\ data[r] = << >>
      /\ \A q \in Requests :
           /\ transfer'[q] = IF q = r THEN "running" ELSE transfer[q]
           /\ serial'[q] = IF q = r THEN serial[q] + 1 ELSE serial[q]
      /\ UNCHANGED <<messages, data, told>>
  BY DEF IndInv, TransfersOK, add_request, Added
<1>2. TransfersOK'
  BY <1>1 DEF add_request, TransfersOK
<1>3. AnsweredOnce'
  <2> SUFFICES ASSUME NEW q \in Requests
               PROVE  serial'[q] = told'[q] + (IF transfer'[q] # "none" THEN 1 ELSE 0)
    BY DEF AnsweredOnce, Added
  <2>1. serial[q] = told[q] + (IF transfer[q] # "none" THEN 1 ELSE 0) /\ told[q] \in Nat
    BY <1>1 DEF IndInv, AnsweredOnce, Added, TransfersOK
  <2>2. QED
    BY <1>1, <2>1
<1>4. FreshData'
  <2> SUFFICES ASSUME NEW q \in Requests, NEW i \in DOMAIN data'[q]
               PROVE  data'[q][i] = serial'[q]
    BY DEF FreshData
  <2>1. q # r
    BY <1>1
  <2>2. QED
    BY <1>1, <2>1 DEF IndInv, FreshData
<1>5. \A q \in Requests : transfer'[q] = "none" => data'[q] = << >>
  BY <1>1 DEF IndInv
<1>6. QED
  BY <1>1, <1>2, <1>3, <1>4, <1>5 DEF IndInv

\* A call of libcurl in which transfers go on: the body of one may grow, nobody is told.
LEMMA GoesOnKeeps ==
  ASSUME IndInv, NEW r \in Running, NEW said, NEW timer, GoesOn(r, said, timer)
  PROVE  IndInv'
<1>1. r \in Requests /\ transfer[r] = "running" /\ TransfersOK
  BY DEF Running, IndInv
<1>2. PICK more \in BOOLEAN :
        /\ chk_finished(messages, transfer,
                        IF more THEN [data EXCEPT ![r] = easy_callback(r)] ELSE data)
        /\ UNCHANGED serial
  BY Zenon DEF GoesOn
<1> DEFINE body == IF more THEN [data EXCEPT ![r] = easy_callback(r)] ELSE data
<1>3. messages' = {} /\ transfer' = transfer /\ told' = told
      /\ data' = [q \in Requests |-> body[q]]
  BY <1>1, <1>2 DEF chk_finished, Finished, IndInv, TransfersOK
<1>4. easy_callback(r) \in Seq(Nat) /\ DOMAIN easy_callback(r) = 1 .. Len(data[r]) + 1
      /\ \A i \in DOMAIN easy_callback(r) : easy_callback(r)[i] = serial[r]
  <2>1. data[r] \in Seq(Nat) /\ serial[r] \in Nat
    BY <1>1 DEF TransfersOK
  <2>2. \A i \in 1 .. Len(data[r]) : data[r][i] = serial[r]
    BY <1>1, <2>1 DEF IndInv, FreshData
  <2>3. QED
    BY <2>1, <2>2 DEF easy_callback
<1>5. \A q \in Requests : data'[q] = IF more /\ q = r THEN easy_callback(r) ELSE data[q]
  BY <1>1, <1>3 DEF TransfersOK
<1>6. data' \in [Requests -> Seq(Nat)]
  BY <1>1, <1>3, <1>4, <1>5 DEF TransfersOK
<1>7. TransfersOK' /\ AnsweredOnce'
  BY <1>1, <1>2, <1>3, <1>6 DEF TransfersOK, AnsweredOnce, Added, IndInv
<1>8. FreshData'
  BY <1>2, <1>4, <1>5 DEF FreshData, IndInv
<1>9. \A q \in Requests : transfer'[q] = "none" => data'[q] = << >>
  BY <1>1, <1>3, <1>5 DEF IndInv
<1>10. QED
  BY <1>3, <1>7, <1>8, <1>9 DEF IndInv

\* A call of libcurl in which transfers end: chk_finished reads all results, answers each
\* request once, clears its body and removes its handle.
LEMMA EndKeeps ==
  ASSUME IndInv, NEW ends \in SUBSET Running, NEW said, NEW timer, End(ends, said, timer)
  PROVE  IndInv'
<1>1. /\ TransfersOK /\ ends \subseteq Requests
      /\ \A r \in ends : transfer[r] = "running"
  BY DEF Running, IndInv
<1> DEFINE t == [r \in Requests |-> IF r \in ends THEN "done" ELSE transfer[r]]
<1>2. chk_finished(messages \cup ends, t, data) /\ UNCHANGED serial /\ messages = {}
  BY DEF End, IndInv
<1>3. /\ messages' = {}
      /\ told' = [r \in Requests |-> told[r] + (IF r \in ends THEN 1 ELSE 0)]
      /\ data' = [r \in Requests |-> IF r \in ends THEN << >> ELSE data[r]]
      /\ transfer' = [r \in Requests |-> IF r \in ends THEN "none" ELSE t[r]]
  BY <1>2 DEF chk_finished, Finished, Cleared, Removed
<1>4. \A r \in Requests : transfer'[r] = IF r \in ends THEN "none" ELSE transfer[r]
  BY <1>3
<1>5. TransfersOK'
  <2>1. transfer' \in [Requests -> {"none", "running"}]
    BY <1>1, <1>3, <1>4 DEF TransfersOK
  <2>2. told' \in [Requests -> Nat] /\ serial' \in [Requests -> Nat]
    BY <1>1, <1>2, <1>3 DEF TransfersOK
  <2>3. data' \in [Requests -> Seq(Nat)]
    BY <1>1, <1>3 DEF TransfersOK
  <2>4. QED
    BY <2>1, <2>2, <2>3 DEF TransfersOK
<1> HIDE DEF t
<1>6. AnsweredOnce'
  <2> SUFFICES ASSUME NEW r \in Requests
               PROVE  serial'[r] = told'[r] + (IF transfer'[r] # "none" THEN 1 ELSE 0)
    BY DEF AnsweredOnce, Added
  <2>1. serial[r] = told[r] + (IF transfer[r] # "none" THEN 1 ELSE 0) /\ told[r] \in Nat
    BY <1>1 DEF IndInv, AnsweredOnce, Added, TransfersOK
  <2>2. told'[r] = told[r] + (IF r \in ends THEN 1 ELSE 0)
    BY <1>3
  <2>3. QED
    BY <1>1, <1>2, <1>4, <2>1, <2>2
<1>7. FreshData'
  <2> SUFFICES ASSUME NEW r \in Requests, NEW i \in DOMAIN data'[r]
               PROVE  data'[r][i] = serial'[r]
    BY DEF FreshData
  <2>1. data'[r] = IF r \in ends THEN << >> ELSE data[r]
    BY <1>3
  <2>2. r \notin ends
    BY <2>1
  <2>3. QED
    BY <1>2, <2>1, <2>2 DEF IndInv, FreshData
<1>8. \A r \in Requests : transfer'[r] = "none" => data'[r] = << >>
  BY <1>3, <1>4 DEF IndInv
<1>9. QED
  BY <1>3, <1>5, <1>6, <1>7, <1>8 DEF IndInv

\* The invariant is inductive: every libev callback leaves it as it found it.
LEMMA Inductive == Spec => []IndInv
<1>1. IndInv /\ [Next]_vars => IndInv'
  <2> SUFFICES ASSUME IndInv, [Next]_vars PROVE IndInv'
    OBVIOUS
  <2>1. CASE \E r \in Requests : add_request(r)
    BY <2>1, AddKeeps
  <2>2. CASE drive_timer
    BY <2>2, GoesOnKeeps, EndKeeps DEF drive_timer
  <2>3. CASE \E r \in Running : drive_sockt(r)
    BY <2>3, GoesOnKeeps, EndKeeps DEF drive_sockt
  <2>4. CASE UNCHANGED vars
    BY <2>4 DEF vars, curl, ours, IndInv, TransfersOK, AnsweredOnce, FreshData, Added
  <2>5. QED
    BY <2>1, <2>2, <2>3, <2>4 DEF Next
<1>2. QED
  BY <1>1, InitIndInv, PTL DEF Spec
------------------------------------------------------------------------------
\* chk_finished answers every transfer that leaves the multi handle exactly once, however
\* many end in the same call of libcurl and whichever watcher led to it.
THEOREM AnswersExact == Spec => []AnsweredOnce
<1>1. IndInv => AnsweredOnce
  BY DEF IndInv
<1>2. QED
  BY <1>1, Inductive, PTL

\* easy_callback appends to what is in user_space.data; yet no owner is ever given a body
\* with something of an earlier transfer in it, because chk_finished clears it in the same
\* step in which the handle becomes free to be added again.
THEOREM BodiesFresh == Spec => []FreshData
<1>1. IndInv => FreshData
  BY DEF IndInv
<1>2. QED
  BY <1>1, Inductive, PTL
------------------------------------------------------------------------------
(* The watchers.                                                           *)

\* What set_socket and remove_socket leave after a callback for socket s.
Seen(next, s) ==
  IF next[s] = {} THEN Stopped
  ELSE [fd |-> s, events |-> IF "in" \in next[s] THEN {"in"} ELSE {"out"}]

\* Of several callbacks in one call of libcurl the last one decides: the fold over them
\* has a closed form.
LEMMA WatchedLast ==
  ASSUME NEW watcher, NEW next, NEW S, NEW order \in Seq(S)
  PROVE  /\ order = << >> => Watched(watcher, next, order) = watcher
         /\ order # << >> =>
              Watched(watcher, next, order) = Seen(next, order[Len(order)])
<1> DEFINE D == DOMAIN order
           Step(f) == [d \in SUBSET D |-> IF d = {} THEN watcher
                        ELSE socket_callback(order[Max(d)], next[order[Max(d)]], f[d \ {Max(d)}])]
           g == [d \in SUBSET D |-> IF d = {} THEN watcher ELSE Seen(next, order[Max(d)])]
           h == CHOOSE f : f = Step(f)
<1>1. Watched(watcher, next, order) = h[D]
  BY Zenon DEF Watched, FoldLeft, MapThenFoldSet
<1>2. \A s, w : socket_callback(s, next[s], w) = Seen(next, s)
  BY DEF socket_callback, set_socket, remove_socket, Seen
<1>3. \A f : Step(f) = g
  BY <1>2
<1>4. h = g
  <2> HIDE DEF Step, g
  <2>1. QED
    BY <1>3
<1>5. h[D] = IF D = {} THEN watcher ELSE Seen(next, order[Max(D)])
  BY <1>4
<1>6. D = 1 .. Len(order) /\ Len(order) \in Nat
  OBVIOUS
<1>7. order # << >> => Max(D) = Len(order)
  BY <1>6 DEF Max
<1>8. D = {} <=> order = << >>
  <2>1. Len(order) = 0 <=> order = << >>
    OBVIOUS
  <2> HIDE DEF D
  <2>2. Len(order) = 0 => D = {}
    BY <1>6
  <2>3. Len(order) # 0 => 1 \in D
    BY <1>6
  <2>4. QED
    BY <2>1, <2>2, <2>3
<1> HIDE DEF D, h
<1>9. order = << >> => Watched(watcher, next, order) = watcher
  BY <1>1, <1>5, <1>8
<1>10. order # << >> => Watched(watcher, next, order) = Seen(next, order[Len(order)])
  BY <1>1, <1>5, <1>7, <1>8
<1>11. QED
  BY <1>9, <1>10

\* The callbacks of one call of libcurl: each changed socket has one.
LEMMA OrdersCover ==
  ASSUME NEW T, IsFiniteSet(T), NEW order \in SetToSeqs(T) \cup {SetToSeq(T)}
  PROVE  /\ order \in Seq(T) /\ (order = << >> <=> T = {})
         /\ order # << >> => order[Len(order)] \in T
<1> DEFINE n == Cardinality(T)
<1>1. n \in Nat /\ (n = 0 <=> T = {})
  BY FS_CardinalityType, FS_EmptySet
<1>2. \E f \in [1 .. n -> T] : IsInjective(f)
  BY FS_CardinalityType DEF ExistsBijection, Bijection, Injection
<1>3. SetToSeq(T) \in [1 .. n -> T]
  BY <1>2 DEF SetToSeq
<1>4. order \in [1 .. n -> T]
  BY <1>3 DEF SetToSeqs
<1> HIDE DEF n
<1>5. order \in Seq(T) /\ Len(order) = n
  BY <1>1, <1>4
<1>6. order = << >> <=> n = 0
  BY <1>5
<1>7. QED
  BY <1>1, <1>4, <1>5, <1>6

\* One watcher w agrees with the sockets p of a transfer, of which c says whether it has
\* had two at once.
Agrees(w, p, S, c) ==
  /\ w.events # {} => w.fd \in S /\ p[w.fd] # {}
  /\ ~c => \A s \in S : p[s] # {} => w.fd = s /\ w.events \cap p[s] # {}

\* socket_callback keeps a watcher in agreement as long as sockets come one at a time, and
\* never leaves it on a descriptor that is closed.
LEMMA WatcherFollows ==
  ASSUME NEW S, IsFiniteSet(S), NEW p \in [S -> Interest], NEW next \in [S -> Interest],
         NEW w, NEW c \in BOOLEAN, Agrees(w, p, S, c),
         NEW T, T = {s \in S : next[s] # p[s]},
         NEW order \in SetToSeqs(T) \cup {SetToSeq(T)},
         NEW d \in BOOLEAN,
         ~d => ~c /\ ~\E s, u \in S : s # u /\ {} \notin {next[s], p[u] \cup next[u]}
  PROVE  Agrees(Watched(w, next, order), next, S, d)
<1>1. IsFiniteSet(T)
  BY FS_Subset
<1>2. /\ order \in Seq(T) /\ (order = << >> <=> T = {})
      /\ order # << >> => order[Len(order)] \in T
  BY <1>1, OrdersCover
<1>3. CASE T = {}
  <2>1. Watched(w, next, order) = w
    BY <1>2, <1>3, WatchedLast
  <2>2. \A s \in S : next[s] = p[s]
    BY <1>3
  <2>3. QED
    BY <2>1, <2>2 DEF Agrees
<1>4. CASE T # {}
  <2> DEFINE s0 == order[Len(order)]
             v == Watched(w, next, order)
  <2>1. v = Seen(next, s0) /\ s0 \in T /\ s0 \in S
    BY <1>2, <1>4, WatchedLast
  <2> HIDE DEF s0, v
  <2>2. v.events # {} => v.fd \in S /\ next[v.fd] # {}
    BY <2>1 DEF Seen, Stopped
  <2>3. ASSUME ~d, NEW s \in S, next[s] # {}
        PROVE  v.fd = s /\ v.events \cap next[s] # {}
    <3>1. \A u \in S : s # u => p[u] = {} /\ next[u] = {}
      <4> SUFFICES ASSUME NEW u \in S, s # u PROVE p[u] \cup next[u] = {}
        OBVIOUS
      <4>1. ~({} \notin {next[s], p[u] \cup next[u]})
        BY <2>3
      <4>2. QED
        BY <2>3, <4>1
    <3>2. s0 = s
      BY <2>1, <3>1
    <3>3. next[s] \in Interest
      OBVIOUS
    <3>4. QED
      BY <2>1, <2>3, <3>2, <3>3 DEF Seen, Interest, Directions
  <2>4. QED
    BY <2>2, <2>3 DEF Agrees, v
<1>5. QED
  BY <1>3, <1>4

\* Each watcher agrees with its transfer, and a request without one has no socket open.
WatchInv ==
  /\ DOMAIN polled = Requests /\ DOMAIN sock_wtchr = Requests
  /\ crowded \in [Requests -> BOOLEAN]
  /\ \A r \in Requests :
       /\ polled[r] \in [Sockets[r] -> Interest]
       /\ Agrees(sock_wtchr[r], polled[r], Sockets[r], crowded[r])
       /\ transfer[r] = "none" => \A s \in Sockets[r] : polled[r][s] = {}

\* add_request: no socket is open yet.
LEMMA AddWatches ==
  ASSUME IndInv, WatchInv, NEW r \in Requests, add_request(r) PROVE WatchInv'
<1>1. /\ transfer \in [Requests -> {"none", "running"}] /\ transfer[r] = "none"
      /\ UNCHANGED <<polled, sock_wtchr>>
      /\ crowded' = [crowded EXCEPT ![r] = FALSE]
      /\ transfer' = [transfer EXCEPT ![r] = "running"]
  BY DEF IndInv, TransfersOK, add_request, Added
<1>2. ASSUME NEW q \in Requests
      PROVE  /\ Agrees(sock_wtchr[q], polled[q], Sockets[q], crowded'[q])
             /\ transfer'[q] = "none" => transfer[q] = "none"
  <2>1. CASE q = r
    BY <1>1, <2>1 DEF WatchInv, Agrees
  <2>2. CASE q # r
    BY <1>1, <2>2 DEF WatchInv
  <2>3. QED
    BY <2>1, <2>2
<1>3. crowded' \in [Requests -> BOOLEAN]
  BY <1>1 DEF WatchInv
<1>4. QED
  BY <1>1, <1>2, <1>3 DEF WatchInv

\* A call of libcurl in which a transfer opens, closes or changes sockets.
LEMMA GoesOnWatches ==
  ASSUME IndInv, WatchInv, NEW r \in Running, NEW said, NEW timer, GoesOn(r, said, timer)
  PROVE  WatchInv'
<1>1. r \in Requests /\ transfer[r] = "running"
  BY DEF Running
<1>2. PICK next \in [Sockets[r] -> Interest], more \in BOOLEAN :
        /\ polled' = [polled EXCEPT ![r] = next]
        /\ \E order \in SetToSeqs({s \in Sockets[r] : next[s] # polled[r][s]}) :
             sock_wtchr' = [sock_wtchr EXCEPT ![r] = Watched(@, next, order)]
        /\ crowded' = [crowded EXCEPT ![r] =
             @ \/ \E s, u \in Sockets[r] :
                    s # u /\ {} \notin {next[s], polled[r][u] \cup next[u]}]
        /\ chk_finished(messages, transfer,
                        IF more THEN [data EXCEPT ![r] = easy_callback(r)] ELSE data)
  BY Zenon DEF GoesOn
<1> DEFINE T == {s \in Sockets[r] : next[s] # polled[r][s]}
<1>3. PICK order \in SetToSeqs(T) :
        sock_wtchr' = [sock_wtchr EXCEPT ![r] = Watched(sock_wtchr[r], next, order)]
  BY <1>2
<1>4. transfer' = transfer
  BY <1>2 DEF chk_finished, Finished, IndInv, TransfersOK
<1>5. /\ DOMAIN polled' = Requests /\ DOMAIN sock_wtchr' = Requests
      /\ polled'[r] = next /\ sock_wtchr'[r] = Watched(sock_wtchr[r], next, order)
      /\ \A q \in Requests \ {r} :
           polled'[q] = polled[q] /\ sock_wtchr'[q] = sock_wtchr[q]
  BY <1>1, <1>2, <1>3 DEF WatchInv
<1>6. /\ crowded' \in [Requests -> BOOLEAN]
      /\ \A q \in Requests \ {r} : crowded'[q] = crowded[q]
      /\ ~crowded'[r] =>
           /\ ~crowded[r]
           /\ ~\E s, u \in Sockets[r] :
                 s # u /\ {} \notin {next[s], polled[r][u] \cup next[u]}
  <2> DEFINE two == \E s, u \in Sockets[r] :
                      s # u /\ {} \notin {next[s], polled[r][u] \cup next[u]}
  <2>1. crowded' = [crowded EXCEPT ![r] = crowded[r] \/ two]
    BY <1>2
  <2>2. two \in BOOLEAN
    OBVIOUS
  <2> HIDE DEF two
  <2>3. /\ crowded' \in [Requests -> BOOLEAN]
        /\ \A q \in Requests \ {r} : crowded'[q] = crowded[q]
        /\ ~crowded'[r] => ~crowded[r] /\ ~two
    BY <1>1, <2>1, <2>2 DEF WatchInv
  <2>4. QED
    BY <2>3 DEF two
<1>7. Agrees(sock_wtchr'[r], next, Sockets[r], crowded'[r])
  <2>1. /\ IsFiniteSet(Sockets[r]) /\ polled[r] \in [Sockets[r] -> Interest]
        /\ crowded[r] \in BOOLEAN /\ crowded'[r] \in BOOLEAN
        /\ Agrees(sock_wtchr[r], polled[r], Sockets[r], crowded[r])
    BY <1>1, <1>6, SocketsAssumption DEF WatchInv
  <2> HIDE DEF T
  <2>2. T = {s \in Sockets[r] : next[s] # polled[r][s]}
    BY DEF T
  <2>3. order \in SetToSeqs(T) \cup {SetToSeq(T)}
    OBVIOUS
  <2>4. Agrees(Watched(sock_wtchr[r], next, order), next, Sockets[r], crowded'[r])
    BY <1>6, <2>1, <2>2, <2>3, WatcherFollows
  <2>5. QED
    BY <1>5, <2>4
<1>8. QED
  BY <1>1, <1>4, <1>5, <1>6, <1>7 DEF WatchInv

\* A call of libcurl in which transfers end: all their sockets are closed, and the last
\* of those callbacks stops the watcher.
LEMMA EndWatches ==
  ASSUME IndInv, WatchInv, NEW ends \in SUBSET Running, NEW said, NEW timer,
         End(ends, said, timer)
  PROVE  WatchInv'
<1>1. /\ polled' = [r \in Requests |-> IF r \in ends THEN Closed(r) ELSE polled[r]]
      /\ sock_wtchr' = [r \in Requests |->
           IF r \in ends
           THEN Watched(sock_wtchr[r], Closed(r),
                        SetToSeq({s \in Sockets[r] : polled[r][s] # {}}))
           ELSE sock_wtchr[r]]
      /\ UNCHANGED crowded
  BY DEF End
<1>2. /\ messages = {}
      /\ \A r \in Requests : transfer'[r] = "none" /\ r \notin ends => transfer[r] = "none"
  BY DEF End, chk_finished, Finished, IndInv
<1>3. ASSUME NEW r \in Requests, r \in ends
      PROVE  Agrees(sock_wtchr'[r], Closed(r), Sockets[r], crowded[r])
  <2> DEFINE T == {s \in Sockets[r] : polled[r][s] # {}}
  <2>1. /\ IsFiniteSet(Sockets[r]) /\ polled[r] \in [Sockets[r] -> Interest]
        /\ Closed(r) \in [Sockets[r] -> Interest]
        /\ \A s \in Sockets[r] : Closed(r)[s] = {}
        /\ Agrees(sock_wtchr[r], polled[r], Sockets[r], crowded[r])
    BY SocketsAssumption DEF WatchInv, Closed, Interest
  <2>2. IsFiniteSet(T) /\ sock_wtchr'[r] = Watched(sock_wtchr[r], Closed(r), SetToSeq(T))
    BY <1>1, <1>3, <2>1, FS_Subset
  <2>3. /\ SetToSeq(T) \in Seq(T) /\ (SetToSeq(T) = << >> <=> T = {})
        /\ SetToSeq(T) # << >> => SetToSeq(T)[Len(SetToSeq(T))] \in T
    BY <2>2, OrdersCover
  <2>4. T # {} => sock_wtchr'[r] = Stopped
    BY <2>1, <2>2, <2>3, WatchedLast DEF Seen
  <2>5. T = {} => sock_wtchr'[r] = sock_wtchr[r] /\ sock_wtchr[r].events = {}
    BY <2>1, <2>2, <2>3, WatchedLast DEF Agrees
  <2>6. sock_wtchr'[r].events = {}
    BY <2>4, <2>5 DEF Stopped
  <2>7. QED
    BY <2>1, <2>6 DEF Agrees
<1>4. ASSUME NEW r \in Requests
      PROVE  /\ polled'[r] \in [Sockets[r] -> Interest]
             /\ Agrees(sock_wtchr'[r], polled'[r], Sockets[r], crowded'[r])
             /\ transfer'[r] = "none" => \A s \in Sockets[r] : polled'[r][s] = {}
  <2>1. CASE r \in ends
    <3>1. polled'[r] = Closed(r)
      BY <1>1, <2>1
    <3>2. QED
      BY <1>1, <1>3, <2>1, <3>1 DEF Closed, Interest
  <2>2. CASE r \notin ends
    BY <1>1, <1>2, <2>2 DEF WatchInv
  <2>3. QED
    BY <2>1, <2>2
<1>5. DOMAIN polled' = Requests /\ DOMAIN sock_wtchr' = Requests
  BY <1>1
<1>6. QED
  BY <1>1, <1>4, <1>5 DEF WatchInv

\* The watchers agree with libcurl throughout.
LEMMA WatchInductive == Spec => []WatchInv
<1>1. Init => WatchInv
  BY DEF Init, WatchInv, Agrees, Stopped, Closed, Interest
<1>2. IndInv /\ WatchInv /\ [Next]_vars => WatchInv'
  <2> SUFFICES ASSUME IndInv, WatchInv, [Next]_vars PROVE WatchInv'
    OBVIOUS
  <2>1. CASE \E r \in Requests : add_request(r)
    BY <2>1, AddWatches
  <2>2. CASE drive_timer
    BY <2>2, GoesOnWatches, EndWatches DEF drive_timer
  <2>3. CASE \E r \in Running : drive_sockt(r)
    BY <2>3, GoesOnWatches, EndWatches DEF drive_sockt
  <2>4. CASE UNCHANGED vars
    BY <2>4 DEF vars, curl, ours, WatchInv
  <2>5. QED
    BY <2>1, <2>2, <2>3, <2>4 DEF Next
<1>3. QED
  BY <1>1, <1>2, Inductive, PTL DEF Spec

\* socket_callback: a watcher that is active watches a descriptor its transfer still has
\* open, whatever the order of libcurl's callbacks; and as long as the transfer has had
\* one socket at a time, libev waits for something libcurl wants of it.
THEOREM WatchersAgree == Spec => []WatchersSound
<1>1. WatchInv => WatchersSound
  BY DEF WatchInv, WatchersSound, Agrees
<1>2. QED
  BY <1>1, WatchInductive, PTL
==============================================================================
