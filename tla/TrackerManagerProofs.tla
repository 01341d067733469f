------------------------- MODULE TrackerManagerProofs -------------------------
(***************************************************************************)
(* Proofs about TrackerManager, for every set of trackers, announce lists  *)
(* and number of calls: manager_space and the trackers' indices agree in   *)
(* every turn of every walk, the walks leave nobody out, and no tracker is *)
(* given up while one of its URLs has not been tried.                      *)
(***************************************************************************)
EXTENDS TrackerManager, SequenceLemmas
------------------------------------------------------------------------------
(* The inductive invariant.                                                *)

\* The hypothesis of the theorems: a build with the asserts, trackers that answer with
\* a dictionary of peers or a failure reason and do not ask for a minimum interval
\* longer than the interval, and fewer failed cycles than retry intervals.  The hazards
\* of the answers left out are the subject of the module's comments and runs.
Benign ==
  /\ AssertsOn = TRUE
  /\ Answers \cap {"max_first", "unparsable"} = {}
  /\ FailuresCap < RetryIntervals

Removing == {"shutdown", "reannounce", "force_reannounce"}

\* t is in manager_space, at its own index.
Placed(t) == trk[t].idx <= size /\ cells[trk[t].idx] = t

\* How storage, size and iterator relate in each phase.
ShapeInv ==
  /\ phase \in {"idle", "finish"} => Len(cells) = size /\ (active \/ size = 0)
  /\ phase \in Events => Len(cells) = end - 1
  /\ phase = "start" => ~active /\ size = end - 1
  /\ phase \in Removing => active

\* What a tracker's record says of the space it is in.
TrackerInv ==
  \A t \in Trackers :
    /\ trk[t].http => HasHttp(t)
    /\ trk[t].flying => trk[t].http /\ trk[t].state # "null"
    /\ trk[t].minimum => /\ trk[t].type = "two" /\ ~trk[t].interruptible
                         /\ trk[t].maximum /\ trk[t].first = "min"
                         /\ trk[t].state = "active"
    /\ trk[t].maximum \/ trk[t].minimum => Placed(t)
    /\ trk[t].state = "active" /\ "no_peers" \notin Answers => trk[t].flying \/ Placed(t)

\* The elements of manager_space, and those the start walk has dealt with.
PlacedInv ==
  \A i \in 1 .. size :
    /\ trk[cells[i]].http
    /\ phase # "start" => ~trk[cells[i]].flying /\ trk[cells[i]].state # "null"
    /\ phase = "start" /\ i < it =>
         trk[cells[i]].state = "inactive" /\ trk[cells[i]].maximum
    /\ phase = "start" /\ trk[cells[i]].flying => i >= it

\* What a walk that removes elements still has before it: each is in manager_space, and
\* storage past the size holds copies of elements that have moved behind the iterator.
AheadInv ==
  phase \in Removing =>
    \A j \in it .. end - 1 :
      /\ Placed(cells[j])
      /\ j > size => trk[cells[j]].idx < it
      /\ \A k \in it .. end - 1 : cells[j] = cells[k] => j = k

\* Which trackers a walk takes out of manager_space, by its name and their record.
Takes(name, p) ==
  \/ name = "shutdown"
  \/ name = "force_reannounce" /\ p.state = "active"
  \/ name = "reannounce" /\ p.state = "active" /\ p.type = "two" /\ p.interruptible

\* A walk has nobody to take behind its iterator.
BehindInv ==
  phase \in Removing =>
    \A i \in 1 .. size :
      Takes(phase, trk[cells[i]]) => \E j \in it .. end - 1 : cells[j] = cells[i]

Running == ShapeInv /\ TrackerInv /\ PlacedInv /\ AheadInv /\ BehindInv

\* A failed assert leaves the start walk as it stood.
IndInv ==
  /\ SpaceSound /\ TimersQuiet
  /\ IF halted = "assert" THEN phase = "start" ELSE Running
------------------------------------------------------------------------------
(* Lists: the way around an announce list, and a map written to a vector.  *)

\* The remainder of a number of the form L * q + d.
LEMMA Remainder ==
  ASSUME NEW L \in Nat \ {0}, NEW q \in Nat, NEW d \in 0 .. L - 1
  PROVE  (L * q + d) % L = d
OBVIOUS

\* From anywhere on a ring of L places, each is reached within L steps.
LEMMA Around ==
  ASSUME NEW L \in Nat \ {0}, NEW c \in Nat, NEW d \in 0 .. L - 1
  PROVE  \E k \in 1 .. L : (c + k) % L = d
<1> DEFINE r == c % L
           q == c \div L
<1>1. q \in Nat /\ r \in 0 .. L - 1 /\ c = L * q + r
  OBVIOUS
<1> HIDE DEF r, q
<1>2. CASE d > r
  <2>1. d - r \in 1 .. L /\ c + (d - r) = L * q + d
    BY <1>1, <1>2
  <2>2. QED
    BY <2>1, <1>1, Remainder
<1>3. CASE d <= r
  <2>1. L + d - r \in 1 .. L /\ c + (L + d - r) = L * (q + 1) + d
    BY <1>1, <1>3
  <2>2. q + 1 \in Nat
    BY <1>1
  <2>3. (L * (q + 1) + d) % L = d
    BY <2>2, Remainder
  <2>4. QED
    BY <2>1, <2>3
<1>4. QED
  BY <1>1, <1>2, <1>3

\* seek_to_next_url in a loop ends on an http URL of the list, wherever it begins.
LEMMA SeekFindsHttp ==
  ASSUME NEW t \in Trackers, HasHttp(t), NEW i \in Nat \ {0}
  PROVE  /\ SeekHttp(t, i) \in DOMAIN Urls[t]
         /\ Urls[t][SeekHttp(t, i)] = "http"
<1> DEFINE L == Len(Urls[t])
           After(k) == ((i - 1 + k) % L) + 1
           S == {k \in 1 .. L : Urls[t][After(k)] = "http"}
<1>1. L \in Nat \ {0} /\ DOMAIN Urls[t] = 1 .. L /\ i - 1 \in Nat
  BY UrlsAssumption
<1> HIDE DEF L
<1>2. PICK j \in 1 .. L : Urls[t][j] = "http"
  BY <1>1 DEF HasHttp
<1>3. PICK k \in 1 .. L : (i - 1 + k) % L = j - 1
  <2>1. j - 1 \in 0 .. L - 1
    BY <1>1
  <2>2. QED
    BY <1>1, <2>1, Around
<1>4. After(k) = j
  BY <1>1, <1>3
<1>5. S \subseteq Nat /\ S # {}
  <2> HIDE DEF After
  <2>1. k \in S
    BY <1>2, <1>3, <1>4
  <2>2. QED
    BY <1>1, <2>1
<1>6. Min(S) \in S
  <2> HIDE DEF S
  <2>1. QED
    BY <1>5, LeastNat DEF Min
<1>7. \A m \in 1 .. L : After(m) \in 1 .. L
  BY <1>1
<1>8. SeekHttp(t, i) = After(Min(S))
  BY DEF SeekHttp, L
<1>9. QED
  BY <1>1, <1>6, <1>7, <1>8

\* populate_manager_space writes every known tracker once.
LEMMA OrderIsOnto ==
  ASSUME NEW S \in SUBSET Trackers, NEW order \in SetToSeqs(S)
  PROVE  /\ order \in Seq(Trackers)
         /\ \A i, j \in 1 .. Len(order) : order[i] = order[j] => i = j
         /\ \A i \in 1 .. Len(order) : order[i] \in S
         /\ \A t \in S : \E i \in 1 .. Len(order) : order[i] = t
<1> DEFINE n == Cardinality(S)
<1>1. IsFiniteSet(S) /\ n \in Nat
  BY TrackersAssumption, FS_Subset, FS_CardinalityType
<1> HIDE DEF n
<1>2. /\ order \in [1 .. n -> S]
      /\ \A i, j \in 1 .. n : i # j => order[i] # order[j]
  BY DEF SetToSeqs, n
<1>3. order \in Seq(S) /\ Len(order) = n
  BY <1>1, <1>2
<1>4. ToSet(order) = {order[i] : i \in 1 .. n} /\ IsInjective(order)
  BY <1>2, <1>3, SetOfSeq
<1>5. Cardinality(ToSet(order)) = n /\ ToSet(order) \subseteq S
  BY <1>3, <1>4, DistinctCount, SetOfSeq
<1>6. ToSet(order) = S
  BY <1>1, <1>5, FS_Subset DEF n
<1>7. QED
  BY <1>2, <1>3, <1>4, <1>6
------------------------------------------------------------------------------
(* What send_to_protocol_space does.                                       *)

\* The trackers' indices are those of manager_space.
Numbered == \A i \in 1 .. size : trk[cells[i]].idx = i

\* Two records that differ at most in what the proofs do not look at.
Alike(p, q) ==
  /\ p.state = q.state /\ p.http = q.http /\ p.type = q.type /\ p.first = q.first
  /\ p.interruptible = q.interruptible /\ p.flying = q.flying
  /\ p.maximum = q.maximum /\ p.minimum = q.minimum

\* While the program runs its invariant contains what the properties say.
LEMMA RunningSound ==
  TypeOK /\ Numbered /\ halted = "no" /\ Running => IndInv
<1> SUFFICES ASSUME TypeOK, Numbered, halted = "no", Running PROVE IndInv
  OBVIOUS
<1>1. \A i \in 1 .. size : trk[cells[i]].flying => phase = "start" /\ i >= it - 1
  BY DEF TypeOK, Running, PlacedInv
<1>2. SpaceSound
  BY <1>1 DEF SpaceSound, Numbered
<1>3. ASSUME NEW t \in Trackers, trk[t].maximum \/ trk[t].minimum PROVE t \in InSpace
  <2>1. Placed(t)
    BY <1>3 DEF Running, TrackerInv
  <2>2. trk[t].idx \in 1 .. size
    BY <2>1 DEF Placed, TypeOK, Tracker
  <2>3. QED
    BY <2>1, <2>2 DEF InSpace, Placed
<1>4. QED
  BY <1>2, <1>3 DEF IndInv, TimersQuiet

\* Being in manager_space is being at one's index.
LEMMA InSpacePlaced ==
  ASSUME TypeOK, Numbered
  PROVE  /\ \A i \in 1 .. size : cells[i] \in Trackers /\ Placed(cells[i])
         /\ \A t \in Trackers : Placed(t) => trk[t].idx \in 1 .. size
         /\ \A t \in Trackers : Placed(t) <=> t \in InSpace
<1>1. ASSUME NEW i \in 1 .. size PROVE cells[i] \in Trackers /\ Placed(cells[i])
  <2>1. i \in 1 .. Len(cells)
    BY DEF TypeOK
  <2>2. cells[i] \in Trackers
    BY <2>1 DEF TypeOK
  <2>3. QED
    BY <2>2 DEF Placed, Numbered, TypeOK
<1>2. ASSUME NEW t \in Trackers, Placed(t) PROVE trk[t].idx \in 1 .. size
  BY <1>2 DEF TypeOK, Tracker, Placed
<1>3. QED
  BY <1>1, <1>2 DEF InSpace, Placed

\* The last element fills the gap t leaves; nobody else moves.
LEMMA SentEffect ==
  ASSUME TypeOK, Numbered, phase = "idle" => Len(cells) = size,
         NEW t \in Trackers, NEW p \in Tracker, Placed(t), Sent(t, p)
  PROVE  /\ size > 0 /\ size' = size - 1
         /\ cells' \in Seq(Trackers) /\ size' \in 0 .. Len(cells')
         /\ Len(cells') = IF phase = "idle" THEN size' ELSE Len(cells)
         /\ trk' \in [Trackers -> Tracker] /\ trk'[t] = p
         /\ \A u \in Trackers \ {t} : Alike(trk'[u], trk[u])
         /\ Numbered'
         /\ \A i \in 1 .. size' : /\ cells'[i] # t
                                  /\ \E k \in 1 .. size : cells'[i] = cells[k]
         /\ \A u \in Trackers \ {t} : Placed(u) =>
              /\ trk'[u].idx <= size' /\ cells'[trk'[u].idx] = u
              /\ \/ trk'[u].idx = trk[u].idx
                 \/ trk[u].idx = size /\ trk'[u].idx = trk[t].idx
         /\ phase # "idle" =>
              \A j \in 1 .. Len(cells) : j # trk[t].idx => cells'[j] = cells[j]
<1> DEFINE gap  == trk[t].idx
           last == cells[size]
           filled == [cells EXCEPT ![gap] = last]
<1>1. /\ size \in Nat /\ size <= Len(cells) /\ cells \in Seq(Trackers)
      /\ gap \in 1 .. size /\ cells[gap] = t
      /\ last \in Trackers /\ trk[last].idx = size
  BY InSpacePlaced DEF Placed, TypeOK, Numbered
<1>2. /\ size' = size - 1
      /\ trk' = [trk EXCEPT ![last].idx = gap, ![t] = p]
      /\ cells' = IF phase = "idle" THEN SubSeq(filled, 1, size - 1) ELSE filled
  BY DEF Sent, Storage
<1> HIDE DEF gap, last
<1>3. /\ filled \in Seq(Trackers) /\ Len(filled) = Len(cells) /\ filled[gap] = last
      /\ \A j \in 1 .. Len(cells) : j # gap => filled[j] = cells[j]
  BY <1>1
<1> HIDE DEF filled
<1>4. /\ cells' \in Seq(Trackers)
      /\ Len(cells') = IF phase = "idle" THEN size - 1 ELSE Len(cells)
      /\ \A j \in 1 .. size - 1 : cells'[j] = filled[j]
      /\ phase # "idle" => \A j \in 1 .. Len(cells) : cells'[j] = filled[j]
  BY <1>1, <1>2, <1>3
<1>5. trk' \in [Trackers -> Tracker] /\ trk'[t] = p
  <2>1. trk \in [Trackers -> Tracker] /\ gap \in Nat \ {0}
    BY <1>1 DEF TypeOK
  <2>2. [trk[last] EXCEPT !.idx = gap] \in Tracker
    BY <1>1, <2>1, ZenonT(40) DEF Tracker
  <2>3. trk' = [[trk EXCEPT ![last] = [trk[last] EXCEPT !.idx = gap]] EXCEPT ![t] = p]
    BY <1>1, <1>2, <2>1
  <2>4. QED
    BY <1>1, <2>1, <2>2, <2>3
<1>6. ASSUME NEW u \in Trackers \ {t}
      PROVE  /\ Alike(trk'[u], trk[u])
             /\ trk'[u].idx = IF u = last THEN gap ELSE trk[u].idx
  <2>1. trk \in [Trackers -> Tracker] /\ gap \in Nat \ {0}
    BY <1>1 DEF TypeOK
  <2>2. CASE u = last
    <3>1. trk'[u] = [trk[u] EXCEPT !.idx = gap]
      BY <1>1, <1>2, <2>1, <2>2
    <3>2. QED
      BY <2>1, <2>2, <3>1 DEF Tracker, Alike
  <2>3. CASE u # last
    <3>1. trk'[u] = trk[u]
      BY <1>1, <1>2, <2>1, <2>3
    <3>2. QED
      BY <2>3, <3>1 DEF Alike
  <2>4. QED
    BY <2>2, <2>3
<1>7. \A i \in 1 .. size : cells[i] \in Trackers /\ trk[cells[i]].idx = i
  BY <1>1 DEF Numbered, TypeOK
<1>8. ASSUME NEW i \in 1 .. size - 1
      PROVE  /\ cells'[i] # t /\ trk'[cells'[i]].idx = i
             /\ \E k \in 1 .. size : cells'[i] = cells[k]
  <2>1. CASE i = gap
    <3>1. cells'[i] = last /\ last # t
      BY <1>1, <1>3, <1>4, <2>1 DEF gap
    <3>2. QED
      BY <1>1, <1>6, <2>1, <3>1 DEF last
  <2>2. CASE i # gap
    <3>1. cells'[i] = cells[i] /\ i \in 1 .. size
      BY <1>1, <1>3, <1>4, <2>2
    <3>2. cells[i] # t /\ cells[i] # last
      BY <1>1, <1>7, <2>2, <3>1 DEF gap
    <3>3. QED
      BY <1>6, <1>7, <3>1, <3>2
  <2>3. QED
    BY <2>1, <2>2
<1>9. Numbered'
  BY <1>2, <1>8 DEF Numbered
<1>10. ASSUME NEW u \in Trackers \ {t}, Placed(u)
       PROVE  /\ trk'[u].idx <= size' /\ cells'[trk'[u].idx] = u
              /\ \/ trk'[u].idx = trk[u].idx
                 \/ trk[u].idx = size /\ trk'[u].idx = gap
  <2>1. trk[u].idx \in 1 .. size /\ cells[trk[u].idx] = u
    BY <1>10, InSpacePlaced DEF Placed
  <2>2. CASE u = last
    <3>1. gap # size
      BY <1>1, <2>2 DEF last
    <3>2. gap \in 1 .. size - 1 /\ trk'[u].idx = gap
      BY <1>1, <1>6, <2>2, <3>1
    <3>3. QED
      BY <1>1, <1>2, <1>3, <1>4, <2>2, <3>2
  <2>3. CASE u # last
    <3>1. trk'[u].idx = trk[u].idx
      BY <1>6, <2>3
    <3>2. trk[u].idx # size /\ trk[u].idx # gap
      BY <1>1, <2>1, <2>3 DEF last
    <3>3. QED
      BY <1>1, <1>2, <1>3, <1>4, <2>1, <3>1, <3>2, SMTT(30)
  <2>4. QED
    BY <2>2, <2>3
<1>11. size > 0 /\ size' \in 0 .. Len(cells')
  BY <1>1, <1>2, <1>4
<1>12. phase # "idle" => \A j \in 1 .. Len(cells) : j # trk[t].idx => cells'[j] = cells[j]
  BY <1>3, <1>4 DEF gap
<1>13. \A i \in 1 .. size' : cells'[i] # t /\ \E k \in 1 .. size : cells'[i] = cells[k]
  BY <1>2, <1>8
<1>14. QED
  BY <1>2, <1>4, <1>5, <1>6, <1>9, <1>10, <1>11, <1>12, <1>13 DEF gap
------------------------------------------------------------------------------
(* The turns of the walks that remove elements.                            *)

\* A turn that takes the tracker it stands on out of manager_space, its timers stopped.
LEMMA TurnTakes ==
  ASSUME TypeOK, Numbered, Running, phase \in Removing, it < end, it' = it + 1,
         NEW p \in Tracker, Sent(cells[it], p),
         p.http => HasHttp(cells[it]), p.flying => p.http /\ p.state # "null",
         p.state = "active" => p.flying, ~p.maximum, ~p.minimum, halted = "no", UNCHANGED halted,
         UNCHANGED <<tracker_connections, active, phase, event_, handled, end, control>>
  PROVE  IndInv'
<1> DEFINE t == cells[it]
<1>1. /\ it \in Nat \ {0} /\ end \in Nat /\ size \in Nat /\ it \in it .. end - 1
      /\ Len(cells) = end - 1 /\ cells \in Seq(Trackers) /\ size <= Len(cells)
      /\ phase \notin {"idle", "finish", "start"} /\ phase \in Events
  BY DEF TypeOK, Running, ShapeInv, Removing, Events
<1>2. /\ t \in Trackers /\ Placed(t)
      /\ it > size => trk[t].idx < it
  BY <1>1 DEF Running, AheadInv
<1>3. trk[t].idx \in 1 .. it
  <2>1. trk[t].idx \in 1 .. size
    BY <1>2, InSpacePlaced
  <2>2. CASE it <= size
    BY <1>1, <2>1, <2>2 DEF Numbered
  <2>3. QED
    BY <1>1, <1>2, <2>1, <2>2
<1>4. /\ size > 0 /\ size' = size - 1
      /\ cells' \in Seq(Trackers) /\ size' \in 0 .. Len(cells') /\ Len(cells') = Len(cells)
      /\ trk' \in [Trackers -> Tracker] /\ trk'[t] = p
      /\ Numbered'
  BY <1>1, <1>2, SentEffect
<1>5. \A u \in Trackers \ {t} : Alike(trk'[u], trk[u])
  BY <1>1, <1>2, SentEffect
<1>6. \A i \in 1 .. size' : cells'[i] # t /\ \E k \in 1 .. size : cells'[i] = cells[k]
  BY <1>1, <1>2, SentEffect
<1>7. \A u \in Trackers \ {t} : Placed(u) =>
        /\ trk'[u].idx <= size' /\ cells'[trk'[u].idx] = u
        /\ \/ trk'[u].idx = trk[u].idx
           \/ trk[u].idx = size /\ trk'[u].idx = trk[t].idx
  BY <1>1, <1>2, SentEffect
<1>8. \A j \in 1 .. Len(cells) : j # trk[t].idx => cells'[j] = cells[j]
  BY <1>1, <1>2, SentEffect
<1> HIDE DEF t
<1>9. TypeOK'
  BY <1>1, <1>4 DEF TypeOK, control
<1>10. ShapeInv'
  BY <1>1, <1>4 DEF Running, ShapeInv
<1>11. TrackerInv'
  <2> SUFFICES ASSUME NEW u \in Trackers
      PROVE  /\ trk'[u].http => HasHttp(u)
             /\ trk'[u].flying => trk'[u].http /\ trk'[u].state # "null"
             /\ trk'[u].minimum => /\ trk'[u].type = "two" /\ ~trk'[u].interruptible
                                   /\ trk'[u].maximum /\ trk'[u].first = "min"
                                   /\ trk'[u].state = "active"
             /\ trk'[u].maximum \/ trk'[u].minimum =>
                  trk'[u].idx <= size' /\ cells'[trk'[u].idx] = u
             /\ trk'[u].state = "active" /\ "no_peers" \notin Answers =>
                  \/ trk'[u].flying
                  \/ trk'[u].idx <= size' /\ cells'[trk'[u].idx] = u
    BY DEF TrackerInv, Placed
  <2>1. CASE u = t
    BY <1>4, <2>1 DEF t
  <2>2. CASE u # t
    BY <1>5, <1>7, <2>2 DEF Running, TrackerInv, Alike
  <2>3. QED
    BY <2>1, <2>2
<1>12. PlacedInv'
  <2> SUFFICES ASSUME NEW i \in 1 .. size'
      PROVE  trk'[cells'[i]].http /\ ~trk'[cells'[i]].flying /\ trk'[cells'[i]].state # "null"
    BY <1>1 DEF PlacedInv
  <2>1. PICK k \in 1 .. size : cells'[i] = cells[k] /\ cells[k] # t
    BY <1>6
  <2>2. cells[k] \in Trackers
    BY InSpacePlaced
  <2>3. trk[cells[k]].http /\ ~trk[cells[k]].flying /\ trk[cells[k]].state # "null"
    BY <1>1 DEF Running, PlacedInv
  <2>4. QED
    BY <1>5, <2>1, <2>2, <2>3 DEF Alike
<1>13. ASSUME NEW j \in it + 1 .. end - 1
       PROVE  /\ j \in it .. end - 1 /\ cells'[j] = cells[j] /\ cells[j] \in Trackers \ {t}
              /\ Placed(cells[j])
  <2>1. j \in it .. end - 1 /\ j # it /\ j # trk[t].idx /\ j \in 1 .. Len(cells)
    BY <1>1, <1>3
  <2>2. Placed(cells[j]) /\ (cells[j] = cells[it] => j = it)
    BY <1>1, <2>1 DEF Running, AheadInv
  <2>3. QED
    BY <1>1, <1>8, <2>1, <2>2 DEF t
<1>14. AheadInv'
  <2> SUFFICES ASSUME NEW j \in it + 1 .. end - 1
      PROVE  /\ trk'[cells'[j]].idx <= size' /\ cells'[trk'[cells'[j]].idx] = cells'[j]
             /\ j > size' => trk'[cells'[j]].idx < it + 1
             /\ \A k \in it + 1 .. end - 1 : cells'[j] = cells'[k] => j = k
    BY DEF AheadInv, Placed
  <2> DEFINE u == cells[j]
  <2>1. cells'[j] = u /\ u \in Trackers \ {t} /\ Placed(u)
    BY <1>13
  <2>2. /\ trk'[u].idx <= size' /\ cells'[trk'[u].idx] = u
        /\ \/ trk'[u].idx = trk[u].idx
           \/ trk[u].idx = size /\ trk'[u].idx = trk[t].idx
    BY <1>7, <2>1
  <2>3. \A k \in it + 1 .. end - 1 : cells'[j] = cells'[k] => j = k
    BY <1>1, <1>13 DEF Running, AheadInv
  <2>4. ASSUME j > size PROVE trk[u].idx < it
    BY <1>1, <1>13, <2>4 DEF Running, AheadInv
  <2>5. ASSUME j = size PROVE trk[u].idx = size
    BY <1>1, <1>4, <2>5 DEF Numbered
  <2>6. ASSUME j > size' PROVE trk'[u].idx < it + 1
    <3> HIDE DEF u
    <3>1. trk[u].idx \in Nat /\ trk'[u].idx \in Nat
      BY <1>4, <2>1, ZenonT(40) DEF TypeOK, Tracker
    <3>2. j > size \/ j = size
      BY <1>1, <1>4, <2>6
    <3>3. QED
      BY <1>1, <1>3, <1>4, <2>2, <2>4, <2>5, <3>1, <3>2
  <2>7. QED
    BY <2>1, <2>2, <2>3, <2>6
<1>15. BehindInv'
  <2> SUFFICES ASSUME NEW i \in 1 .. size', Takes(phase, trk'[cells'[i]])
      PROVE  \E j \in it + 1 .. end - 1 : cells'[j] = cells'[i]
    BY DEF BehindInv
  <2>1. PICK k \in 1 .. size : cells'[i] = cells[k] /\ cells[k] # t
    BY <1>6
  <2>2. cells[k] \in Trackers
    BY InSpacePlaced
  <2>3. Takes(phase, trk[cells[k]])
    BY <1>5, <2>1, <2>2 DEF Takes, Alike
  <2>4. PICK j \in it .. end - 1 : cells[j] = cells[k]
    BY <2>3 DEF Running, BehindInv
  <2>5. j \in it + 1 .. end - 1
    BY <1>1, <2>1, <2>4 DEF t
  <2>6. QED
    BY <1>13, <2>1, <2>4, <2>5
<1>16. Running' /\ (halted = "no")'
  BY <1>10, <1>11, <1>12, <1>14, <1>15 DEF Running
<1>17. QED
  BY <1>4, <1>9, <1>16, RunningSound, PTL

\* A turn that leaves the tracker it stands on where it is.
LEMMA TurnSkips ==
  ASSUME TypeOK, Numbered, Running, phase \in Removing, it < end, it' = it + 1,
         ~Takes(phase, trk[cells[it]]), halted = "no", UNCHANGED <<trk, space, halted>>,
         UNCHANGED <<tracker_connections, active, phase, event_, handled, end, control>>
  PROVE  IndInv'
<1> USE DEF space
<1>1. it \in Nat \ {0} /\ end \in Nat /\ size \in Nat /\ phase # "start"
  BY DEF TypeOK, Removing
<1>2. TypeOK' /\ Numbered'
  BY DEF TypeOK, control, Numbered
<1>3. ShapeInv' /\ TrackerInv' /\ PlacedInv'
  BY <1>1 DEF Running, ShapeInv, TrackerInv, Placed, PlacedInv
<1>4. AheadInv'
  <2>1. \A j \in it + 1 .. end - 1 : j \in it .. end - 1
    BY <1>1
  <2>2. ASSUME NEW j \in it + 1 .. end - 1
        PROVE  /\ trk[cells[j]].idx <= size /\ cells[trk[cells[j]].idx] = cells[j]
               /\ j > size => trk[cells[j]].idx < it
               /\ \A k \in it .. end - 1 : cells[j] = cells[k] => j = k
    BY <2>1 DEF Running, AheadInv, Placed
  <2>3. ASSUME NEW j \in it + 1 .. end - 1, j > size PROVE trk[cells[j]].idx < it + 1
    <3>1. j \in 1 .. Len(cells)
      BY <1>1 DEF Running, ShapeInv, Removing, Events
    <3>2. cells[j] \in Trackers
      BY <3>1 DEF TypeOK
    <3>3. trk[cells[j]].idx \in Nat
      BY <3>2 DEF TypeOK, Tracker
    <3>4. QED
      BY <1>1, <2>2, <2>3, <3>3
  <2>4. QED
    BY <2>1, <2>2, <2>3 DEF AheadInv, Placed
<1>5. BehindInv'
  <2> SUFFICES ASSUME NEW i \in 1 .. size, Takes(phase, trk[cells[i]])
      PROVE  \E j \in it + 1 .. end - 1 : cells[j] = cells[i]
    BY DEF BehindInv
  <2>1. PICK j \in it .. end - 1 : cells[j] = cells[i]
    BY DEF Running, BehindInv
  <2>2. j # it
    BY <2>1
  <2>3. j \in it + 1 .. end - 1
    BY <1>1, <2>2
  <2>4. QED
    BY <2>1, <2>3
<1>6. Running' /\ (halted = "no")'
  BY <1>3, <1>4, <1>5 DEF Running
<1>7. QED
  BY <1>2, <1>6, RunningSound, PTL

\* A tracker that is in manager_space can be taken out of it.
LEMMA Sendable ==
  ASSUME TypeOK, Numbered, NEW t \in Trackers, Placed(t), NEW p,
         send_to_protocol_space(t, p)
  PROVE  Sent(t, p) /\ UNCHANGED halted
<1>1. trk[t].idx \in 1 .. size /\ size \in Nat
  BY InSpacePlaced DEF TypeOK
<1>2. ~Unsendable(t)
  BY <1>1 DEF Unsendable
<1>3. QED
  BY <1>2 DEF send_to_protocol_space

\* What is known of an element of manager_space outside the start walk.
LEMMA ElementFacts ==
  ASSUME TypeOK, Numbered, Running, phase # "start", NEW t \in Trackers, Placed(t)
  PROVE  trk[t].http /\ HasHttp(t) /\ ~trk[t].flying /\ trk[t].state # "null"
<1>1. trk[t].idx \in 1 .. size /\ cells[trk[t].idx] = t
  BY InSpacePlaced DEF Placed
<1>2. QED
  BY <1>1 DEF Running, PlacedInv, TrackerInv

\* The tracker a removing walk stands on.
LEMMA TurnFacts ==
  ASSUME TypeOK, Numbered, Running, phase \in Removing, it < end
  PROVE  /\ cells[it] \in Trackers /\ Placed(cells[it]) /\ trk[cells[it]] \in Tracker
         /\ trk[cells[it]].http /\ HasHttp(cells[it])
         /\ ~trk[cells[it]].flying /\ trk[cells[it]].state # "null"
<1>1. it \in it .. end - 1 /\ it \in 1 .. Len(cells) /\ phase # "start"
  BY DEF TypeOK, Running, ShapeInv, Removing, Events
<1>2. cells[it] \in Trackers /\ Placed(cells[it]) /\ trk[cells[it]] \in Tracker
  BY <1>1 DEF TypeOK, Running, AheadInv
<1>3. QED
  BY <1>1, <1>2, ElementFacts

\* A request changes only what libcurl has.
LEMMA RequestedRecord ==
  ASSUME NEW p \in Tracker, p.http
  PROVE  /\ Requested(p) \in Tracker
         /\ Requested(p) = [p EXCEPT !.flying = TRUE]
BY DEF Requested, Tracker

\* reannounce_event.
LEMMA ReannounceStep ==
  ASSUME TypeOK, Numbered, Running, reannounce_event
  PROVE  IndInv'
<1> DEFINE t == cells[it]
           p == trk[t]
           q == [p EXCEPT !.maximum = FALSE]
<1>1. /\ phase = "reannounce" /\ phase \in Removing /\ it < end /\ it' = it + 1
      /\ halted = "no"
      /\ UNCHANGED <<tracker_connections, active, phase, event_, handled, end, control>>
  BY DEF reannounce_event, Walking, More, Removing
<1>2. /\ t \in Trackers /\ Placed(t) /\ p \in Tracker
      /\ p.http /\ HasHttp(t) /\ ~p.flying /\ p.state # "null"
  BY <1>1, TurnFacts
<1>3. CASE p.type = "two" /\ p.interruptible /\ p.state = "active"
  <2>1. send_to_protocol_space(t, Requested(q))
    BY <1>3 DEF reannounce_event, Current
  <2>2. Sent(t, Requested(q)) /\ UNCHANGED halted
    BY <1>2, <2>1, Sendable
  <2>3. ~p.minimum
    BY <1>2, <1>3 DEF Running, TrackerInv
  <2>4. q \in Tracker /\ q.http
    BY <1>2 DEF Tracker
  <2>5. Requested(q) \in Tracker /\ Requested(q) = [q EXCEPT !.flying = TRUE]
    BY <2>4, RequestedRecord
  <2>6. /\ Requested(q).http /\ Requested(q).state # "null" /\ Requested(q).flying
        /\ ~Requested(q).maximum /\ ~Requested(q).minimum
    BY <1>2, <2>3, <2>4, <2>5 DEF Tracker
  <2>7. QED
    BY <1>1, <1>2, <2>2, <2>5, <2>6, TurnTakes
<1>4. CASE ~(p.type = "two" /\ p.interruptible /\ p.state = "active")
  <2>1. UNCHANGED <<trk, space, halted>>
    BY <1>4 DEF reannounce_event, Current
  <2>2. ~Takes(phase, p)
    BY <1>1, <1>4 DEF Takes
  <2>3. QED
    BY <1>1, <2>1, <2>2, TurnSkips
<1>5. QED
  BY <1>3, <1>4

\* force_reannounce_event.
LEMMA ForceReannounceStep ==
  ASSUME TypeOK, Numbered, Running, force_reannounce_event
  PROVE  IndInv'
<1> DEFINE t == cells[it]
           p == trk[t]
           q == [p EXCEPT !.maximum = FALSE, !.minimum = FALSE]
<1>1. /\ phase = "force_reannounce" /\ phase \in Removing /\ it < end /\ it' = it + 1
      /\ halted = "no"
      /\ UNCHANGED <<tracker_connections, active, phase, event_, handled, end, control>>
  BY DEF force_reannounce_event, Walking, More, Removing
<1>2. /\ t \in Trackers /\ Placed(t) /\ p \in Tracker
      /\ p.http /\ HasHttp(t) /\ ~p.flying /\ p.state # "null"
  BY <1>1, TurnFacts
<1>3. CASE p.state = "active"
  <2>1. send_to_protocol_space(t, Requested(q))
    BY <1>3 DEF force_reannounce_event, Current
  <2>2. Sent(t, Requested(q)) /\ UNCHANGED halted
    BY <1>2, <2>1, Sendable
  <2>3. q \in Tracker /\ q.http
    BY <1>2 DEF Tracker
  <2>4. Requested(q) \in Tracker /\ Requested(q) = [q EXCEPT !.flying = TRUE]
    BY <2>3, RequestedRecord
  <2>5. /\ Requested(q).http /\ Requested(q).state # "null" /\ Requested(q).flying
        /\ ~Requested(q).maximum /\ ~Requested(q).minimum
    BY <1>2, <2>3, <2>4, ZenonT(40) DEF Tracker
  <2>6. QED
    BY <1>1, <1>2, <2>2, <2>4, <2>5, TurnTakes
<1>4. CASE p.state # "active"
  <2>1. UNCHANGED <<trk, space, halted>>
    BY <1>4 DEF force_reannounce_event, Current
  <2>2. ~Takes(phase, p)
    BY <1>1, <1>4 DEF Takes
  <2>3. QED
    BY <1>1, <2>1, <2>2, TurnSkips
<1>5. QED
  BY <1>3, <1>4

\* shutdown_event.
LEMMA ShutdownStep ==
  ASSUME TypeOK, Numbered, Running, shutdown_event
  PROVE  IndInv'
<1> DEFINE t == cells[it]
           p == [trk[t] EXCEPT !.maximum = FALSE]
           q == [p EXCEPT !.minimum = @ /\ p.type = "one"]
           r == IF p.state = "inactive" THEN [p EXCEPT !.left_out = TRUE] ELSE Requested(q)
<1>1. /\ phase \in Removing /\ it < end /\ it' = it + 1 /\ halted = "no"
      /\ UNCHANGED <<tracker_connections, active, phase, event_, handled, end, control>>
      /\ send_to_protocol_space(t, r)
  BY DEF shutdown_event, Walking, More, Removing, Current
<1>2. /\ t \in Trackers /\ Placed(t) /\ trk[t] \in Tracker
      /\ trk[t].http /\ HasHttp(t) /\ ~trk[t].flying /\ trk[t].state # "null"
  BY <1>1, TurnFacts
<1>3. Sent(t, r) /\ UNCHANGED halted
  BY <1>1, <1>2, Sendable
<1>4. trk[t].minimum => trk[t].type = "two" /\ trk[t].state = "active"
  BY <1>2 DEF Running, TrackerInv
<1>5. p \in Tracker /\ q \in Tracker /\ q.http
  BY <1>2 DEF Tracker
<1>6. Requested(q) \in Tracker /\ Requested(q) = [q EXCEPT !.flying = TRUE]
  BY <1>5, RequestedRecord
<1>7. /\ r \in Tracker /\ r.http /\ r.state # "null" /\ ~r.maximum /\ ~r.minimum
      /\ r.state = "active" => r.flying
  <2>1. CASE p.state = "inactive"
    <3>1. r = [p EXCEPT !.left_out = TRUE] /\ p.http /\ ~p.maximum /\ p.minimum = trk[t].minimum
      BY <1>2, <2>1 DEF Tracker
    <3>2. ~trk[t].minimum
      BY <1>2, <1>4, <2>1 DEF Tracker
    <3> HIDE DEF p, r
    <3>3. QED
      BY <1>5, <2>1, <3>1, <3>2 DEF Tracker
  <2>2. CASE p.state # "inactive"
    <3>1. r = [q EXCEPT !.flying = TRUE]
      BY <1>6, <2>2
    <3>2. ~q.maximum /\ ~q.minimum /\ q.http /\ q.state = trk[t].state
      BY <1>2, <1>4 DEF Tracker
    <3> HIDE DEF q, r
    <3>3. r \in Tracker
      BY <1>6, <2>2 DEF r
    <3>4. QED
      BY <1>2, <1>5, <3>1, <3>2, <3>3 DEF Tracker
  <2>3. QED
    BY <2>1, <2>2
<1> HIDE DEF r
<1>8. QED
  BY <1>1, <1>2, <1>3, <1>7, TurnTakes
------------------------------------------------------------------------------
(* The start walk, and the beginnings and ends of walks.                   *)

\* start_event: the assert fails, or a tracker as new is given its timer.
LEMMA StartStep ==
  ASSUME Benign, TypeOK, Numbered, Running, TimersQuiet, start_event
  PROVE  IndInv'
<1> USE DEF space
<1> DEFINE t == cells[it]
           p == trk[t]
<1>1. /\ phase = "start" /\ it < end /\ it' = it + 1 /\ halted = "no"
      /\ UNCHANGED <<tracker_connections, space, active, phase, event_, handled, end,
                     control>>
  BY DEF start_event, Walking, More
<1>2. /\ it \in 1 .. size /\ size = end - 1 /\ Len(cells) = size /\ size \in Nat
      /\ t \in Trackers /\ Placed(t) /\ p \in Tracker
  <2>1. it \in 1 .. size /\ size = end - 1 /\ Len(cells) = size /\ size \in Nat
    BY <1>1 DEF TypeOK, Running, ShapeInv, Events
  <2>2. QED
    BY <2>1, InSpacePlaced DEF TypeOK
<1>3. CASE ~(p.state = "null" /\ p.type = "one")
  <2>1. halted' = "assert" /\ UNCHANGED trk
    BY <1>3 DEF start_event, Current, Benign
  <2>2. TypeOK'
    BY <1>1, <1>2, <2>1 DEF TypeOK, control
  <2>3. SpaceSound'
    BY <1>1, <1>2, <2>1, <2>2 DEF SpaceSound, Numbered, Running, PlacedInv
  <2>4. QED
    BY <1>1, <2>1, <2>3 DEF IndInv, TimersQuiet, InSpace
<1>4. CASE p.state = "null" /\ p.type = "one"
  <2> DEFINE q == [p EXCEPT !.state = "inactive", !.maximum = TRUE, !.left_out = FALSE]
  <2>1. trk' = [trk EXCEPT ![t] = q] /\ UNCHANGED halted
    BY <1>2, <1>4 DEF start_event, Current, TypeOK
  <2>2. /\ q \in Tracker /\ q.state = "inactive" /\ q.maximum /\ q.idx = p.idx
        /\ q.http = p.http /\ q.flying = p.flying /\ q.minimum = p.minimum
    BY <1>2 DEF Tracker
  <2> HIDE DEF q
  <2>3. ~p.flying /\ ~p.minimum /\ (p.http => HasHttp(t))
    BY <1>2, <1>4 DEF Running, TrackerInv
  <2>4. /\ trk' \in [Trackers -> Tracker] /\ trk'[t] = q
        /\ \A u \in Trackers \ {t} : trk'[u] = trk[u]
        /\ \A u \in Trackers : trk'[u].idx = trk[u].idx
    BY <1>2, <2>1, <2>2 DEF TypeOK
  <2>5. TypeOK'
    BY <1>1, <1>2, <2>1, <2>4 DEF TypeOK, control
  <2>6. \A i \in 1 .. size : cells[i] \in Trackers /\ (cells[i] = t => i = it)
    BY <1>2, InSpacePlaced DEF Numbered
  <2>7. Numbered'
    BY <1>1, <2>4, <2>6 DEF Numbered
  <2>8. ShapeInv' /\ AheadInv' /\ BehindInv'
    BY <1>1 DEF Running, ShapeInv, AheadInv, BehindInv, Removing
  <2>9. TrackerInv'
    <3> SUFFICES ASSUME NEW u \in Trackers
        PROVE  /\ trk'[u].http => HasHttp(u)
               /\ trk'[u].flying => trk'[u].http /\ trk'[u].state # "null"
               /\ trk'[u].minimum => /\ trk'[u].type = "two" /\ ~trk'[u].interruptible
                                     /\ trk'[u].maximum /\ trk'[u].first = "min"
                                     /\ trk'[u].state = "active"
               /\ trk'[u].maximum \/ trk'[u].minimum =>
                    trk'[u].idx <= size /\ cells[trk'[u].idx] = u
               /\ trk'[u].state = "active" /\ "no_peers" \notin Answers =>
                    \/ trk'[u].flying
                    \/ trk'[u].idx <= size /\ cells[trk'[u].idx] = u
      BY <1>1 DEF TrackerInv, Placed
    <3>1. CASE u = t
      BY <1>2, <2>2, <2>3, <2>4, <3>1 DEF Placed
    <3>2. CASE u # t
      BY <2>4, <3>2 DEF Running, TrackerInv, Placed
    <3>3. QED
      BY <3>1, <3>2
  <2>10. PlacedInv'
    <3> SUFFICES ASSUME NEW i \in 1 .. size
        PROVE  /\ trk'[cells[i]].http
               /\ i < it + 1 => trk'[cells[i]].state = "inactive" /\ trk'[cells[i]].maximum
               /\ trk'[cells[i]].flying => i >= it + 1
      BY <1>1 DEF PlacedInv
    <3>1. trk[cells[i]].http
      BY DEF Running, PlacedInv
    <3>2. CASE i = it
      BY <2>2, <2>3, <2>4, <3>1, <3>2
    <3>3. CASE i # it
      <4>1. /\ i < it => trk[cells[i]].state = "inactive" /\ trk[cells[i]].maximum
            /\ trk[cells[i]].flying => i >= it
        BY <1>1 DEF Running, PlacedInv
      <4>2. trk'[cells[i]] = trk[cells[i]]
        BY <2>4, <2>6, <3>3
      <4>3. QED
        BY <1>2, <3>1, <3>3, <4>1, <4>2
    <3>4. QED
      BY <3>2, <3>3
  <2>11. Running' /\ (halted = "no")'
    BY <1>1, <2>1, <2>8, <2>9, <2>10 DEF Running
  <2>12. QED
    BY <2>5, <2>7, <2>11, RunningSound, PTL
<1>5. QED
  BY <1>3, <1>4

\* Which walk can be next.
LEMMA WalkName ==
  ASSUME NEW done, NEW on \in BOOLEAN
  PROVE  /\ Walk(done, on) \in {"start", "finish"} \cup Removing
         /\ Walk(done, on) = "start" => done = "begin" /\ ~on
         /\ Walk(done, on) \in Removing => done \in {"begin", "start"} /\ on
BY DEF Walk, Removing

\* A walk begins, or the last one has ended, and storage is cut to the size.
LEMMA WalkBegins ==
  ASSUME TypeOK, Numbered, TrackerInv, TypeOK', halted' = "no",
         phase' \in {"finish"} \cup Removing, phase' \in Removing => active',
         phase' = "finish" => active' \/ size = 0,
         \A i \in 1 .. size : /\ trk[cells[i]].http /\ ~trk[cells[i]].flying
                              /\ trk[cells[i]].state # "null",
         cells' = SubSeq(cells, 1, size), UNCHANGED <<trk, size>>,
         it' = 1, end' = size + 1
  PROVE  IndInv'
<1>1. /\ size \in Nat /\ Len(cells') = size
      /\ \A i \in 1 .. size : cells'[i] = cells[i] /\ cells[i] \in Trackers
  BY InSpacePlaced DEF TypeOK
<1>2. Numbered'
  BY <1>1 DEF Numbered
<1>3. phase' # "start" /\ phase' # "idle"
  BY DEF Removing
<1>4. ShapeInv'
  BY <1>1, <1>3 DEF ShapeInv
<1>5. TrackerInv'
  <2>1. \A u \in Trackers : trk[u].idx <= size /\ cells[trk[u].idx] = u
          => cells'[trk[u].idx] = u
    <3>1. \A u \in Trackers : trk[u].idx \in Nat \ {0}
      BY DEF TypeOK, Tracker
    <3>2. \A n \in Nat \ {0} : n <= size => n \in 1 .. size
      BY <1>1
    <3>3. QED
      BY <1>1, <3>1, <3>2
  <2>2. QED
    BY <2>1 DEF TrackerInv, Placed
<1>6. PlacedInv'
  BY <1>1, <1>3 DEF PlacedInv
<1>7. AheadInv'
  <2> SUFFICES ASSUME NEW j \in it' .. end' - 1
      PROVE  /\ trk'[cells'[j]].idx <= size' /\ cells'[trk'[cells'[j]].idx] = cells'[j]
             /\ j > size' => trk'[cells'[j]].idx < it'
             /\ \A k \in it' .. end' - 1 : cells'[j] = cells'[k] => j = k
    BY DEF AheadInv, Placed
  <2> j \in 1 .. size /\ it' .. end' - 1 = 1 .. size /\ ~(j > size')
    BY <1>1
  <2>1. trk[cells[j]].idx = j /\ \A k \in 1 .. size : trk[cells[k]].idx = k
    BY DEF Numbered
  <2>2. QED
    BY <1>1, <2>1
<1>8. BehindInv'
  BY <1>1 DEF BehindInv
<1>9. Running' /\ (halted = "no")'
  BY <1>4, <1>5, <1>6, <1>7, <1>8 DEF Running
<1>10. QED
  BY <1>2, <1>9, RunningSound, PTL

\* populate_manager_space, always of an empty vector.
LEMMA PopulateStep ==
  ASSUME TypeOK, Running, phase = "idle", ~active, halted = "no", UNCHANGED halted,
         populate_manager_space, phase' = "start", it' = 1, end' = size' + 1,
         UNCHANGED <<tracker_connections, active>>, event_' \subseteq Events,
         handled' \subseteq Events, UNCHANGED <<set, calling, calls>>,
         signal' \in BOOLEAN, fed' \in BOOLEAN
  PROVE  IndInv'
<1> DEFINE known == {t \in tracker_connections : HasHttp(t)}
<1>1. size = 0 /\ cells = << >>
  BY DEF Running, ShapeInv, TypeOK
<1>2. PICK order \in SetToSeqs(known) :
        /\ cells' = SubSeq(cells, 1, size) \o order
        /\ size' = size + Len(order)
        /\ trk' = [t \in Trackers |->
             IF t \notin known THEN trk[t]
             ELSE [trk[t] EXCEPT !.idx = size + CHOOSE i \in DOMAIN order : order[i] = t,
                                 !.current = IF trk[t].http THEN @ ELSE SeekHttp(t, @),
                                 !.http = TRUE]]
  BY DEF populate_manager_space
<1>3. known \in SUBSET Trackers
  BY DEF TypeOK
<1>4. /\ order \in Seq(Trackers)
      /\ \A i, j \in 1 .. Len(order) : order[i] = order[j] => i = j
      /\ \A i \in 1 .. Len(order) : order[i] \in known
      /\ \A t \in known : \E i \in 1 .. Len(order) : order[i] = t
  <2> HIDE DEF known
  <2>1. order \in SetToSeqs(known)
    BY <1>2, Zenon
  <2>2. QED
    BY <1>3, <2>1, OrderIsOnto, ZenonT(40)
<1>5. cells' = order /\ size' = Len(order) /\ size' \in Nat
  <2>1. SubSeq(cells, 1, size) = << >>
    BY <1>1, SubSeqEmpty
  <2>2. << >> \o order = order
    BY <1>4, ConcatEmptySeq
  <2>3. cells' = order
    BY <1>2, <2>1, <2>2, Zenon
  <2>4. size' = size + Len(order)
    BY <1>2, Zenon
  <2>5. Len(order) \in Nat
    BY <1>4
  <2> HIDE DEF known
  <2>6. QED
    BY <1>1, <2>3, <2>4, <2>5
<1> DEFINE Place(t) == CHOOSE i \in DOMAIN order : order[i] = t
<1>6. \A t \in known : Place(t) \in 1 .. Len(order) /\ order[Place(t)] = t
  BY <1>4
<1>7. \A i \in 1 .. Len(order) : Place(order[i]) = i
  <2> HIDE DEF Place, known
  <2>1. QED
    BY <1>4, <1>6
<1>8. ASSUME NEW t \in Trackers
      PROVE  /\ trk'[t] \in Tracker
             /\ ~trk'[t].maximum /\ ~trk'[t].minimum
             /\ trk'[t].http => HasHttp(t)
             /\ trk'[t].flying => trk'[t].http /\ trk'[t].state # "null"
             /\ trk'[t].state = "active" /\ "no_peers" \notin Answers => trk'[t].flying
             /\ t \in known => trk'[t].http /\ trk'[t].idx = Place(t)
  <2>1. trk[t] \in Tracker /\ ~trk[t].maximum /\ ~trk[t].minimum
    BY <1>1 DEF TypeOK, Tracker, Running, TrackerInv, Placed
  <2>2. /\ trk[t].http => HasHttp(t)
        /\ trk[t].flying => trk[t].http /\ trk[t].state # "null"
        /\ trk[t].state = "active" /\ "no_peers" \notin Answers => trk[t].flying
    BY <1>1 DEF Running, TrackerInv, Placed, TypeOK, Tracker
  <2>3. CASE t \notin known
    BY <1>2, <2>1, <2>2, <2>3
  <2>4. CASE t \in known
    <3> DEFINE c == IF trk[t].http THEN trk[t].current ELSE SeekHttp(t, trk[t].current)
               n == 0 + Place(t)
    <3>1. trk'[t] = [trk[t] EXCEPT !.idx = n, !.current = c, !.http = TRUE]
      BY <1>1, <1>2, <2>1, <2>4 DEF Tracker
    <3>2. c \in Nat \ {0}
      <4>1. trk[t].current \in Nat \ {0} /\ HasHttp(t)
        BY <2>1, <2>4 DEF Tracker
      <4>2. SeekHttp(t, trk[t].current) \in DOMAIN Urls[t]
        BY <4>1, SeekFindsHttp
      <4>3. QED
        BY <4>1, <4>2, UrlsAssumption
    <3>3. n \in Nat \ {0} /\ n = Place(t) /\ HasHttp(t)
      BY <1>4, <1>6, <2>4
    <3> HIDE DEF c, n, Place, known
    <3>4. QED
      BY <2>1, <2>2, <2>4, <3>1, <3>2, <3>3, ZenonT(40) DEF Tracker
  <2>5. QED
    BY <2>3, <2>4
<1>9. trk' \in [Trackers -> Tracker]
  <2> DEFINE Record(t) ==
        IF t \notin known THEN trk[t]
        ELSE [trk[t] EXCEPT !.idx = size + Place(t),
                            !.current = IF trk[t].http THEN @ ELSE SeekHttp(t, @),
                            !.http = TRUE]
  <2>1. trk' = [t \in Trackers |-> Record(t)]
    BY <1>2
  <2> HIDE DEF Record
  <2>2. QED
    BY <1>8, <2>1
<1> HIDE DEF Place, known
<1>10. ASSUME NEW i \in 1 .. size'
       PROVE  trk'[cells'[i]].http /\ trk'[cells'[i]].idx = i
  BY <1>3, <1>4, <1>5, <1>7, <1>8
<1>11. TypeOK' /\ Numbered'
  <2>1. cells' \in Seq(Trackers) /\ size' \in 0 .. Len(cells')
    BY <1>4, <1>5
  <2>2. it' \in 1 .. end' /\ end' \in Nat \ {0}
    BY <1>5
  <2>3. QED
    BY <1>9, <1>10, <2>1, <2>2 DEF TypeOK, Numbered, Events
<1>12. ShapeInv' /\ AheadInv' /\ BehindInv'
  BY <1>5 DEF ShapeInv, AheadInv, BehindInv, Removing
<1>13. TrackerInv'
  BY <1>8 DEF TrackerInv
<1>14. PlacedInv'
  BY <1>5, <1>10 DEF PlacedInv
<1>15. Running' /\ (halted = "no")'
  BY <1>12, <1>13, <1>14 DEF Running
<1>16. QED
  BY <1>11, <1>15, RunningSound, PTL

\* The beginning of handle_event.
LEMMA EventBeginsStep ==
  ASSUME TypeOK, Numbered, Running, EventBegins
  PROVE  IndInv'
<1>1. /\ phase = "idle" /\ halted = "no" /\ UNCHANGED halted
      /\ fed' \in BOOLEAN /\ signal' \in BOOLEAN /\ event_' \subseteq Events
      /\ handled' \subseteq Events
      /\ UNCHANGED <<tracker_connections, active, set, calling, calls>>
      /\ phase' = Walk("begin", active) /\ it' = 1 /\ end' = size' + 1
      /\ IF phase' = "start" THEN populate_manager_space
         ELSE cells' = SubSeq(cells, 1, size) /\ UNCHANGED <<trk, size>>
  BY DEF EventBegins, Idle, EnterWalk, TypeOK
<1>2. /\ phase' \in {"start", "finish"} \cup Removing
      /\ phase' = "start" => ~active
      /\ phase' \in Removing => active
  BY <1>1, WalkName DEF TypeOK
<1>3. CASE phase' = "start"
  BY <1>1, <1>2, <1>3, PopulateStep
<1>4. CASE phase' # "start"
  <2>1. /\ cells' = SubSeq(cells, 1, size) /\ UNCHANGED <<trk, size>>
        /\ cells' \in Seq(Trackers) /\ Len(cells') = size /\ size \in Nat
    BY <1>1, <1>4 DEF TypeOK
  <2>2. TypeOK'
    BY <1>1, <1>2, <2>1 DEF TypeOK, Removing, Events
  <2>3. active \/ size = 0
    BY <1>1 DEF Running, ShapeInv
  <2>4. \A i \in 1 .. size : /\ trk[cells[i]].http /\ ~trk[cells[i]].flying
                             /\ trk[cells[i]].state # "null"
    BY <1>1 DEF Running, PlacedInv
  <2>5. QED
    BY <1>1, <1>2, <1>4, <2>1, <2>2, <2>3, <2>4, WalkBegins DEF Running
<1>5. QED
  BY <1>3, <1>4

\* The end of a walk: shutdown has emptied manager_space, start has dealt with all of it.
LEMMA WalkEndsStep ==
  ASSUME TypeOK, Numbered, Running, WalkEnds
  PROVE  IndInv'
<1>1. /\ halted = "no" /\ phase \in Events /\ ~(it < end)
      /\ UNCHANGED <<tracker_connections, event_, control, halted>>
      /\ handled' = handled \cup
           CASE phase = "shutdown" -> {"shutdown", "reannounce", "force_reannounce"}
             [] phase = "force_reannounce" -> {"force_reannounce", "reannounce"}
             [] OTHER -> {phase}
      /\ phase' = Walk(phase, active') /\ it' = 1 /\ end' = size' + 1
      /\ IF phase' = "start" THEN populate_manager_space
         ELSE cells' = SubSeq(cells, 1, size) /\ UNCHANGED <<trk, size>>
  BY DEF WalkEnds, More, EnterWalk
<1>2. active' = CASE phase = "start" -> TRUE [] phase = "shutdown" -> FALSE
                  [] OTHER -> active
  BY DEF WalkEnds
<1>3. handled' \subseteq Events
  <2>1. handled \subseteq Events /\ phase \in Events
    BY <1>1 DEF TypeOK
  <2>2. {"shutdown", "reannounce", "force_reannounce", phase} \subseteq Events
    BY <2>1 DEF Events
  <2>3. QED
    BY <1>1, <2>1, <2>2
<1>4. active' \in BOOLEAN /\ (phase # "shutdown" => active' = TRUE)
  BY <1>1, <1>2 DEF TypeOK, Running, ShapeInv, Removing, Events
<1>5. /\ phase' \in {"finish"} \cup Removing
      /\ phase' \in Removing => active'
  BY <1>1, <1>4, WalkName DEF Events
<1>6. /\ cells' = SubSeq(cells, 1, size) /\ UNCHANGED <<trk, size>>
      /\ cells' \in Seq(Trackers) /\ Len(cells') = size /\ size \in Nat
  <2>1. phase' # "start"
    BY <1>5 DEF Removing
  <2>2. cells' = SubSeq(cells, 1, size) /\ UNCHANGED <<trk, size>>
    BY <1>1, <2>1
  <2>3. QED
    BY <2>2 DEF TypeOK
<1>7. it = end /\ it \in Nat
  BY <1>1 DEF TypeOK
<1>8. TypeOK'
  BY <1>1, <1>3, <1>4, <1>5, <1>6 DEF TypeOK, Removing, Events, control
<1>9. phase = "shutdown" => size = 0
  <2>1. SUFFICES ASSUME phase = "shutdown", size > 0 PROVE FALSE
    BY <1>6
  <2>2. 1 \in 1 .. size /\ phase \in Removing
    BY <1>6, <2>1 DEF Removing
  <2>3. \E j \in it .. end - 1 : cells[j] = cells[1]
    BY <2>1, <2>2 DEF Running, BehindInv, Takes
  <2>4. QED
    BY <1>7, <2>3
<1>10. ASSUME NEW i \in 1 .. size
       PROVE  /\ trk[cells[i]].http /\ ~trk[cells[i]].flying
              /\ trk[cells[i]].state # "null"
  <2>1. phase = "start" => i < it
    BY <1>1, <1>7 DEF Running, ShapeInv
  <2>2. QED
    BY <1>6, <1>7, <2>1 DEF Running, PlacedInv
<1>11. QED
  BY <1>1, <1>4, <1>5, <1>6, <1>8, <1>9, <1>10, WalkBegins DEF Running
------------------------------------------------------------------------------
(* Callbacks between two calls of handle_event.                            *)

\* A step that touches nothing the invariant looks at.
LEMMA QuietStep ==
  ASSUME IndInv, TypeOK', UNCHANGED <<trk, space, active, phase, walk, halted>>
  PROVE  IndInv'
<1> USE DEF space, walk
<1>1. SpaceSound' /\ TimersQuiet'
  BY DEF IndInv, SpaceSound, TimersQuiet, InSpace
<1>2. ShapeInv' = ShapeInv /\ TrackerInv' = TrackerInv /\ PlacedInv' = PlacedInv
  BY DEF ShapeInv, TrackerInv, Placed, PlacedInv
<1>3. AheadInv' = AheadInv /\ BehindInv' = BehindInv
  BY DEF AheadInv, Placed, BehindInv
<1>4. QED
  BY <1>1, <1>2, <1>3 DEF IndInv, Running

\* The end of handle_event.
LEMMA EventEndsStep ==
  ASSUME TypeOK, Numbered, Running, EventEnds
  PROVE  IndInv'
<1> USE DEF space
<1>1. /\ halted = "no" /\ phase = "finish" /\ phase' = "idle" /\ it' = 1 /\ end' = 1
      /\ UNCHANGED <<tracker_connections, trk, space, active, halted>>
  BY DEF EventEnds
<1>2. TypeOK' /\ Numbered'
  BY <1>1 DEF TypeOK, Numbered, EventEnds
<1>3. ShapeInv' /\ TrackerInv' /\ PlacedInv' /\ AheadInv' /\ BehindInv'
  BY <1>1 DEF Running, ShapeInv, TrackerInv, PlacedInv, AheadInv, BehindInv, Placed,
              Removing, Events
<1>4. Running' /\ (halted = "no")'
  BY <1>1, <1>3 DEF Running
<1>5. QED
  BY <1>2, <1>4, RunningSound, PTL

\* A record changes and its tracker stays where it is.
LEMMA RecordStep ==
  ASSUME TypeOK, Numbered, Running, phase = "idle", halted = "no",
         NEW t \in Trackers, NEW q \in Tracker, q.idx = trk[t].idx,
         q.http => HasHttp(t), ~q.flying, ~q.minimum, q.maximum => Placed(t),
         Placed(t) => q.http /\ q.state # "null",
         q.state = "active" /\ "no_peers" \notin Answers => Placed(t),
         trk' = [trk EXCEPT ![t] = q],
         UNCHANGED <<tracker_connections, space, active, handler, control, halted>>
  PROVE  IndInv'
<1> USE DEF space, handler, walk
<1>1. /\ trk' \in [Trackers -> Tracker] /\ trk'[t] = q
      /\ \A u \in Trackers \ {t} : trk'[u] = trk[u]
      /\ \A u \in Trackers : trk'[u].idx = trk[u].idx
  BY DEF TypeOK
<1>2. \A i \in 1 .. size : cells[i] \in Trackers /\ Placed(cells[i])
  BY InSpacePlaced
<1>3. TypeOK' /\ Numbered'
  BY <1>1, <1>2 DEF TypeOK, Numbered, control
<1>4. ShapeInv' /\ AheadInv' /\ BehindInv'
  BY DEF Running, ShapeInv, AheadInv, BehindInv, Removing, Events
<1>5. TrackerInv'
  <2> SUFFICES ASSUME NEW u \in Trackers
      PROVE  /\ trk'[u].http => HasHttp(u)
             /\ trk'[u].flying => trk'[u].http /\ trk'[u].state # "null"
             /\ trk'[u].minimum => /\ trk'[u].type = "two" /\ ~trk'[u].interruptible
                                   /\ trk'[u].maximum /\ trk'[u].first = "min"
                                   /\ trk'[u].state = "active"
             /\ trk'[u].maximum \/ trk'[u].minimum =>
                  trk'[u].idx <= size /\ cells[trk'[u].idx] = u
             /\ trk'[u].state = "active" /\ "no_peers" \notin Answers =>
                  \/ trk'[u].flying
                  \/ trk'[u].idx <= size /\ cells[trk'[u].idx] = u
    BY DEF TrackerInv, Placed
  <2>1. CASE u = t
    BY <1>1, <2>1 DEF Placed
  <2>2. CASE u # t
    BY <1>1, <2>2 DEF Running, TrackerInv, Placed
  <2>3. QED
    BY <2>1, <2>2
<1>6. PlacedInv'
  <2> SUFFICES ASSUME NEW i \in 1 .. size
      PROVE  trk'[cells[i]].http /\ ~trk'[cells[i]].flying /\ trk'[cells[i]].state # "null"
    BY DEF PlacedInv
  <2>1. CASE cells[i] = t
    BY <1>1, <1>2, <2>1
  <2>2. CASE cells[i] # t
    BY <1>1, <1>2, <2>2 DEF Running, PlacedInv
  <2>3. QED
    BY <2>1, <2>2
<1>7. Running' /\ (halted = "no")'
  BY <1>4, <1>5, <1>6 DEF Running
<1>8. QED
  BY <1>3, <1>7, RunningSound, PTL

\* A tracker leaves manager_space outside a walk.
LEMMA IdleTakes ==
  ASSUME TypeOK, Numbered, Running, phase = "idle", halted = "no",
         NEW t \in Trackers, Placed(t), NEW p \in Tracker, Sent(t, p),
         p.http => HasHttp(t), p.flying => p.http /\ p.state # "null",
         p.state = "active" => p.flying, ~p.maximum, ~p.minimum,
         UNCHANGED <<tracker_connections, active, handler, control, halted>>
  PROVE  IndInv'
<1> USE DEF handler, walk
<1>1. Len(cells) = size /\ size \in Nat /\ (active \/ size = 0)
  BY DEF Running, ShapeInv, TypeOK
<1>2. /\ size > 0 /\ size' = size - 1
      /\ cells' \in Seq(Trackers) /\ size' \in 0 .. Len(cells') /\ Len(cells') = size'
      /\ trk' \in [Trackers -> Tracker] /\ trk'[t] = p
      /\ Numbered'
  BY <1>1, SentEffect
<1>3. \A u \in Trackers \ {t} : Alike(trk'[u], trk[u])
  BY <1>1, SentEffect
<1>4. \A i \in 1 .. size' : cells'[i] # t /\ \E k \in 1 .. size : cells'[i] = cells[k]
  BY <1>1, SentEffect
<1>5. \A u \in Trackers \ {t} : Placed(u) => trk'[u].idx <= size' /\ cells'[trk'[u].idx] = u
  BY <1>1, SentEffect
<1>6. TypeOK'
  BY <1>1, <1>2 DEF TypeOK, control
<1>7. ShapeInv' /\ AheadInv' /\ BehindInv'
  BY <1>1, <1>2 DEF ShapeInv, AheadInv, BehindInv, Removing, Events
<1>8. TrackerInv'
  <2> SUFFICES ASSUME NEW u \in Trackers
      PROVE  /\ trk'[u].http => HasHttp(u)
             /\ trk'[u].flying => trk'[u].http /\ trk'[u].state # "null"
             /\ trk'[u].minimum => /\ trk'[u].type = "two" /\ ~trk'[u].interruptible
                                   /\ trk'[u].maximum /\ trk'[u].first = "min"
                                   /\ trk'[u].state = "active"
             /\ trk'[u].maximum \/ trk'[u].minimum =>
                  trk'[u].idx <= size' /\ cells'[trk'[u].idx] = u
             /\ trk'[u].state = "active" /\ "no_peers" \notin Answers =>
                  \/ trk'[u].flying
                  \/ trk'[u].idx <= size' /\ cells'[trk'[u].idx] = u
    BY DEF TrackerInv, Placed
  <2>1. CASE u = t
    BY <1>2, <2>1
  <2>2. CASE u # t
    BY <1>3, <1>5, <2>2 DEF Running, TrackerInv, Alike
  <2>3. QED
    BY <2>1, <2>2
<1>9. PlacedInv'
  <2> SUFFICES ASSUME NEW i \in 1 .. size'
      PROVE  trk'[cells'[i]].http /\ ~trk'[cells'[i]].flying /\ trk'[cells'[i]].state # "null"
    BY DEF PlacedInv
  <2>1. PICK k \in 1 .. size : cells'[i] = cells[k] /\ cells[k] # t
    BY <1>4
  <2>2. cells[k] \in Trackers
    BY InSpacePlaced
  <2>3. trk[cells[k]].http /\ ~trk[cells[k]].flying /\ trk[cells[k]].state # "null"
    BY DEF Running, PlacedInv
  <2>4. QED
    BY <1>3, <2>1, <2>2, <2>3 DEF Alike
<1>10. Running' /\ (halted = "no")'
  BY <1>7, <1>8, <1>9 DEF Running
<1>11. QED
  BY <1>2, <1>6, <1>10, RunningSound, PTL

\* tracker_timeout_handler: only an element of manager_space has a timer.
LEMMA TimeoutStep ==
  ASSUME TypeOK, Numbered, Running, NEW t \in Trackers, NEW which \in {"min", "max"},
         tracker_timeout_handler(t, which)
  PROVE  IndInv'
<1> DEFINE p == Expired(trk[t], which)
<1>1. /\ phase = "idle" /\ halted = "no" /\ MayExpire(trk[t], which)
      /\ UNCHANGED <<tracker_connections, active, handler, control>>
  BY DEF tracker_timeout_handler, Polled, Idle
<1>2. trk[t] \in Tracker
  BY DEF TypeOK
<1>3. /\ trk[t].minimum => /\ trk[t].type = "two" /\ ~trk[t].interruptible
                           /\ trk[t].first = "min" /\ trk[t].state = "active"
      /\ Placed(t)
  BY <1>1 DEF MayExpire, Running, TrackerInv
<1>4. trk[t].http /\ HasHttp(t) /\ ~trk[t].flying /\ trk[t].state # "null"
  BY <1>1, <1>3, ElementFacts
<1>5. /\ p \in Tracker /\ ~p.minimum /\ p.http /\ ~p.flying /\ p.state = trk[t].state
      /\ p.idx = trk[t].idx /\ p.type = trk[t].type /\ p.interruptible = trk[t].interruptible
      /\ p.maximum => which = "min"
  BY <1>1, <1>2, <1>3, <1>4 DEF Expired, MayExpire, Tracker
<1> HIDE DEF p
<1>6. CASE p.type = "two" /\ ~p.interruptible
  <2> DEFINE q == [p EXCEPT !.interruptible = TRUE]
  <2>1. trk' = [trk EXCEPT ![t] = q] /\ UNCHANGED <<space, halted>>
    BY <1>5, <1>6 DEF tracker_timeout_handler, p
  <2>2. /\ q \in Tracker /\ ~q.minimum /\ q.http /\ ~q.flying /\ q.state # "null"
        /\ q.idx = trk[t].idx
    BY <1>4, <1>5 DEF Tracker
  <2> HIDE DEF q
  <2>3. QED
    BY <1>1, <1>3, <1>4, <2>1, <2>2, RecordStep
<1>7. CASE ~(p.type = "two" /\ ~p.interruptible)
  <2>1. send_to_protocol_space(t, Requested(p))
    BY <1>7 DEF tracker_timeout_handler, p
  <2>2. Sent(t, Requested(p)) /\ UNCHANGED halted
    BY <1>3, <2>1, Sendable
  <2>3. ~p.maximum
    BY <1>1, <1>3, <1>5, <1>7 DEF MayExpire
  <2>4. Requested(p) \in Tracker /\ Requested(p) = [p EXCEPT !.flying = TRUE]
    BY <1>5, RequestedRecord
  <2>5. /\ Requested(p).http /\ Requested(p).state # "null" /\ Requested(p).flying
        /\ ~Requested(p).maximum /\ ~Requested(p).minimum
    BY <1>4, <1>5, <2>3, <2>4 DEF Tracker
  <2>6. QED
    BY <1>1, <1>3, <1>4, <2>2, <2>4, <2>5, IdleTakes
<1>8. QED
  BY <1>6, <1>7

\* The end of a state handler: the tracker returns to manager_space or is reset.
LEMMA SettledStep ==
  ASSUME TypeOK, Numbered, Running, phase = "idle", halted = "no",
         NEW t \in Trackers, trk[t].flying, NEW p \in Tracker,
         p.http, p.state # "null",
         p.minimum => /\ p.type = "two" /\ ~p.interruptible
                      /\ p.maximum /\ p.first = "min" /\ p.state = "active",
         Settled(t, p),
         UNCHANGED <<tracker_connections, active, handler, control, halted>>
  PROVE  IndInv'
<1> USE DEF handler, walk
<1>1. Len(cells) = size /\ size \in Nat /\ cells \in Seq(Trackers) /\ (active \/ size = 0)
  BY DEF Running, ShapeInv, TypeOK
<1>2. ~Placed(t) /\ HasHttp(t)
  BY ElementFacts DEF Running, TrackerInv
<1>3. CASE ~active
  <2>1. trk' = [trk EXCEPT ![t] = Blank] /\ size = 0 /\ UNCHANGED space
    BY <1>1, <1>3 DEF Settled
  <2>2. Blank \in Tracker /\ ~Blank.http /\ ~Blank.flying /\ ~Blank.minimum /\ ~Blank.maximum
    BY BoundsAssumption DEF Blank, Tracker
  <2>3. /\ trk' \in [Trackers -> Tracker] /\ trk'[t] = Blank
        /\ \A u \in Trackers \ {t} : trk'[u] = trk[u]
    BY <2>1, <2>2 DEF TypeOK
  <2>4. TypeOK' /\ Numbered'
    BY <2>1, <2>3 DEF TypeOK, Numbered, control, space
  <2>5. ShapeInv' /\ AheadInv' /\ BehindInv' /\ PlacedInv'
    BY <1>1, <1>3, <2>1 DEF ShapeInv, AheadInv, BehindInv, PlacedInv, Removing, Events, space
  <2>6. TrackerInv'
    BY <1>2, <2>1, <2>2, <2>3 DEF Running, TrackerInv, Placed, space, Blank
  <2>7. Running' /\ (halted = "no")'
    BY <2>5, <2>6 DEF Running
  <2>8. QED
    BY <2>4, <2>7, RunningSound, PTL
<1>4. CASE active
  <2> DEFINE q == [[p EXCEPT !.flying = FALSE] EXCEPT !.idx = size + 1]
  <2>1. /\ cells' = Append(cells, t) /\ size' = size + 1
        /\ trk' = [trk EXCEPT ![t] = q]
    BY <1>4 DEF Settled, return_to_manager_space
  <2>2. /\ q \in Tracker /\ q.idx = size + 1 /\ ~q.flying /\ q.http /\ q.state # "null"
        /\ q.minimum => /\ q.type = "two" /\ ~q.interruptible
                        /\ q.maximum /\ q.first = "min" /\ q.state = "active"
    <3> DEFINE n == size + 1
    <3>1. n \in Nat \ {0}
      BY <1>1
    <3> HIDE DEF n
    <3>2. q = [p EXCEPT !.flying = FALSE, !.idx = n]
      BY DEF n, Tracker
    <3> HIDE DEF q
    <3>3. /\ q \in Tracker /\ q.idx = n /\ ~q.flying /\ q.http = p.http
          /\ q.state = p.state /\ q.minimum = p.minimum /\ q.type = p.type
          /\ q.interruptible = p.interruptible /\ q.maximum = p.maximum
          /\ q.first = p.first
      BY <3>1, <3>2 DEF Tracker
    <3>4. QED
      BY <3>3 DEF n
  <2> HIDE DEF q
  <2>3. /\ trk' \in [Trackers -> Tracker] /\ trk'[t] = q
        /\ \A u \in Trackers \ {t} : trk'[u] = trk[u]
    BY <2>1, <2>2 DEF TypeOK
  <2>4. /\ cells' \in Seq(Trackers) /\ Len(cells') = size + 1 /\ cells'[size + 1] = t
        /\ \A i \in 1 .. size : cells'[i] = cells[i]
    BY <1>1, <2>1
  <2>5. \A i \in 1 .. size : cells[i] \in Trackers \ {t}
    BY <1>2, InSpacePlaced
  <2>6. \A i \in 1 .. size + 1 : i \in 1 .. size \/ i = size + 1
    BY <1>1
  <2>7. TypeOK'
    BY <1>1, <2>1, <2>3, <2>4 DEF TypeOK, control
  <2>8. Numbered'
    BY <2>1, <2>2, <2>3, <2>4, <2>5, <2>6 DEF Numbered
  <2>9. ShapeInv' /\ AheadInv' /\ BehindInv'
    BY <1>1, <1>4, <2>1, <2>4 DEF ShapeInv, AheadInv, BehindInv, Removing, Events
  <2>10. TrackerInv'
    <3> SUFFICES ASSUME NEW u \in Trackers
        PROVE  /\ trk'[u].http => HasHttp(u)
               /\ trk'[u].flying => trk'[u].http /\ trk'[u].state # "null"
               /\ trk'[u].minimum => /\ trk'[u].type = "two" /\ ~trk'[u].interruptible
                                     /\ trk'[u].maximum /\ trk'[u].first = "min"
                                     /\ trk'[u].state = "active"
               /\ trk'[u].maximum \/ trk'[u].minimum =>
                    trk'[u].idx <= size' /\ cells'[trk'[u].idx] = u
               /\ trk'[u].state = "active" /\ "no_peers" \notin Answers =>
                    \/ trk'[u].flying
                    \/ trk'[u].idx <= size' /\ cells'[trk'[u].idx] = u
      BY DEF TrackerInv, Placed
    <3>1. CASE u = t
      BY <1>1, <1>2, <2>1, <2>2, <2>3, <2>4, <3>1
    <3>2. CASE u # t
      <4>1. ASSUME Placed(u)
            PROVE  trk[u].idx <= size' /\ cells'[trk[u].idx] = u
        <5>1. trk[u].idx \in 1 .. size /\ cells[trk[u].idx] = u
          BY <4>1, InSpacePlaced DEF Placed
        <5>2. QED
          BY <1>1, <2>1, <2>4, <5>1
      <4>2. QED
        BY <2>3, <3>2, <4>1 DEF Running, TrackerInv
    <3>3. QED
      BY <3>1, <3>2
  <2>11. PlacedInv'
    <3> SUFFICES ASSUME NEW i \in 1 .. size + 1
        PROVE  /\ trk'[cells'[i]].http /\ ~trk'[cells'[i]].flying
               /\ trk'[cells'[i]].state # "null"
      BY <2>1 DEF PlacedInv
    <3>1. CASE i = size + 1
      BY <2>2, <2>3, <2>4, <3>1
    <3>2. CASE i \in 1 .. size
      BY <2>3, <2>4, <2>5, <3>2 DEF Running, PlacedInv
    <3>3. QED
      BY <2>6, <3>1, <3>2
  <2>12. Running' /\ (halted = "no")'
    BY <2>9, <2>10, <2>11 DEF Running
  <2>13. QED
    BY <2>7, <2>8, <2>12, RunningSound, PTL
<1>5. QED
  BY <1>3, <1>4 DEF TypeOK

\* What is known of a tracker whose request is with libcurl.
LEMMA FlyingFacts ==
  ASSUME TypeOK, Numbered, Running, phase = "idle", NEW t \in Trackers, trk[t].flying
  PROVE  /\ trk[t] \in Tracker /\ trk[t].http /\ HasHttp(t)
         /\ ~Placed(t) /\ ~trk[t].maximum /\ ~trk[t].minimum
<1>1. ~Placed(t)
  BY ElementFacts
<1>2. QED
  BY <1>1 DEF TypeOK, Running, TrackerInv

\* inactive_state_handler: with few failures the table of retry intervals is not overrun.
LEMMA FailureStep ==
  ASSUME Benign, TypeOK, Numbered, Running, NEW t \in Trackers, inactive_state_handler(t)
  PROVE  IndInv'
<1> DEFINE p      == trk[t]
           failed == IF p.just_failed THEN p.failed_idx ELSE p.current
           next   == SeekHttp(t, p.current)
           all    == failed = next
           counted == IF all /\ p.failures < FailuresCap THEN p.failures + 1 ELSE p.failures
           pause_ == IF all THEN "retry" ELSE "next_url"
           tried_ == IF all THEN {} ELSE p.tried \cup {p.current}
           q == [p EXCEPT
             !.state = "inactive", !.type = "one", !.first = "any", !.maximum = TRUE,
             !.just_failed = TRUE, !.failed_idx = failed, !.current = next, !.http = TRUE,
             !.failures = counted, !.pause = pause_, !.tried = tried_]
<1>1. /\ phase = "idle" /\ halted = "no" /\ p.flying
      /\ UNCHANGED <<tracker_connections, active, handler, control>>
      /\ IF all THEN get_retry_seconds(p.failures + 1) ELSE UNCHANGED halted
  BY DEF inactive_state_handler, Polled, Idle
<1>2. Settled(t, q)
  BY DEF inactive_state_handler
<1>3. p \in Tracker /\ p.http /\ HasHttp(t) /\ ~p.minimum
  BY <1>1, FlyingFacts
<1>4. /\ p.current \in Nat \ {0} /\ p.failed_idx \in Nat /\ p.failures \in 0 .. FailuresCap
      /\ p.tried \in SUBSET (Nat \ {0})
  BY <1>3 DEF Tracker
<1>5. next \in Nat \ {0}
  <2>1. next \in DOMAIN Urls[t]
    BY <1>3, <1>4, SeekFindsHttp
  <2>2. QED
    BY <2>1, UrlsAssumption
<1> HIDE DEF next
<1>6. /\ failed \in Nat /\ counted \in 0 .. FailuresCap
      /\ pause_ \in {"retry", "next_url"} /\ tried_ \in SUBSET (Nat \ {0})
  BY <1>4, BoundsAssumption
<1>7. UNCHANGED halted
  BY <1>1, <1>4, BoundsAssumption DEF get_retry_seconds, Benign
<1> HIDE DEF failed, counted, pause_, tried_, p
<1>8. q \in Tracker /\ q.http /\ q.state # "null" /\ ~q.minimum
  BY <1>3, <1>5, <1>6 DEF Tracker
<1> HIDE DEF q
<1>9. QED
  BY <1>1, <1>2, <1>7, <1>8, SettledStep DEF p

\* active_state_handler, with and without peers in the answer.
LEMMA ActiveStep ==
  ASSUME Benign, TypeOK, Numbered, Running, NEW t \in Trackers, active_state_handler(t)
  PROVE  IndInv'
<1>1. /\ phase = "idle" /\ halted = "no" /\ trk[t].flying
      /\ UNCHANGED <<tracker_connections, active, handler, control, halted>>
  BY DEF active_state_handler, Polled, Idle
<1>2. /\ trk[t] \in Tracker /\ trk[t].http /\ HasHttp(t)
      /\ ~Placed(t) /\ ~trk[t].maximum /\ ~trk[t].minimum
  BY <1>1, FlyingFacts
<1>3. ASSUME NEW kind \in {"interval", "min_first", "max_first"}
      PROVE  /\ Answered(trk[t], kind) \in Tracker
             /\ Answered(trk[t], kind).http
             /\ Answered(trk[t], kind).state = "active"
             /\ ~Answered(trk[t], kind).maximum /\ ~Answered(trk[t], kind).minimum
             /\ Answered(trk[t], kind).idx = trk[t].idx
             /\ Answered(trk[t], kind).type = IF kind = "interval" THEN "one" ELSE "two"
  <2> DEFINE p == trk[t]
             type_ == IF kind \in {"min_first", "max_first"} THEN "two" ELSE "one"
             a == [p EXCEPT !.state = "active", !.failures = 0, !.failed_idx = 0,
                            !.just_failed = FALSE, !.type = type_,
                            !.pause = "interval", !.tried = {}]
  <2>1. Answered(trk[t], kind) = a
    BY DEF Answered
  <2>2. type_ = (IF kind = "interval" THEN "one" ELSE "two") /\ type_ \in {"one", "two"}
    OBVIOUS
  <2>3. p \in Tracker /\ 0 \in 0 .. FailuresCap /\ {} \in SUBSET (Nat \ {0})
    BY <1>2, BoundsAssumption
  <2> HIDE DEF p, type_
  <2>4. /\ a \in Tracker /\ a.http = p.http /\ a.state = "active" /\ a.maximum = p.maximum
        /\ a.minimum = p.minimum /\ a.idx = p.idx /\ a.type = type_
    BY <2>2, <2>3, ZenonT(40) DEF Tracker
  <2> HIDE DEF a
  <2>5. QED
    BY <1>2, <2>1, <2>2, <2>4 DEF p
<1>4. ASSUME NEW kind \in Answers \cap {"interval", "min_first", "max_first"},
             Settled(t, Rearmed(Answered(trk[t], kind), kind))
      PROVE  IndInv'
  <2> DEFINE a == Answered(trk[t], kind)
             r == Rearmed(a, kind)
  <2>1. kind \in {"interval", "min_first"}
    BY DEF Benign
  <2>2. /\ a \in Tracker /\ a.http /\ a.state = "active" /\ ~a.minimum
        /\ a.type = IF kind = "interval" THEN "one" ELSE "two"
    BY <1>3
  <2> HIDE DEF a
  <2>3. /\ r \in Tracker /\ r.http /\ r.state # "null"
        /\ r.minimum => /\ r.type = "two" /\ ~r.interruptible
                        /\ r.maximum /\ r.first = "min" /\ r.state = "active"
    BY <2>1, <2>2 DEF Rearmed, Tracker
  <2>4. Settled(t, r)
    BY <1>4 DEF a
  <2> HIDE DEF r
  <2>5. QED
    BY <1>1, <2>3, <2>4, SettledStep
<1>5. ASSUME "no_peers" \in Answers, UNCHANGED space,
             NEW kind \in {"interval", "min_first", "max_first"},
             trk' = [trk EXCEPT ![t] = [Answered(@, kind) EXCEPT !.flying = FALSE]]
      PROVE  IndInv'
  <2> DEFINE a == Answered(trk[t], kind)
             q == [a EXCEPT !.flying = FALSE]
  <2>1. a \in Tracker /\ ~a.maximum /\ ~a.minimum /\ a.idx = trk[t].idx
    BY <1>3
  <2>2. trk' = [trk EXCEPT ![t] = q]
    BY <1>5 DEF TypeOK
  <2> HIDE DEF a
  <2>3. q \in Tracker /\ ~q.flying /\ ~q.maximum /\ ~q.minimum /\ q.idx = trk[t].idx
    BY <2>1 DEF Tracker
  <2> HIDE DEF q
  <2>4. QED
    BY <1>1, <1>2, <1>5, <2>2, <2>3, RecordStep
<1>6. QED
  BY <1>4, <1>5 DEF active_state_handler

\* get_as of an answer that is no dictionary throws, and nothing has changed.
LEMMA ThrownStep ==
  ASSUME TypeOK, Numbered, Running, TimersQuiet, SpaceSound,
         NEW t \in Trackers, ThrownByAnswer(t)
  PROVE  IndInv'
<1> USE DEF space, handler, walk, control
<1>1. /\ halted' = "exception"
      /\ UNCHANGED <<tracker_connections, trk, space, active, handler, control>>
  BY DEF ThrownByAnswer
<1>2. TypeOK'
  BY <1>1 DEF TypeOK
<1>3. SpaceSound' /\ TimersQuiet'
  BY <1>1, <1>2 DEF SpaceSound, TimersQuiet, InSpace
<1>4. ShapeInv' = ShapeInv /\ TrackerInv' = TrackerInv /\ PlacedInv' = PlacedInv
  BY <1>1 DEF ShapeInv, TrackerInv, Placed, PlacedInv
<1>5. AheadInv' = AheadInv /\ BehindInv' = BehindInv
  BY <1>1 DEF AheadInv, Placed, BehindInv
<1>6. QED
  BY <1>1, <1>3, <1>4, <1>5 DEF IndInv, Running
------------------------------------------------------------------------------
(* The theorems.                                                           *)

\* Nothing happens after the program has ended.
LEMMA OnlyWhileRunning ==
  ASSUME IndInv, Next
  PROVE  halted = "no" /\ TypeOK /\ Numbered /\ Running
<1>1. halted = "no"
  BY DEF Next, Call, CallSends, handle_event, EventBegins, Idle, start_event, Walking,
         reannounce_event, force_reannounce_event, shutdown_event, WalkEnds, EventEnds,
         Timeout, tracker_timeout_handler, Polled, AnswerArrives, inactive_state_handler,
         active_state_handler, ErasedByAnswer, ThrownByAnswer
<1>2. QED
  BY <1>1 DEF IndInv, SpaceSound, Numbered

\* The invariant holds at the start.
LEMMA InitIndInv == Init => IndInv
<1> SUFFICES ASSUME Init PROVE IndInv
  OBVIOUS
<1>1. Blank \in Tracker
  BY BoundsAssumption DEF Blank, Tracker
<1>2. \A t \in Trackers : trk[t] = Blank
  BY DEF Init
<1>3. TypeOK /\ Numbered /\ size = 0
  <2>1. trk \in [Trackers -> Tracker]
    BY <1>1 DEF Init
  <2>2. cells \in Seq(Trackers) /\ size \in 0 .. Len(cells) /\ size = 0
    BY DEF Init
  <2>3. it \in 1 .. end /\ end \in Nat \ {0} /\ calls \in 0 .. MaxCalls
    BY BoundsAssumption DEF Init
  <2>4. /\ tracker_connections \subseteq Trackers /\ active = FALSE /\ set = {}
        /\ event_ = {} /\ handled = {} /\ signal = FALSE /\ fed = FALSE
        /\ calling = FALSE /\ phase = "idle" /\ halted = "no"
    BY DEF Init
  <2>5. TypeOK
    BY <2>1, <2>2, <2>3, <2>4 DEF TypeOK
  <2>6. QED
    BY <2>2, <2>5 DEF Numbered
<1>4. ShapeInv /\ PlacedInv /\ AheadInv /\ BehindInv
  BY <1>3 DEF Init, ShapeInv, PlacedInv, AheadInv, BehindInv, Removing, Events
<1>5. TrackerInv
  BY <1>2 DEF TrackerInv, Blank
<1>6. Running /\ halted = "no"
  BY <1>4, <1>5 DEF Running, Init
<1>7. QED
  BY <1>3, <1>6, RunningSound

\* Every step of the manager keeps the invariant.
LEMMA Inductive ==
  ASSUME Benign, IndInv, [Next]_vars
  PROVE  IndInv'
<1>1. CASE UNCHANGED vars
  <2>1. TypeOK'
    BY <1>1 DEF IndInv, SpaceSound, TypeOK, vars, space, handler, walk, control
  <2>2. QED
    BY <1>1, <2>1, QuietStep DEF vars, handler
<1>2. CASE Next
  <2>1. halted = "no" /\ TypeOK /\ Numbered /\ Running /\ TimersQuiet /\ SpaceSound
    BY <1>2, OnlyWhileRunning DEF IndInv
  <2>2. ASSUME NEW e \in Events, Call(e) PROVE IndInv'
    <3>1. TypeOK'
      BY <2>1, <2>2, BoundsAssumption DEF Call, TypeOK, space, handler, walk
    <3>2. QED
      BY <2>2, <3>1, QuietStep DEF Call, handler
  <2>3. CASE CallSends
    <3>1. TypeOK'
      BY <2>1, <2>3 DEF CallSends, TypeOK, space, handler, walk
    <3>2. QED
      BY <2>3, <3>1, QuietStep DEF CallSends, handler
  <2>4. CASE handle_event
    BY <2>1, <2>4, EventBeginsStep, StartStep, ReannounceStep, ForceReannounceStep,
       ShutdownStep, WalkEndsStep, EventEndsStep DEF handle_event
  <2>5. ASSUME NEW t \in tracker_connections, Timeout(t) PROVE IndInv'
    <3>1. t \in Trackers
      BY <2>1 DEF TypeOK
    <3>2. QED
      BY <2>1, <2>5, <3>1, TimeoutStep DEF Timeout
  <2>6. ASSUME NEW t \in tracker_connections, AnswerArrives(t) PROVE IndInv'
    <3>1. t \in Trackers
      BY <2>1 DEF TypeOK
    <3>2. ~ErasedByAnswer(t)
      BY DEF ErasedByAnswer, Benign
    <3>3. QED
      BY <2>1, <2>6, <3>1, <3>2, FailureStep, ActiveStep, ThrownStep DEF AnswerArrives
  <2>7. QED
    BY <1>2, <2>2, <2>3, <2>4, <2>5, <2>6 DEF Next
<1>3. QED
  BY <1>1, <1>2

\* The invariant holds throughout.
LEMMA Invariant ==
  ASSUME Benign
  PROVE  Spec => []IndInv
<1>1. IndInv /\ [Next]_vars => IndInv'
  BY Inductive
<1>2. QED
  BY InitIndInv, <1>1, PTL DEF Spec

\* manager_space and the trackers' own indices agree in every turn of every walk, no
\* tracker is in it twice or with libcurl at the same time, and no call to
\* send_to_protocol_space looks past the vector's end, however many trackers there are.
THEOREM SpaceAgrees ==
  ASSUME Benign
  PROVE  Spec => []SpaceSound
<1>1. IndInv => SpaceSound
  BY DEF IndInv
<1>2. QED
  BY Invariant, <1>1, PTL

\* A timer runs only for a tracker that is in manager_space, so that
\* tracker_timeout_handler never takes one out that is not there.
THEOREM TimersOnlyInSpace ==
  ASSUME Benign
  PROVE  Spec => []TimersQuiet
<1>1. IndInv => TimersQuiet
  BY DEF IndInv
<1>2. QED
  BY Invariant, <1>1, PTL

------------------------------------------------------------------------------
(* Which trackers a shutdown leaves to be reset.                           *)

\* start_event's assert fails for a tracker whose last announce is still under way, or
\* for which shutdown_event made none.
Unready(p) == p.flying \/ p.left_out

\* Every tracker is in one of the two spaces, left out by a shutdown, or as new.
Accounted(t) == Unready(trk[t]) \/ Placed(t) \/ trk[t] = Blank

\* What the assert looks at.
Unstarted(p) == p.state = "null" /\ p.type = "one"

ResetInv ==
  /\ halted = "assert" => Unready(trk[cells[it - 1]])
  /\ halted # "assert" =>
       /\ \A t \in Trackers : Accounted(t)
       /\ phase = "start" =>
            \A i \in it .. size : Unready(trk[cells[i]]) \/ Unstarted(trk[cells[i]])

\* A tracker that leaves manager_space is with libcurl or left out; nobody else goes astray.
LEMMA SentAccounts ==
  ASSUME TypeOK, Numbered, phase = "idle" => Len(cells) = size,
         \A u \in Trackers : Accounted(u),
         NEW t \in Trackers, NEW p \in Tracker, Placed(t), Sent(t, p), Unready(p)
  PROVE  \A u \in Trackers : Accounted(u)'
<1> SUFFICES ASSUME NEW u \in Trackers PROVE Accounted(u)'
  OBVIOUS
<1>1. trk'[t] = p
  BY SentEffect
<1>2. CASE u = t
  BY <1>1, <1>2 DEF Accounted, Unready
<1>3. CASE u # t /\ Placed(u)
  <2>1. trk'[u].idx <= size' /\ cells'[trk'[u].idx] = u
    BY <1>3, SentEffect
  <2>2. QED
    BY <2>1 DEF Accounted, Placed
<1>4. CASE u # t /\ ~Placed(u)
  <2>1. size \in 1 .. size
    BY InSpacePlaced DEF TypeOK
  <2>2. u # cells[size]
    BY <1>4, <2>1, InSpacePlaced
  <2>3. trk'[u] = trk[u]
    BY <1>4, <2>2 DEF Sent, TypeOK
  <2>4. QED
    BY <1>4, <2>3 DEF Accounted, Unready
<1>5. QED
  BY <1>2, <1>3, <1>4

\* The walks and the timeout handler, which take trackers out of manager_space.
LEMMA TakingAccounts ==
  ASSUME TypeOK, Numbered, Running, \A u \in Trackers : Accounted(u),
         \/ reannounce_event \/ force_reannounce_event \/ shutdown_event
         \/ \E t \in Trackers : Timeout(t)
  PROVE  \A u \in Trackers : Accounted(u)'
<1>1. phase = "idle" => Len(cells) = size
  BY DEF Running, ShapeInv
<1>2. ASSUME NEW t \in Trackers, Placed(t), trk[t].http, trk[t] \in Tracker,
             NEW p \in Tracker, p.http = trk[t].http, send_to_protocol_space(t, Requested(p))
      PROVE  \A u \in Trackers : Accounted(u)'
  <2> DEFINE r == Requested(p)
  <2>1. r \in Tracker /\ r.flying
    <3>1. r \in Tracker /\ r = [p EXCEPT !.flying = TRUE]
      BY <1>2, RequestedRecord
    <3>2. QED
      BY <3>1 DEF Tracker
  <2>2. Sent(t, r)
    BY <1>2, Sendable
  <2> HIDE DEF r
  <2>3. QED
    BY <1>1, <1>2, <2>1, <2>2, SentAccounts DEF Unready
<1>3. ASSUME UNCHANGED <<trk, space>> PROVE \A u \in Trackers : Accounted(u)'
  BY <1>3 DEF Accounted, Placed, space
<1> DEFINE c == cells[it]
<1>4. ASSUME phase \in Removing, it < end
      PROVE  c \in Trackers /\ Placed(c) /\ trk[c] \in Tracker /\ trk[c].http
  BY <1>4, TurnFacts
<1>5. CASE reannounce_event
  <2> DEFINE p == [trk[c] EXCEPT !.maximum = FALSE]
  <2>1. /\ phase \in Removing /\ it < end
        /\ send_to_protocol_space(c, Requested(p)) \/ UNCHANGED <<trk, space>>
    BY <1>5 DEF reannounce_event, Walking, More, Removing, Current
  <2>2. p \in Tracker /\ p.http = trk[c].http
    BY <1>4, <2>1 DEF Tracker
  <2> HIDE DEF p, c
  <2>3. QED
    BY <1>2, <1>3, <1>4, <2>1, <2>2
<1>6. CASE force_reannounce_event
  <2> DEFINE p == [trk[c] EXCEPT !.maximum = FALSE, !.minimum = FALSE]
  <2>1. /\ phase \in Removing /\ it < end
        /\ send_to_protocol_space(c, Requested(p)) \/ UNCHANGED <<trk, space>>
    BY <1>6 DEF force_reannounce_event, Walking, More, Removing, Current
  <2>2. p \in Tracker /\ p.http = trk[c].http
    BY <1>4, <2>1 DEF Tracker
  <2> HIDE DEF p, c
  <2>3. QED
    BY <1>2, <1>3, <1>4, <2>1, <2>2
<1>7. CASE shutdown_event
  <2> DEFINE p == [trk[c] EXCEPT !.maximum = FALSE]
             q == [p EXCEPT !.minimum = @ /\ p.type = "one"]
             o == [p EXCEPT !.left_out = TRUE]
  <2>1. /\ phase \in Removing /\ it < end
        /\ send_to_protocol_space(c, IF p.state = "inactive" THEN o ELSE Requested(q))
    BY <1>7 DEF shutdown_event, Walking, More, Removing, Current
  <2>2. /\ p \in Tracker /\ q \in Tracker /\ q.http = trk[c].http
        /\ o \in Tracker /\ o.left_out
    <3>1. trk[c] \in Tracker
      BY <1>4, <2>1
    <3>2. p \in Tracker /\ p.http = trk[c].http
      BY <3>1 DEF Tracker
    <3> HIDE DEF p
    <3>3. (p.minimum /\ p.type = "one") \in BOOLEAN
      BY <3>2 DEF Tracker
    <3>4. QED
      BY <3>2, <3>3 DEF Tracker
  <2> HIDE DEF p, c, q, o
  <2>3. CASE p.state = "inactive"
    <3>1. Sent(c, o)
      BY <1>4, <2>1, <2>3, Sendable
    <3>2. QED
      BY <1>1, <1>4, <2>1, <2>2, <3>1, SentAccounts DEF Unready
  <2>4. CASE p.state # "inactive"
    BY <1>2, <1>4, <2>1, <2>2, <2>4
  <2>5. QED
    BY <2>3, <2>4
<1>8. ASSUME NEW t \in Trackers, NEW which \in {"min", "max"},
             tracker_timeout_handler(t, which)
      PROVE  \A u \in Trackers : Accounted(u)'
  <2> DEFINE p == Expired(trk[t], which)
             q == [p EXCEPT !.interruptible = TRUE]
  <2>1. /\ phase = "idle" /\ MayExpire(trk[t], which) /\ trk[t] \in Tracker
        /\ \/ trk' = [trk EXCEPT ![t] = q] /\ UNCHANGED space
           \/ send_to_protocol_space(t, Requested(p))
    BY <1>8 DEF tracker_timeout_handler, Polled, Idle, TypeOK
  <2>2. Placed(t) /\ trk[t].http
    <3>1. Placed(t)
      BY <2>1 DEF MayExpire, Running, TrackerInv
    <3>2. QED
      BY <2>1, <3>1, ElementFacts
  <2>3. p \in Tracker /\ p.http = trk[t].http /\ q.idx = trk[t].idx
    BY <2>1 DEF Expired, Tracker
  <2> HIDE DEF p, q
  <2>4. ASSUME trk' = [trk EXCEPT ![t] = q], UNCHANGED space, NEW u \in Trackers
        PROVE  Accounted(u)'
    <3>1. CASE u = t
      <4>1. trk'[u].idx = trk[u].idx
        BY <2>3, <2>4, <3>1 DEF TypeOK
      <4>2. QED
        BY <2>2, <2>4, <3>1, <4>1 DEF Accounted, Placed, space
    <3>2. CASE u # t
      <4>1. trk'[u] = trk[u]
        BY <2>4, <3>2 DEF TypeOK
      <4>2. QED
        BY <2>4, <4>1 DEF Accounted, Placed, Unready, space
    <3>3. QED
      BY <3>1, <3>2
  <2>5. QED
    BY <1>2, <2>1, <2>2, <2>3, <2>4
<1>9. QED
  BY <1>5, <1>6, <1>7, <1>8 DEF Timeout

\* The end of a last announce resets, that of any other returns to manager_space.
LEMMA SettledAccounts ==
  ASSUME TypeOK, Running, Numbered', phase = "idle", \A u \in Trackers : Accounted(u),
         NEW t \in Trackers, NEW p, Settled(t, p)
  PROVE  \A u \in Trackers : Accounted(u)'
<1>1. size \in Nat /\ Len(cells) = size /\ cells \in Seq(Trackers)
  BY DEF TypeOK, Running, ShapeInv
<1>2. CASE active
  <2> DEFINE q == [[p EXCEPT !.flying = FALSE] EXCEPT !.idx = size + 1]
  <2>1. /\ cells' = Append(cells, t) /\ size' = size + 1
        /\ trk' = [trk EXCEPT ![t] = q]
    BY <1>2 DEF Settled, return_to_manager_space
  <2> HIDE DEF q
  <2>2. /\ cells'[size + 1] = t
        /\ \A i \in 1 .. size : cells'[i] = cells[i]
    BY <1>1, <2>1
  <2>3. trk'[t].idx = size + 1
    BY <1>1, <2>1, <2>2 DEF Numbered
  <2>4. ASSUME NEW u \in Trackers PROVE Accounted(u)'
    <3>1. CASE u = t
      BY <1>1, <2>1, <2>2, <2>3, <3>1 DEF Accounted, Placed
    <3>2. CASE u # t
      <4>1. trk'[u] = trk[u] /\ trk[u].idx \in Nat \ {0}
        BY <2>1, <3>2 DEF TypeOK, Tracker
      <4>2. Placed(u) => Placed(u)'
        BY <1>1, <2>1, <2>2, <4>1 DEF Placed
      <4>3. QED
        BY <4>1, <4>2 DEF Accounted, Unready
    <3>3. QED
      BY <3>1, <3>2
  <2>5. QED
    BY <2>4
<1>3. CASE ~active
  <2>1. trk' = [trk EXCEPT ![t] = Blank] /\ UNCHANGED space
    BY <1>3 DEF Settled
  <2>2. \A u \in Trackers : trk'[u] = IF u = t THEN Blank ELSE trk[u]
    BY <2>1 DEF TypeOK
  <2>3. QED
    BY <2>1, <2>2 DEF Accounted, Placed, Unready, space
<1>4. QED
  BY <1>2, <1>3

\* Both state handlers end that way, if no answer is without peers.
LEMMA AnswerAccounts ==
  ASSUME Benign, "no_peers" \notin Answers, TypeOK, Running, Numbered',
         \A u \in Trackers : Accounted(u), NEW t \in Trackers, AnswerArrives(t)
  PROVE  \A u \in Trackers : Accounted(u)'
<1>1. phase = "idle" /\ ~ErasedByAnswer(t)
  BY DEF AnswerArrives, inactive_state_handler, active_state_handler, ErasedByAnswer,
         ThrownByAnswer, Polled, Idle, Benign
<1>2. ASSUME NEW p, Settled(t, p) PROVE \A u \in Trackers : Accounted(u)'
  BY <1>1, <1>2, SettledAccounts
<1>3. CASE inactive_state_handler(t)
  BY <1>2, <1>3 DEF inactive_state_handler
<1>4. CASE active_state_handler(t)
  BY <1>2, <1>4 DEF active_state_handler
<1>5. CASE ThrownByAnswer(t)
  BY <1>5 DEF ThrownByAnswer, Accounted, Placed, Unready, space
<1>6. QED
  BY <1>1, <1>3, <1>4, <1>5 DEF AnswerArrives

\* populate_manager_space: whoever the start walk meets is unready or as new.
LEMMA PopulateAccounts ==
  ASSUME TypeOK, Running, phase = "idle", ~active, \A u \in Trackers : Accounted(u),
         populate_manager_space, TypeOK', Numbered'
  PROVE  /\ \A u \in Trackers : Accounted(u)'
         /\ \A u \in Trackers : Unready(trk'[u]) \/ Unstarted(trk'[u])
<1> DEFINE known == {t \in tracker_connections : HasHttp(t)}
<1>1. size = 0
  BY DEF Running, ShapeInv
<1>2. \A u \in Trackers : Unready(trk[u]) \/ trk[u] = Blank
  BY <1>1 DEF Accounted, Placed, TypeOK, Tracker
<1>3. PICK order \in SetToSeqs(known) :
        /\ cells' = SubSeq(cells, 1, size) \o order
        /\ trk' = [t \in Trackers |->
             IF t \notin known THEN trk[t]
             ELSE [trk[t] EXCEPT !.idx = size + CHOOSE i \in DOMAIN order : order[i] = t,
                                 !.current = IF trk[t].http THEN @ ELSE SeekHttp(t, @),
                                 !.http = TRUE]]
        /\ size' = size + Len(order)
  BY DEF populate_manager_space
<1>4. ASSUME NEW u \in known PROVE Placed(u)'
  <2>1. known \in SUBSET Trackers
    BY DEF TypeOK
  <2> HIDE DEF known
  <2>2. PICK i \in 1 .. Len(order) : order[i] = u
    <3>1. order \in SetToSeqs(known)
      BY <1>3, Zenon
    <3>2. \A t \in known : \E i \in 1 .. Len(order) : order[i] = t
      BY <2>1, <3>1, OrderIsOnto, ZenonT(40)
    <3>3. QED
      BY <1>4, <3>2, Zenon
  <2>3. order \in Seq(Trackers)
    <3>1. order \in SetToSeqs(known)
      BY <1>3, Zenon
    <3>2. QED
      BY <2>1, <3>1, OrderIsOnto, ZenonT(40)
  <2>4. cells' = order /\ size' = Len(order)
    <3>1. SubSeq(cells, 1, size) = << >>
      BY <1>1, SubSeqEmpty DEF TypeOK
    <3>2. << >> \o order = order
      BY <2>3, ConcatEmptySeq
    <3>3. cells' = order
      BY <1>3, <3>1, <3>2, Zenon
    <3>4. size' = size + Len(order)
      BY <1>3, Zenon
    <3>5. Len(order) \in Nat
      BY <2>3
    <3>6. QED
      BY <1>1, <3>3, <3>4, <3>5
  <2>5. trk'[u].idx = i
    BY <2>2, <2>4 DEF Numbered
  <2>6. QED
    BY <2>2, <2>3, <2>4, <2>5 DEF Placed
<1>5. ASSUME NEW u \in Trackers
      PROVE  /\ trk'[u].flying = trk[u].flying /\ trk'[u].left_out = trk[u].left_out
             /\ trk'[u].state = trk[u].state /\ trk'[u].type = trk[u].type
             /\ u \notin known => trk'[u] = trk[u]
  <2>1. trk[u] \in Tracker
    BY DEF TypeOK
  <2>2. CASE u \notin known
    BY <1>3, <2>2
  <2>3. CASE u \in known
    <3> DEFINE n == size + CHOOSE i \in DOMAIN order : order[i] = u
               c == IF trk[u].http THEN trk[u].current ELSE SeekHttp(u, trk[u].current)
    <3>1. trk'[u] = [trk[u] EXCEPT !.idx = n, !.current = c, !.http = TRUE]
      BY <1>3, <2>1, <2>3 DEF Tracker
    <3> HIDE DEF n, c
    <3>2. QED
      BY <2>1, <2>3, <3>1 DEF Tracker
  <2>4. QED
    BY <2>2, <2>3
<1>6. \A u \in Trackers : Unready(trk'[u]) \/ Unstarted(trk'[u])
  BY <1>2, <1>5 DEF Unready, Unstarted, Blank
<1>7. \A u \in Trackers : Accounted(u)'
  <2> HIDE DEF known
  <2>1. QED
    BY <1>2, <1>4, <1>5 DEF Accounted, Unready
<1>8. QED
  BY <1>6, <1>7

\* start_event: whoever fails the assert is unready.
LEMMA StartAccounts ==
  ASSUME Benign, TypeOK, Numbered, Running, ResetInv, start_event
  PROVE  ResetInv'
<1> USE DEF space
<1> DEFINE c == cells[it]
<1>1. /\ phase = "start" /\ halted = "no" /\ it < end /\ it' = it + 1
      /\ UNCHANGED <<cells, size, phase>>
  BY DEF start_event, Walking, More
<1>2. /\ it \in Nat \ {0} /\ it \in it .. size /\ size \in Nat /\ c \in Trackers /\ Placed(c)
      /\ trk[c] \in Tracker
  <2>1. end = size + 1 /\ it \in Nat \ {0} /\ size \in Nat /\ end \in Nat
    BY <1>1 DEF Running, ShapeInv, TypeOK
  <2>2. it \in 1 .. size /\ it \in it .. size
    BY <1>1, <2>1
  <2>3. QED
    BY <2>1, <2>2, InSpacePlaced DEF TypeOK
<1>3. Unready(trk[c]) \/ Unstarted(trk[c])
  BY <1>1, <1>2 DEF ResetInv
<1>4. CASE ~Unstarted(trk[c])
  <2>1. halted' = "assert" /\ UNCHANGED trk
    BY <1>4 DEF start_event, Current, Unstarted, Benign
  <2>2. it' - 1 = it
    BY <1>1, <1>2
  <2>3. QED
    BY <1>1, <1>3, <1>4, <2>1, <2>2 DEF ResetInv
<1>5. CASE Unstarted(trk[c])
  <2>1. /\ UNCHANGED halted
        /\ trk' = [trk EXCEPT ![c].state = "inactive", ![c].maximum = TRUE,
                              ![c].left_out = FALSE]
    BY <1>5 DEF start_event, Current, Unstarted
  <2>2. \A u \in Trackers \ {c} : trk'[u] = trk[u]
    BY <1>2, <2>1 DEF TypeOK
  <2>3. trk'[c].idx = trk[c].idx
    BY <1>2, <2>1 DEF TypeOK, Tracker
  <2>4. ASSUME NEW u \in Trackers PROVE Accounted(u)'
    <3>1. Accounted(u)
      BY <1>1 DEF ResetInv
    <3>2. CASE u = c
      BY <1>1, <1>2, <2>3, <3>2 DEF Accounted, Placed
    <3>3. CASE u # c
      BY <1>1, <2>2, <3>1, <3>3 DEF Accounted, Placed, Unready
    <3>4. QED
      BY <3>2, <3>3
  <2>5. ASSUME NEW i \in it' .. size'
        PROVE  Unready(trk'[cells'[i]]) \/ Unstarted(trk'[cells'[i]])
    <3>1. i \in it .. size /\ i \in 1 .. size /\ i # it
      BY <1>1, <1>2
    <3>2. cells[i] \in Trackers /\ trk[cells[i]].idx = i /\ trk[c].idx = it
      BY <1>2, <3>1, InSpacePlaced DEF Numbered
    <3>3. Unready(trk[cells[i]]) \/ Unstarted(trk[cells[i]])
      BY <1>1, <3>1 DEF ResetInv
    <3>4. QED
      BY <1>1, <2>2, <3>1, <3>2, <3>3 DEF Unready, Unstarted
  <2>6. QED
    BY <1>1, <2>1, <2>4, <2>5 DEF ResetInv
<1>6. QED
  BY <1>4, <1>5

\* A step outside the start walk keeps the invariant if it keeps every tracker accounted for.
LEMMA AccountedStep ==
  ASSUME \A u \in Trackers : Accounted(u)', halted' # "assert", phase' # "start"
  PROVE  ResetInv'
BY DEF ResetInv

\* Every step of the manager keeps the invariant.
LEMMA ResetInductive ==
  ASSUME Benign, "no_peers" \notin Answers, IndInv, IndInv', ResetInv, [Next]_vars
  PROVE  ResetInv'
<1> USE DEF space, handler, walk
<1>1. CASE UNCHANGED vars
  BY <1>1 DEF vars, ResetInv, Accounted, Placed, Unready, Unstarted
<1>2. CASE Next
  <2>1. halted = "no" /\ TypeOK /\ Numbered /\ Running
    BY <1>2, OnlyWhileRunning
  <2>2. TypeOK' /\ Numbered' /\ SpaceSound'
    BY DEF IndInv, SpaceSound, Numbered
  <2>3. /\ \A u \in Trackers : Accounted(u)
        /\ phase = "start" =>
             \A i \in it .. size : Unready(trk[cells[i]]) \/ Unstarted(trk[cells[i]])
    BY <2>1 DEF ResetInv
  <2>4. ASSUME UNCHANGED <<trk, cells, size, phase, it, halted>> PROVE ResetInv'
    BY <2>4 DEF ResetInv, Accounted, Placed, Unready, Unstarted
  <2>5. CASE CallSends \/ \E e \in Events : Call(e)
    BY <2>4, <2>5 DEF CallSends, Call
  <2>6. CASE start_event
    BY <2>1, <2>6, StartAccounts
  <2>7. CASE reannounce_event \/ force_reannounce_event \/ shutdown_event
    <3>1. \A u \in Trackers : Accounted(u)'
      BY <2>1, <2>3, <2>7, TakingAccounts
    <3>2. phase' # "start"
      BY <2>7 DEF reannounce_event, force_reannounce_event, shutdown_event, Walking
    <3>3. halted' \in {"no", "undefined"}
      BY <2>1, <2>7 DEF reannounce_event, force_reannounce_event, shutdown_event,
                        send_to_protocol_space
    <3>4. QED
      BY <3>1, <3>2, <3>3, AccountedStep
  <2>8. ASSUME cells' = SubSeq(cells, 1, size), UNCHANGED <<trk, size>>, halted' # "assert",
               phase' # "start"
        PROVE  ResetInv'
    <3>1. \A i \in 1 .. size : cells'[i] = cells[i]
      BY <2>1, <2>8 DEF TypeOK
    <3>2. ASSUME NEW u \in Trackers, Placed(u) PROVE Placed(u)'
      <4>1. trk[u].idx \in 1 .. size
        BY <2>1, <3>2 DEF TypeOK, Tracker, Placed
      <4>2. QED
        BY <2>8, <3>1, <3>2, <4>1 DEF Placed
    <3>3. \A u \in Trackers : Accounted(u)'
      BY <2>3, <2>8, <3>2 DEF Accounted, Unready
    <3>4. QED
      BY <2>8, <3>3, AccountedStep
  <2>9. CASE EventBegins
    <3>1. /\ phase = "idle" /\ UNCHANGED halted /\ it' = 1
          /\ phase' = Walk("begin", active)
          /\ IF phase' = "start" THEN populate_manager_space
             ELSE cells' = SubSeq(cells, 1, size) /\ UNCHANGED <<trk, size>>
      BY <2>9 DEF EventBegins, Idle, EnterWalk
    <3>2. CASE phase' = "start"
      <4>1. ~active
        BY <2>1, <3>1, <3>2, WalkName DEF TypeOK
      <4>2. /\ \A u \in Trackers : Accounted(u)'
            /\ \A u \in Trackers : Unready(trk'[u]) \/ Unstarted(trk'[u])
        BY <2>1, <2>2, <2>3, <3>1, <3>2, <4>1, PopulateAccounts
      <4>3. \A i \in 1 .. size' : cells'[i] \in Trackers
        BY <2>2 DEF TypeOK
      <4>4. QED
        BY <2>1, <3>1, <4>2, <4>3 DEF ResetInv
    <3>3. CASE phase' # "start"
      BY <2>1, <2>8, <3>1, <3>3
    <3>4. QED
      BY <3>2, <3>3
  <2>10. CASE WalkEnds
    <3>1. /\ phase \in Events /\ UNCHANGED halted
          /\ phase' = Walk(phase, active')
          /\ IF phase' = "start" THEN populate_manager_space
             ELSE cells' = SubSeq(cells, 1, size) /\ UNCHANGED <<trk, size>>
      BY <2>10 DEF WalkEnds, EnterWalk
    <3>2. phase' # "start"
      BY <2>2, <3>1, WalkName DEF TypeOK, Events
    <3>3. QED
      BY <2>1, <2>8, <3>1, <3>2
  <2>11. CASE EventEnds
    <3>1. phase' # "start" /\ halted' # "assert" /\ UNCHANGED <<trk, cells, size>>
      BY <2>1, <2>11 DEF EventEnds
    <3>2. \A u \in Trackers : Accounted(u)'
      BY <2>3, <3>1 DEF Accounted, Placed, Unready
    <3>3. QED
      BY <3>1, <3>2, AccountedStep
  <2>12. ASSUME NEW t \in tracker_connections, Timeout(t) \/ AnswerArrives(t)
         PROVE  ResetInv'
    <3>1. t \in Trackers
      BY <2>1 DEF TypeOK
    <3>2. \A u \in Trackers : Accounted(u)'
      BY <2>1, <2>2, <2>3, <2>12, <3>1, TakingAccounts, AnswerAccounts
    <3>3. phase = "idle" /\ UNCHANGED phase
      BY <2>12 DEF Timeout, tracker_timeout_handler, AnswerArrives, inactive_state_handler,
             active_state_handler, ErasedByAnswer, ThrownByAnswer, Polled, Idle
    <3>4. halted' # "assert"
      BY <3>3 DEF IndInv
    <3>5. QED
      BY <3>2, <3>3, <3>4, AccountedStep
  <2>13. QED
    BY <1>2, <2>5, <2>6, <2>7, <2>9, <2>10, <2>11, <2>12 DEF Next, handle_event
<1>3. QED
  BY <1>1, <1>2

\* Once a shutdown has been handled, every tracker whose last announce has ended, whichever
\* way, is reset by shutdown_reset; only one that shutdown_event took out while inactive is
\* not.  A tracker that fails start_event's assert is one of those, or its last announce is
\* still under way.  This holds if no answer is without peers.
THEOREM ResetAfterShutdown ==
  ASSUME Benign, "no_peers" \notin Answers
  PROVE  Spec => []ShutdownResets
<1>1. Init => ResetInv
  BY DEF Init, ResetInv, Accounted
<1>2. IndInv /\ IndInv' /\ ResetInv /\ [Next]_vars => ResetInv'
  BY ResetInductive
<1>3. IndInv /\ ResetInv => ShutdownResets
  <2> SUFFICES ASSUME IndInv, ResetInv PROVE ShutdownResets
    OBVIOUS
  <2>1. halted = "assert" => Unready(trk[cells[it - 1]])
    BY DEF ResetInv
  <2>2. ASSUME phase = "idle", ~active, NEW t \in Trackers
        PROVE  Unready(trk[t]) \/ trk[t] = Blank
    <3>1. Running /\ TypeOK /\ halted # "assert"
      BY <2>2 DEF IndInv, SpaceSound
    <3>2. size = 0
      BY <2>2, <3>1 DEF Running, ShapeInv
    <3>3. ~Placed(t)
      BY <3>1, <3>2 DEF Placed, TypeOK, Tracker
    <3>4. QED
      BY <3>1, <3>3 DEF ResetInv, Accounted
  <2>3. QED
    BY <2>1, <2>2 DEF ShutdownResets, Unready
<1>4. QED
  BY Invariant, <1>1, <1>2, <1>3, PTL DEF Spec

------------------------------------------------------------------------------
(* What the walks and the minimum interval promise.                        *)

\* Only its own end takes handle_event out of a walk.
LEMMA PhaseChanges ==
  ASSUME Next, phase \in Events, phase # phase'
  PROVE  WalkEnds
<1> USE DEF handler
<1>1. ~Idle /\ phase # "finish"
  BY DEF Idle, Events
<1>2. ASSUME NEW t \in tracker_connections
      PROVE  ~Timeout(t) /\ ~AnswerArrives(t)
  BY <1>1 DEF Timeout, tracker_timeout_handler, AnswerArrives, inactive_state_handler,
              active_state_handler, ErasedByAnswer, ThrownByAnswer, Polled
<1>3. ~CallSends /\ \A e \in Events : ~Call(e)
  BY DEF CallSends, Call
<1>4. /\ ~EventBegins /\ ~start_event /\ ~reannounce_event /\ ~force_reannounce_event
      /\ ~shutdown_event /\ ~EventEnds
  BY <1>1 DEF EventBegins, start_event, reannounce_event, force_reannounce_event,
              shutdown_event, EventEnds
<1>5. QED
  BY <1>2, <1>3, <1>4 DEF Next, handle_event

\* The range-for loops of shutdown_event, force_reannounce_event, reannounce_event and
\* start_event reach every element their flag is about, though the first three remove
\* the element they stand on.
THEOREM WalksReachAll ==
  ASSUME Benign
  PROVE  Spec => WalksComplete
<1> DEFINE Complete ==
      phase # phase' =>
        /\ phase = "shutdown" => InSpace = {}
        /\ phase = "force_reannounce" => \A t \in InSpace : trk[t].state # "active"
        /\ phase = "reannounce" =>
             \A t \in InSpace : ~(trk[t].state = "active" /\ trk[t].type = "two"
                                  /\ trk[t].interruptible)
        /\ phase = "start" => \A t \in InSpace : trk[t].state = "inactive" /\ trk[t].maximum
<1>1. IndInv /\ [Next]_vars => [Complete]_vars
  <2> SUFFICES ASSUME IndInv, Next, phase # phase', phase \in Events PROVE Complete
    BY DEF Events
  <2>1. TypeOK /\ Running /\ WalkEnds
    BY OnlyWhileRunning, PhaseChanges
  <2>2. it = end /\ it \in Nat
    BY <2>1 DEF WalkEnds, More, TypeOK
  <2>3. ASSUME phase \in Removing, NEW t \in InSpace PROVE ~Takes(phase, trk[t])
    <3>1. PICK i \in 1 .. size : t = cells[i]
      BY DEF InSpace
    <3>2. ASSUME NEW j \in it .. end - 1 PROVE FALSE
      BY <2>2
    <3>3. QED
      BY <2>1, <2>3, <3>1, <3>2 DEF Running, BehindInv
  <2>4. ASSUME phase = "start", NEW t \in InSpace
        PROVE  trk[t].state = "inactive" /\ trk[t].maximum
    <3>1. PICK i \in 1 .. size : t = cells[i]
      BY DEF InSpace
    <3>2. i < it
      BY <2>1, <2>2, <2>4 DEF Running, ShapeInv, TypeOK
    <3>3. QED
      BY <2>1, <2>4, <3>1, <3>2 DEF Running, PlacedInv
  <2>5. QED
    BY <2>3, <2>4 DEF Takes, Removing
<1>2. QED
  BY Invariant, <1>1, PTL DEF Spec, WalksComplete

\* reannounce_event announces to no tracker whose minimum interval is not over.
THEOREM MinimumIsRespected ==
  ASSUME Benign
  PROVE  Spec => MinimumRespected
<1> DEFINE Respected ==
      \A t \in Trackers :
        /\ phase = "reannounce" /\ ~trk[t].flying /\ trk'[t].flying
        => ~trk[t].minimum
<1>1. IndInv /\ [Next]_vars => [Respected]_vars
  <2> SUFFICES ASSUME IndInv, Next, phase = "reannounce", NEW t \in Trackers,
                      ~trk[t].flying, trk'[t].flying, trk[t].minimum
               PROVE  FALSE
    OBVIOUS
  <2>1. TypeOK /\ Numbered /\ Running /\ ~Idle
    BY OnlyWhileRunning DEF Idle
  <2>2. trk' # trk
    OBVIOUS
  <2>3. reannounce_event
    <3>1. ASSUME NEW u \in tracker_connections
          PROVE  ~Timeout(u) /\ ~AnswerArrives(u)
      BY <2>1 DEF Timeout, tracker_timeout_handler, AnswerArrives, inactive_state_handler,
                  active_state_handler, ErasedByAnswer, ThrownByAnswer, Polled
    <3>2. ~CallSends /\ \A e \in Events : ~Call(e)
      BY <2>2 DEF CallSends, Call
    <3>3. /\ ~EventBegins /\ ~start_event /\ ~force_reannounce_event
          /\ ~shutdown_event /\ ~EventEnds
      BY <2>1 DEF EventBegins, start_event, force_reannounce_event, shutdown_event,
                  EventEnds, Walking
    <3>4. ~WalkEnds
      <4>1. Walk(phase, active') = "finish"
        BY DEF Walk
      <4>2. QED
        BY <2>2, <4>1 DEF WalkEnds, EnterWalk
    <3>5. QED
      BY <3>1, <3>2, <3>3, <3>4 DEF Next, handle_event
  <2> DEFINE u == cells[it]
             q == Requested([trk[u] EXCEPT !.maximum = FALSE])
  <2>4. /\ phase \in Removing /\ it < end /\ phase # "idle"
        /\ trk[u].type = "two" /\ trk[u].interruptible
        /\ send_to_protocol_space(u, q)
    BY <2>2, <2>3 DEF reannounce_event, Walking, More, Removing, Current
  <2>5. /\ u \in Trackers /\ Placed(u) /\ trk[u] \in Tracker /\ trk[u].http
    BY <2>1, <2>4, TurnFacts
  <2>6. q \in Tracker
    <3>1. [trk[u] EXCEPT !.maximum = FALSE] \in Tracker
      BY <2>5 DEF Tracker
    <3>2. [trk[u] EXCEPT !.maximum = FALSE].http
      BY <2>5 DEF Tracker
    <3>3. QED
      BY <3>1, <3>2, RequestedRecord
  <2> HIDE DEF q
  <2>7. Sent(u, q)
    BY <2>1, <2>4, <2>5, Sendable
  <2>8. u = t
    <3>1. \A v \in Trackers \ {u} : Alike(trk'[v], trk[v])
      BY <2>1, <2>4, <2>5, <2>6, <2>7, SentEffect
    <3>2. QED
      BY <3>1 DEF Alike
  <2>9. QED
    BY <2>1, <2>4, <2>8 DEF Running, TrackerInv
<1>2. QED
  BY Invariant, <1>1, PTL DEF Spec, MinimumRespected
------------------------------------------------------------------------------
(* Around the announce list.                                               *)

\* The http URLs of a tracker.
HttpUrls(t) == {i \in DOMAIN Urls[t] : Urls[t][i] = "http"}

\* Steps along a ring of n places from a on to b; none, or all n, if they are the same.
Ahead(n, a, b)  == IF b >= a THEN b - a ELSE b - a + n
Onward(n, a, b) == IF b > a THEN b - a ELSE b - a + n

\* seek_to_next_url in a loop ends on the first http URL that follows.
LEMMA SeekFindsNext ==
  ASSUME NEW t \in Trackers, NEW c \in 1 .. Len(Urls[t]), NEW i \in HttpUrls(t)
  PROVE  /\ SeekHttp(t, c) \in HttpUrls(t)
         /\ Onward(Len(Urls[t]), c, SeekHttp(t, c)) <= Onward(Len(Urls[t]), c, i)
<1> DEFINE L == Len(Urls[t])
           After(k) == ((c - 1 + k) % L) + 1
           S == {k \in 1 .. L : Urls[t][After(k)] = "http"}
<1>1. L \in Nat \ {0} /\ DOMAIN Urls[t] = 1 .. L /\ c \in 1 .. L /\ i \in 1 .. L
  BY UrlsAssumption DEF HttpUrls
<1>2. HasHttp(t) /\ Urls[t][i] = "http"
  BY DEF HasHttp, HttpUrls
<1>3. SeekHttp(t, c) \in HttpUrls(t)
  <2>1. c \in Nat \ {0}
    BY <1>1
  <2>2. QED
    BY <1>2, <2>1, SeekFindsHttp DEF HttpUrls
<1>4. SeekHttp(t, c) = After(Min(S))
  BY DEF SeekHttp
<1> HIDE DEF L
<1>5. ASSUME NEW k \in 1 .. L
      PROVE  After(k) = IF c + k <= L THEN c + k ELSE c + k - L
  <2>1. CASE c + k <= L
    <3>1. c - 1 + k \in 0 .. L - 1 /\ L * 0 + (c - 1 + k) = c - 1 + k
      BY <1>1, <2>1
    <3>2. (c - 1 + k) % L = c - 1 + k
      BY <1>1, <3>1, Remainder
    <3>3. QED
      BY <1>1, <2>1, <3>2
  <2>2. CASE c + k > L
    <3>1. c - 1 + k - L \in 0 .. L - 1 /\ L * 1 + (c - 1 + k - L) = c - 1 + k
      BY <1>1, <2>2
    <3>2. (L * 1 + (c - 1 + k - L)) % L = c - 1 + k - L
      BY <1>1, <3>1, Remainder
    <3>3. QED
      BY <1>1, <2>2, <3>1, <3>2
  <2>3. QED
    BY <1>1, <2>1, <2>2
<1> HIDE DEF After
<1> DEFINE k == Onward(L, c, i)
<1>6. k \in 1 .. L /\ After(k) = i
  BY <1>1, <1>5 DEF Onward
<1> HIDE DEF k
<1>7. k \in S /\ S \subseteq Nat
  BY <1>1, <1>2, <1>6
<1>8. Min(S) \in S /\ Min(S) <= k
  <2> HIDE DEF S
  <2>1. \E x \in S : \A y \in S : x <= y
    BY <1>7, LeastNat
  <2>2. Min(S) \in S /\ \A y \in S : Min(S) <= y
    BY <2>1 DEF Min
  <2>3. QED
    BY <1>7, <2>2
<1>9. Onward(L, c, After(Min(S))) = Min(S)
  <2>1. Min(S) \in 1 .. L
    BY <1>8
  <2> HIDE DEF S
  <2>2. After(Min(S)) = IF c + Min(S) <= L THEN c + Min(S) ELSE c + Min(S) - L
    BY <1>5, <2>1
  <2>3. QED
    BY <1>1, <2>1, <2>2 DEF Onward
<1>10. QED
  BY <1>3, <1>4, <1>8, <1>9 DEF L, k

\* Where a cycle of failures began.
CycleStart(p) == IF p.just_failed THEN p.failed_idx ELSE p.current

\* Between two answers the URLs that failed are those from where the cycle began up to
\* the current one.
OnCycle(t, p) ==
  /\ p \in Tracker
  /\ p.current \in DOMAIN Urls[t]
  /\ p.http => p.current \in HttpUrls(t)
  /\ p.flying \/ p.just_failed => p.http
  /\ p.just_failed => p.failed_idx \in HttpUrls(t)
  /\ p.tried = {i \in HttpUrls(t) : Ahead(Len(Urls[t]), CycleStart(p), i)
                                    < Ahead(Len(Urls[t]), CycleStart(p), p.current)}

\* A failure either ends the cycle, all URLs having failed, or lengthens the way by one.
LEMMA CycleGrows ==
  ASSUME NEW t \in Trackers, NEW p, OnCycle(t, p), p.http
  PROVE  LET next == SeekHttp(t, p.current) IN
         /\ next \in HttpUrls(t)
         /\ CycleStart(p) = next => p.tried \cup {p.current} = HttpUrls(t)
         /\ CycleStart(p) # next =>
              p.tried \cup {p.current} =
                {i \in HttpUrls(t) : Ahead(Len(Urls[t]), CycleStart(p), i)
                                     < Ahead(Len(Urls[t]), CycleStart(p), next)}
<1> DEFINE L == Len(Urls[t])
           H == HttpUrls(t)
           c == p.current
           s == CycleStart(p)
           x == SeekHttp(t, c)
<1>1. /\ L \in Nat \ {0} /\ H \subseteq 1 .. L /\ c \in H /\ s \in H
      /\ p.tried = {i \in H : Ahead(L, s, i) < Ahead(L, s, c)}
  BY UrlsAssumption DEF OnCycle, CycleStart, HttpUrls
<1>2. x \in H /\ \A i \in H : Onward(L, c, x) <= Onward(L, c, i)
  BY <1>1, SeekFindsNext
<1> HIDE DEF L, H, c, s, x
<1>3. ASSUME s = x, NEW i \in H PROVE Ahead(L, s, i) < Ahead(L, s, c) \/ i = c
  <2>1. i \in 1 .. L /\ c \in 1 .. L /\ s \in 1 .. L /\ Onward(L, c, s) <= Onward(L, c, i)
    BY <1>1, <1>2, <1>3
  <2>2. QED
    BY <1>1, <2>1 DEF Ahead, Onward
<1>4. ASSUME s # x, NEW i \in H
      PROVE  (Ahead(L, s, i) < Ahead(L, s, c) \/ i = c) <=> Ahead(L, s, i) < Ahead(L, s, x)
  <2>1. /\ i \in 1 .. L /\ c \in 1 .. L /\ s \in 1 .. L /\ x \in 1 .. L
        /\ Onward(L, c, x) <= Onward(L, c, i) /\ Onward(L, c, x) <= Onward(L, c, s)
    BY <1>1, <1>2, <1>4
  <2>2. QED
    BY <1>1, <1>4, <2>1 DEF Ahead, Onward
<1>5. CASE s = x
  BY <1>1, <1>2, <1>3, <1>5 DEF L, H, c, s, x
<1>6. CASE s # x
  <2>1. p.tried \cup {c} = {i \in H : Ahead(L, s, i) < Ahead(L, s, x)}
    BY <1>1, <1>4, <1>6
  <2>2. QED
    BY <1>2, <1>6, <2>1 DEF L, H, c, s, x
<1>7. QED
  BY <1>5, <1>6

\* A step that has nothing to do with the announce list.
SameCycle(p, q) ==
  /\ q \in Tracker
  /\ q.current = p.current /\ q.http = p.http /\ q.just_failed = p.just_failed
  /\ q.failed_idx = p.failed_idx /\ q.tried = p.tried
  /\ q.flying => p.flying \/ p.http
  /\ p.flying => q.flying

\* populate_manager_space moves on to an http URL.
FirstHttp(t, p, q) ==
  /\ q \in Tracker
  /\ ~p.http /\ q.http /\ q.current \in HttpUrls(t) /\ q.just_failed = p.just_failed
  /\ q.tried = p.tried /\ q.flying = p.flying

\* The tracker has answered, or is as new.
NewCycle(p, q) ==
  /\ q \in Tracker
  /\ ~q.just_failed /\ q.tried = {} /\ ~q.flying /\ q.pause # "retry"
  /\ \/ q.http = p.http /\ q.current = p.current
     \/ ~q.http /\ q.current = 1

\* inactive_state_handler.
CycleStep(t, p, q) ==
  LET next == SeekHttp(t, p.current) IN
  /\ q \in Tracker
  /\ p.flying /\ ~q.flying /\ q.just_failed /\ q.http
  /\ q.failed_idx = CycleStart(p) /\ q.current = next
  /\ q.pause = "retry" => CycleStart(p) = next
  /\ q.tried = IF CycleStart(p) = next THEN {} ELSE p.tried \cup {p.current}

Moves(t, p, q) ==
  SameCycle(p, q) \/ FirstHttp(t, p, q) \/ NewCycle(p, q) \/ CycleStep(t, p, q)

\* Nothing but a failure on the last URL that was left gives a tracker up.
GivenUpRight(t, p, q) ==
  p.flying /\ ~q.flying /\ q.pause = "retry" => p.tried \cup {p.current} = HttpUrls(t)

LEMMA MovesKeep ==
  ASSUME NEW t \in Trackers, NEW p, NEW q, OnCycle(t, p), Moves(t, p, q)
  PROVE  OnCycle(t, q) /\ GivenUpRight(t, p, q)
<1> DEFINE L == Len(Urls[t])
           H == HttpUrls(t)
<1>1. L \in Nat \ {0} /\ DOMAIN Urls[t] = 1 .. L /\ H \subseteq 1 .. L
  BY UrlsAssumption DEF HttpUrls
<1>2. ASSUME NEW s \in 1 .. L PROVE {i \in H : Ahead(L, s, i) < Ahead(L, s, s)} = {}
  BY <1>1 DEF Ahead
<1>3. CASE SameCycle(p, q)
  <2>1. CycleStart(q) = CycleStart(p)
    BY <1>3 DEF SameCycle, CycleStart
  <2>2. QED
    BY <1>3, <2>1 DEF SameCycle, OnCycle, GivenUpRight
<1>4. CASE FirstHttp(t, p, q)
  <2>1. ~p.just_failed /\ p.tried = {} /\ ~p.flying
    <3>1. ~p.just_failed /\ ~p.flying /\ p.current \in 1 .. L
      BY <1>1, <1>4 DEF FirstHttp, OnCycle
    <3>2. QED
      BY <1>2, <3>1 DEF OnCycle, CycleStart
  <2>2. CycleStart(q) = q.current /\ q.current \in 1 .. L
    BY <1>1, <1>4, <2>1 DEF FirstHttp, CycleStart
  <2>3. QED
    BY <1>1, <1>2, <1>4, <2>1, <2>2 DEF FirstHttp, OnCycle, GivenUpRight
<1>5. CASE NewCycle(p, q)
  <2>1. CycleStart(q) = q.current /\ q.current \in 1 .. L
    BY <1>1, <1>5 DEF NewCycle, CycleStart, OnCycle
  <2>2. QED
    BY <1>1, <1>2, <1>5, <2>1 DEF NewCycle, OnCycle, GivenUpRight
<1>6. CASE CycleStep(t, p, q)
  <2> DEFINE next == SeekHttp(t, p.current)
  <2>1. p.http
    BY <1>6 DEF CycleStep, OnCycle
  <2>2. /\ next \in H
        /\ CycleStart(p) = next => p.tried \cup {p.current} = H
        /\ CycleStart(p) # next =>
             p.tried \cup {p.current} =
               {i \in H : Ahead(L, CycleStart(p), i) < Ahead(L, CycleStart(p), next)}
    BY <2>1, CycleGrows
  <2>3. CycleStart(p) \in H /\ CycleStart(q) = CycleStart(p)
    BY <1>6, <2>1 DEF OnCycle, CycleStart, CycleStep
  <2>4. q.current = next /\ next \in 1 .. L
    BY <1>1, <1>6, <2>2 DEF CycleStep
  <2>5. q.tried = {i \in H : Ahead(L, CycleStart(q), i) < Ahead(L, CycleStart(q), q.current)}
    <3>1. CASE CycleStart(p) = next
      BY <1>2, <1>6, <2>3, <2>4, <3>1 DEF CycleStep
    <3>2. CASE CycleStart(p) # next
      BY <1>6, <2>2, <2>3, <2>4, <3>2 DEF CycleStep
    <3>3. QED
      BY <3>1, <3>2
  <2>6. QED
    BY <1>1, <1>6, <2>2, <2>3, <2>4, <2>5 DEF CycleStep, OnCycle, GivenUpRight
<1>7. QED
  BY <1>3, <1>4, <1>5, <1>6 DEF Moves

\* What the walks need to stay within the storage.
Stored ==
  /\ tracker_connections \subseteq Trackers
  /\ cells \in Seq(Trackers) /\ size \in 0 .. Len(cells)
  /\ it \in Nat \ {0} /\ end \in Nat \ {0}
  /\ phase \in Events => end - 1 <= Len(cells)

CycleInv == Stored /\ trk \in [Trackers -> Tracker] /\ \A t \in Trackers : OnCycle(t, trk[t])

\* Every tracker's record moves in one of the four ways.
AllMove == trk' \in [Trackers -> Tracker] /\ \A t \in Trackers : Moves(t, trk[t], trk'[t])

LEMMA SentMoves ==
  ASSUME CycleInv, NEW t \in Trackers, NEW p, SameCycle(trk[t], p),
         send_to_protocol_space(t, p)
  PROVE  /\ AllMove
         /\ cells' \in Seq(Trackers) /\ size' \in 0 .. Len(cells')
         /\ phase # "idle" => Len(cells') = Len(cells)
<1>1. CASE Unsendable(t)
  <2>1. trk' = trk /\ cells' = cells /\ size' = size
    BY <1>1 DEF send_to_protocol_space, space
  <2>2. \A u \in Trackers : SameCycle(trk[u], trk[u])
    BY DEF CycleInv, SameCycle
  <2>3. QED
    BY <2>1, <2>2 DEF CycleInv, Stored, AllMove, Moves
<1>2. CASE ~Unsendable(t)
  <2> DEFINE gap == trk[t].idx
             last == cells[size]
             moved == [cells EXCEPT ![gap] = last]
  <2>1. Sent(t, p)
    BY <1>2 DEF send_to_protocol_space
  <2>2. /\ size \in 1 .. Len(cells) /\ gap \in 1 .. size /\ last \in Trackers
        /\ cells \in Seq(Trackers) /\ trk \in [Trackers -> Tracker]
    <3>1. cells \in Seq(Trackers) /\ size \in 1 .. Len(cells) /\ trk \in [Trackers -> Tracker]
      BY <1>2 DEF Unsendable, CycleInv, Stored
    <3>2. gap \in Nat \ {0} /\ gap <= size
      <4>1. trk[t] \in Tracker
        BY <3>1
      <4>2. gap \in Nat \ {0}
        BY <4>1 DEF Tracker
      <4>3. QED
        BY <1>2, <3>1, <4>2 DEF Unsendable
    <3>3. QED
      BY <3>1, <3>2
  <2>3. moved \in Seq(Trackers) /\ Len(moved) = Len(cells)
    BY <2>2
  <2>4. /\ cells' = Storage(moved, size - 1) /\ size' = size - 1
        /\ trk' = [trk EXCEPT ![last].idx = gap, ![t] = p]
    BY <2>1 DEF Sent
  <2> HIDE DEF gap, last, moved
  <2>5. cells' \in Seq(Trackers) /\ size' \in 0 .. Len(cells')
        /\ (phase # "idle" => Len(cells') = Len(cells))
    <3>1. SubSeq(moved, 1, size - 1) \in Seq(Trackers) /\ Len(SubSeq(moved, 1, size - 1)) = size - 1
      BY <2>2, <2>3
    <3>2. QED
      BY <2>2, <2>3, <2>4, <3>1 DEF Storage
  <2>6. ASSUME NEW u \in Trackers PROVE trk'[u] \in Tracker /\ Moves(u, trk[u], trk'[u])
    <3>1. CASE u = t
      BY <2>2, <2>4, <3>1 DEF Moves, SameCycle
    <3>2. CASE u # t
      <4>1. trk'[u] = trk[u] \/ trk'[u] = [trk[u] EXCEPT !.idx = gap]
        BY <2>2, <2>4, <3>2
      <4>2. trk[u] \in Tracker
        BY <2>2
      <4>3. [trk[u] EXCEPT !.idx = gap] \in Tracker
        <5>1. gap \in Nat \ {0}
          BY <2>2
        <5>2. QED
          BY <4>2, <5>1 DEF Tracker
      <4>4. SameCycle(trk[u], trk'[u])
        BY <4>1, <4>2, <4>3 DEF SameCycle, Tracker
      <4>5. QED
        BY <4>4 DEF Moves, SameCycle
    <3>3. QED
      BY <3>1, <3>2
  <2>7. trk' \in [Trackers -> Tracker]
    <3>1. DOMAIN trk' = Trackers /\ trk' = [u \in Trackers |-> trk'[u]]
      BY <2>2, <2>4
    <3>2. QED
      BY <2>6, <3>1
  <2>8. QED
    BY <2>5, <2>6, <2>7 DEF AllMove
<1>3. QED
  BY <1>1, <1>2

LEMMA RequestedMoves ==
  ASSUME NEW p \in Tracker, NEW q, SameCycle(p, q)
  PROVE  SameCycle(p, Requested(q))
<1>1. q \in Tracker
  BY DEF SameCycle
<1>2. Requested(q) = [q EXCEPT !.flying = q.flying \/ q.http]
  BY <1>1 DEF Requested, Tracker
<1>3. q.flying \in BOOLEAN /\ q.http \in BOOLEAN
  BY <1>1 DEF Tracker
<1>4. Requested(q) \in Tracker
  BY <1>1, <1>2, <1>3 DEF Tracker
<1>5. QED
  BY <1>1, <1>2, <1>4 DEF SameCycle, Tracker

LEMMA BlankMoves ==
  /\ Blank \in Tracker
  /\ \A t, p : Moves(t, p, Blank)
<1>1. Blank \in Tracker
  BY BoundsAssumption DEF Blank, Tracker
<1>2. /\ ~Blank.just_failed /\ Blank.tried = {} /\ ~Blank.flying /\ Blank.pause # "retry"
      /\ ~Blank.http /\ Blank.current = 1
  BY DEF Blank
<1>3. ASSUME NEW t, NEW p PROVE Moves(t, p, Blank)
  BY <1>1, <1>2 DEF NewCycle, Moves
<1>4. QED
  BY <1>1, <1>3

\* What Settled makes of p at the n-th place.
Ended(p, n) == [p EXCEPT !.flying = FALSE, !.idx = n]

\* The end of a transfer.
LEMMA SettledMoves ==
  ASSUME CycleInv, NEW t \in Trackers, NEW p \in Tracker, Settled(t, p),
         \A n \in Nat \ {0} : Moves(t, trk[t], Ended(p, n))
  PROVE  /\ AllMove
         /\ cells' \in Seq(Trackers) /\ size' \in 0 .. Len(cells')
<1> DEFINE r == Ended(p, size + 1)
<1>1. cells \in Seq(Trackers) /\ size \in 0 .. Len(cells) /\ trk \in [Trackers -> Tracker]
  BY DEF CycleInv, Stored
<1>2. size + 1 \in Nat \ {0}
  BY <1>1
<1>3. r \in Tracker /\ Moves(t, trk[t], r)
  <2>1. r \in Tracker
    BY <1>2 DEF Tracker, Ended
  <2>2. Moves(t, trk[t], r)
    BY <1>2, Zenon
  <2>3. QED
    BY <2>1, <2>2
<1>4. Blank \in Tracker /\ Moves(t, trk[t], Blank)
  BY BlankMoves
<1>5. \A u \in Trackers : trk[u] \in Tracker /\ Moves(u, trk[u], trk[u])
  BY <1>1 DEF Moves, SameCycle
<1>6. CASE active
  <2>1. /\ cells' = Append(cells, t) /\ size' = size + 1
        /\ trk' = [trk EXCEPT ![t] = r]
    BY <1>6 DEF Settled, return_to_manager_space, Tracker, Ended
  <2> HIDE DEF r
  <2>2. cells' \in Seq(Trackers) /\ size' \in 0 .. Len(cells')
    BY <1>1, <2>1
  <2>3. trk' \in [Trackers -> Tracker]
    BY <1>1, <1>3, <2>1
  <2>4. ASSUME NEW u \in Trackers PROVE Moves(u, trk[u], trk'[u])
    <3>1. trk'[u] = IF u = t THEN r ELSE trk[u]
      BY <1>1, <2>1
    <3>2. QED
      BY <1>3, <1>5, <3>1, Zenon
  <2>5. QED
    BY <2>2, <2>3, <2>4 DEF AllMove
<1>7. CASE ~active
  <2>1. trk' = [trk EXCEPT ![t] = Blank] /\ cells' = cells /\ size' = size
    BY <1>7 DEF Settled, space
  <2>2. trk' \in [Trackers -> Tracker]
    BY <1>1, <1>4, <2>1
  <2>3. ASSUME NEW u \in Trackers PROVE Moves(u, trk[u], trk'[u])
    <3>1. trk'[u] = IF u = t THEN Blank ELSE trk[u]
      BY <1>1, <2>1
    <3>2. QED
      BY <1>4, <1>5, <3>1, Zenon
  <2>4. QED
    BY <1>1, <2>1, <2>2, <2>3 DEF AllMove
<1>8. QED
  BY <1>6, <1>7

LEMMA FailureMoves ==
  ASSUME CycleInv, NEW t \in Trackers, inactive_state_handler(t)
  PROVE  AllMove /\ cells' \in Seq(Trackers) /\ size' \in 0 .. Len(cells')
<1> DEFINE p == trk[t]
           failed == IF p.just_failed THEN p.failed_idx ELSE p.current
           next == SeekHttp(t, p.current)
           all == failed = next
           fails == IF all /\ p.failures < FailuresCap THEN p.failures + 1 ELSE p.failures
           tries == IF all THEN {} ELSE p.tried \cup {p.current}
           rest == IF all THEN "retry" ELSE "next_url"
           q == [p EXCEPT !.state = "inactive", !.type = "one", !.first = "any", !.maximum = TRUE,
                  !.just_failed = TRUE, !.failed_idx = failed, !.current = next, !.http = TRUE,
                  !.failures = fails, !.pause = rest, !.tried = tries]
<1>1. p \in Tracker /\ OnCycle(t, p) /\ p.flying /\ p.http
  BY DEF CycleInv, OnCycle, inactive_state_handler
<1>2. Settled(t, q)
  BY <1>1 DEF inactive_state_handler, Tracker
<1>3. failed = CycleStart(p)
  BY DEF CycleStart
<1>4. failed \in Nat /\ next \in Nat \ {0} /\ p.current \in Nat \ {0}
  <2>1. next \in HttpUrls(t)
    BY <1>1, CycleGrows
  <2>2. HttpUrls(t) \subseteq Nat \ {0}
    BY UrlsAssumption DEF HttpUrls
  <2>3. QED
    BY <1>1, <2>1, <2>2 DEF Tracker
<1>5. fails \in 0 .. FailuresCap /\ tries \in SUBSET (Nat \ {0})
      /\ rest \in {"none", "next_url", "retry", "interval"}
  <2>1. p.failures \in 0 .. FailuresCap /\ p.tried \in SUBSET (Nat \ {0})
    BY <1>1 DEF Tracker
  <2>2. QED
    BY <1>4, <2>1, BoundsAssumption
<1>6. rest = "retry" => CycleStart(p) = next
  BY <1>3
<1>7. tries = IF CycleStart(p) = next THEN {} ELSE p.tried \cup {p.current}
  BY <1>3
<1> HIDE DEF failed, next, fails, tries, rest
<1>8. q \in Tracker
  BY <1>1, <1>4, <1>5 DEF Tracker
<1>9. ASSUME NEW n \in Nat \ {0}
      PROVE  Moves(t, p, Ended(q, n))
  <2> DEFINE r == Ended(q, n)
  <2>1. r \in Tracker
    BY <1>8 DEF Tracker, Ended
  <2>2. /\ ~r.flying /\ r.just_failed /\ r.http /\ r.failed_idx = failed
        /\ r.current = next /\ r.pause = rest /\ r.tried = tries
    BY <1>1 DEF Tracker, Ended
  <2> HIDE DEF r, q
  <2>3. CycleStep(t, p, r)
    BY <1>1, <1>3, <1>6, <1>7, <2>1, <2>2 DEF CycleStep, next
  <2>4. QED
    BY <2>3 DEF Moves, r
<1> HIDE DEF q
<1>10. QED
  BY <1>2, <1>8, <1>9, SettledMoves

LEMMA AnswerMoves ==
  ASSUME CycleInv, NEW t \in Trackers, active_state_handler(t)
  PROVE  AllMove /\ cells' \in Seq(Trackers) /\ size' \in 0 .. Len(cells')
<1> DEFINE Kinds == {"interval", "min_first", "max_first"}
<1>1. /\ cells \in Seq(Trackers) /\ size \in 0 .. Len(cells) /\ trk \in [Trackers -> Tracker]
      /\ trk[t] \in Tracker
  BY DEF CycleInv, Stored
<1>2. ASSUME NEW kind \in Kinds
      PROVE  LET p == Answered(trk[t], kind) IN
             /\ p \in Tracker /\ p.pause = "interval" /\ ~p.just_failed /\ p.tried = {}
             /\ p.http = trk[t].http /\ p.current = trk[t].current
  <2>1. 0 \in 0 .. FailuresCap
    BY BoundsAssumption
  <2>2. QED
    BY <1>1, <2>1 DEF Answered, Tracker
<1>3. ASSUME NEW kind \in Kinds
      PROVE  LET p == Rearmed(Answered(trk[t], kind), kind) IN
             /\ p \in Tracker /\ p.pause = "interval" /\ ~p.just_failed /\ p.tried = {}
             /\ p.http = trk[t].http /\ p.current = trk[t].current
  <2> DEFINE p == Answered(trk[t], kind)
  <2>1. /\ p \in Tracker /\ p.pause = "interval" /\ ~p.just_failed /\ p.tried = {}
        /\ p.http = trk[t].http /\ p.current = trk[t].current
    BY <1>2
  <2> HIDE DEF p
  <2>2. /\ Rearmed(p, kind) \in Tracker /\ Rearmed(p, kind).pause = "interval"
        /\ ~Rearmed(p, kind).just_failed /\ Rearmed(p, kind).tried = {}
        /\ Rearmed(p, kind).http = p.http /\ Rearmed(p, kind).current = p.current
    BY <2>1 DEF Rearmed, Tracker
  <2>3. QED
    BY <2>1, <2>2 DEF p
<1>4. CASE \E kind \in Answers \cap Kinds : Settled(t, Rearmed(Answered(trk[t], kind), kind))
  <2>1. PICK kind \in Kinds : Settled(t, Rearmed(Answered(trk[t], kind), kind))
    BY <1>4
  <2> DEFINE p == Rearmed(Answered(trk[t], kind), kind)
  <2>2. /\ p \in Tracker /\ p.pause = "interval" /\ ~p.just_failed /\ p.tried = {}
        /\ p.http = trk[t].http /\ p.current = trk[t].current
    BY <1>3
  <2>3. Settled(t, p)
    BY <2>1
  <2> HIDE DEF p
  <2>4. ASSUME NEW n \in Nat \ {0}
        PROVE  Moves(t, trk[t], Ended(p, n))
    BY <2>2 DEF Moves, NewCycle, Tracker, Ended
  <2>5. QED
    BY <2>2, <2>3, <2>4, SettledMoves
<1>5. CASE /\ UNCHANGED space
           /\ \E kind \in Kinds :
                trk' = [trk EXCEPT ![t] = [Answered(@, kind) EXCEPT !.flying = FALSE]]
  <2>1. PICK kind \in Kinds :
          trk' = [trk EXCEPT ![t] = [Answered(trk[t], kind) EXCEPT !.flying = FALSE]]
    BY <1>1, <1>5
  <2> DEFINE p == Answered(trk[t], kind)
             q == [p EXCEPT !.flying = FALSE]
  <2>2. /\ p \in Tracker /\ p.pause = "interval" /\ ~p.just_failed /\ p.tried = {}
        /\ p.http = trk[t].http /\ p.current = trk[t].current
    BY <1>2
  <2>3. trk' = [trk EXCEPT ![t] = q]
    BY <2>1
  <2> HIDE DEF p
  <2>4. q \in Tracker /\ Moves(t, trk[t], q)
    BY <2>2 DEF Moves, NewCycle, Tracker
  <2> HIDE DEF q
  <2>5. trk' \in [Trackers -> Tracker]
    BY <1>1, <2>3, <2>4
  <2>6. ASSUME NEW u \in Trackers PROVE Moves(u, trk[u], trk'[u])
    <3>1. CASE u = t
      BY <1>1, <2>3, <2>4, <3>1
    <3>2. CASE u # t
      BY <1>1, <2>3, <3>2 DEF Moves, SameCycle
    <3>3. QED
      BY <3>1, <3>2
  <2>7. QED
    BY <1>1, <1>5, <2>5, <2>6 DEF AllMove, space
<1>6. QED
  BY <1>4, <1>5 DEF active_state_handler

LEMMA PopulateMoves ==
  ASSUME CycleInv, populate_manager_space
  PROVE  AllMove /\ cells' \in Seq(Trackers) /\ size' = Len(cells') /\ size' \in Nat
<1> DEFINE known == {t \in tracker_connections : HasHttp(t)}
<1>1. PICK order \in SetToSeqs(known) :
        /\ cells' = SubSeq(cells, 1, size) \o order
        /\ size' = size + Len(order)
        /\ trk' = [t \in Trackers |->
             IF t \notin known THEN trk[t]
             ELSE [trk[t] EXCEPT !.idx = size + CHOOSE i \in DOMAIN order : order[i] = t,
                                 !.current = IF trk[t].http THEN @ ELSE SeekHttp(t, @),
                                 !.http = TRUE]]
  BY DEF populate_manager_space
<1>2. known \in SUBSET Trackers
  BY DEF CycleInv, Stored
<1>3. /\ cells \in Seq(Trackers) /\ size \in 0 .. Len(cells)
      /\ trk \in [Trackers -> Tracker]
  BY DEF CycleInv, Stored
<1>4. /\ order \in Seq(Trackers)
      /\ \A t \in known : \E i \in 1 .. Len(order) : order[i] = t
  <2> HIDE DEF known
  <2>1. order \in SetToSeqs(known)
    BY <1>1, Zenon
  <2>2. QED
    BY <1>2, <2>1, OrderIsOnto, ZenonT(40)
<1>5. cells' \in Seq(Trackers) /\ size' = Len(cells') /\ size' \in Nat
  <2>1. SubSeq(cells, 1, size) \in Seq(Trackers) /\ Len(SubSeq(cells, 1, size)) = size
    BY <1>3
  <2>2. cells' = SubSeq(cells, 1, size) \o order /\ size' = size + Len(order)
    BY <1>1, Zenon
  <2>3. QED
    BY <1>3, <1>4, <2>1, <2>2
<1> DEFINE Place(t) == CHOOSE i \in DOMAIN order : order[i] = t
<1>6. ASSUME NEW t \in Trackers PROVE trk'[t] \in Tracker /\ Moves(t, trk[t], trk'[t])
  <2>1. trk[t] \in Tracker /\ OnCycle(t, trk[t])
    BY DEF CycleInv
  <2>2. CASE t \notin known
    <3>1. trk'[t] = trk[t]
      BY <1>1, <2>2
    <3>2. QED
      BY <2>1, <3>1 DEF Moves, SameCycle
  <2>3. CASE t \in known
    <3> DEFINE p == trk[t]
               c == IF p.http THEN p.current ELSE SeekHttp(t, p.current)
               n == size + Place(t)
               q == [p EXCEPT !.idx = n, !.current = c, !.http = TRUE]
    <3>1. trk'[t] = q
      BY <1>1, <2>1, <2>3 DEF Tracker
    <3>2. n \in Nat \ {0}
      <4>1. Place(t) \in 1 .. Len(order)
        BY <1>4, <2>3
      <4>2. QED
        BY <1>3, <1>4, <4>1
    <3>3. p.current \in Nat \ {0} /\ HasHttp(t) /\ p.http \in BOOLEAN
      BY <2>1, <2>3 DEF Tracker
    <3>4. SeekHttp(t, p.current) \in HttpUrls(t)
      BY <3>3, SeekFindsHttp DEF HttpUrls
    <3>5. c \in HttpUrls(t)
      BY <2>1, <3>4 DEF OnCycle
    <3>6. c \in Nat \ {0}
      BY <3>5, UrlsAssumption DEF HttpUrls
    <3>7. p.http => c = p.current
      OBVIOUS
    <3> HIDE DEF c, n, Place, known
    <3>8. /\ q \in Tracker /\ q.current = c /\ q.http /\ q.just_failed = p.just_failed
          /\ q.failed_idx = p.failed_idx /\ q.tried = p.tried /\ q.flying = p.flying
      BY <2>1, <3>2, <3>6 DEF Tracker
    <3> HIDE DEF q
    <3>9. CASE p.http
      <4>1. p.http = TRUE /\ q.http = TRUE
        BY <3>3, <3>8, <3>9 DEF Tracker
      <4>2. QED
        BY <3>1, <3>7, <3>8, <3>9, <4>1 DEF Moves, SameCycle
    <3>10. CASE ~p.http
      <4>1. FirstHttp(t, p, q)
        BY <3>5, <3>8, <3>10 DEF FirstHttp
      <4>2. QED
        BY <3>1, <3>8, <4>1 DEF Moves
    <3>11. QED
      BY <3>9, <3>10
  <2>4. QED
    BY <2>2, <2>3
<1>7. trk' \in [Trackers -> Tracker]
  <2> DEFINE Record(t) ==
        IF t \notin known THEN trk[t]
        ELSE [trk[t] EXCEPT !.idx = size + Place(t),
                            !.current = IF trk[t].http THEN @ ELSE SeekHttp(t, @),
                            !.http = TRUE]
  <2>1. trk' = [t \in Trackers |-> Record(t)]
    BY <1>1
  <2> HIDE DEF Record
  <2>2. QED
    BY <1>6, <2>1
<1>8. QED
  BY <1>5, <1>6, <1>7 DEF AllMove
\* One step of the manager, whatever it is.
LEMMA StepMoves ==
  ASSUME CycleInv, [Next]_vars
  PROVE  AllMove /\ Stored'
<1>1. /\ tracker_connections \subseteq Trackers
      /\ cells \in Seq(Trackers) /\ size \in 0 .. Len(cells)
      /\ it \in Nat \ {0} /\ end \in Nat \ {0}
      /\ phase \in Events => end - 1 <= Len(cells)
      /\ trk \in [Trackers -> Tracker]
  BY DEF CycleInv, Stored
<1>2. ASSUME trk' = trk PROVE AllMove
  BY <1>1, <1>2 DEF AllMove, Moves, SameCycle
<1>3. CASE UNCHANGED vars
  BY <1>2, <1>3, <1>1 DEF vars, Stored, space, handler, walk
<1>4. CASE CallSends \/ \E e \in Events : Call(e)
  BY <1>1, <1>2, <1>4 DEF CallSends, Call, Stored, space, handler, walk
<1>5. ASSUME NEW t \in tracker_connections, Timeout(t) PROVE AllMove /\ Stored'
  <2>1. PICK which \in {"min", "max"} : tracker_timeout_handler(t, which)
    BY <1>5 DEF Timeout
  <2> DEFINE p == Expired(trk[t], which)
  <2>2. t \in Trackers /\ trk[t] \in Tracker /\ SameCycle(trk[t], p)
    <3>1. t \in Trackers /\ trk[t] \in Tracker
      BY <1>1
    <3>2. SameCycle(trk[t], p)
      BY <3>1 DEF SameCycle, Expired, Tracker
    <3>3. QED
      BY <3>1, <3>2
  <2>3. UNCHANGED <<tracker_connections, handler>> /\ phase = "idle"
    BY <2>1 DEF tracker_timeout_handler, Polled, Idle
  <2>4. CASE /\ trk' = [trk EXCEPT ![t] = [p EXCEPT !.interruptible = TRUE]]
             /\ UNCHANGED <<space, halted>>
    <3> DEFINE q == [p EXCEPT !.interruptible = TRUE]
    <3>1. SameCycle(trk[t], q) /\ q \in Tracker
      <4> HIDE DEF p
      <4>1. QED
        BY <2>2 DEF SameCycle, Tracker
    <3>2. trk' = [trk EXCEPT ![t] = q]
      BY <2>4
    <3> HIDE DEF q
    <3>3. trk' \in [Trackers -> Tracker]
      BY <1>1, <3>1, <3>2
    <3>4. ASSUME NEW u \in Trackers PROVE Moves(u, trk[u], trk'[u])
      <4>1. CASE u = t
        BY <1>1, <3>1, <3>2, <4>1 DEF Moves
      <4>2. CASE u # t
        BY <1>1, <3>2, <4>2 DEF Moves, SameCycle
      <4>3. QED
        BY <4>1, <4>2
    <3>5. QED
      BY <1>1, <2>3, <2>4, <3>3, <3>4 DEF AllMove, Stored, space, handler, walk
  <2>5. CASE send_to_protocol_space(t, Requested(p))
    <3>1. SameCycle(trk[t], Requested(p))
      BY <2>2, RequestedMoves
    <3>2. AllMove /\ cells' \in Seq(Trackers) /\ size' \in 0 .. Len(cells')
      BY <2>2, <2>5, <3>1, SentMoves
    <3>3. QED
      BY <1>1, <2>3, <3>2 DEF Stored, handler, walk, Events
  <2>6. QED
    BY <2>1, <2>4, <2>5 DEF tracker_timeout_handler
<1>6. ASSUME NEW t \in tracker_connections, AnswerArrives(t) PROVE AllMove /\ Stored'
  <2>1. t \in Trackers
    BY <1>1
  <2>2. CASE inactive_state_handler(t)
    <3>1. AllMove /\ cells' \in Seq(Trackers) /\ size' \in 0 .. Len(cells')
      BY <2>1, <2>2, FailureMoves
    <3>2. UNCHANGED <<tracker_connections, handler>> /\ phase = "idle"
      BY <2>2 DEF inactive_state_handler, Polled, Idle
    <3>3. QED
      BY <1>1, <3>1, <3>2 DEF Stored, handler, walk, Events
  <2>3. CASE active_state_handler(t)
    <3>1. AllMove /\ cells' \in Seq(Trackers) /\ size' \in 0 .. Len(cells')
      BY <2>1, <2>3, AnswerMoves
    <3>2. UNCHANGED <<tracker_connections, handler>> /\ phase = "idle"
      BY <2>3 DEF active_state_handler, Polled, Idle
    <3>3. QED
      BY <1>1, <3>1, <3>2 DEF Stored, handler, walk, Events
  <2>4. CASE ErasedByAnswer(t)
    <3>1. /\ trk' = [trk EXCEPT ![t] = Blank] /\ tracker_connections' \subseteq tracker_connections
          /\ UNCHANGED <<space, handler>>
      BY <2>4 DEF ErasedByAnswer
    <3>2. Blank \in Tracker /\ Moves(t, trk[t], Blank)
      BY BlankMoves
    <3>3. trk' \in [Trackers -> Tracker]
      BY <1>1, <3>1, <3>2
    <3>4. ASSUME NEW u \in Trackers PROVE Moves(u, trk[u], trk'[u])
      <4>1. CASE u = t
        BY <1>1, <3>1, <3>2, <4>1
      <4>2. CASE u # t
        BY <1>1, <3>1, <4>2 DEF Moves, SameCycle
      <4>3. QED
        BY <4>1, <4>2
    <3>5. QED
      BY <1>1, <3>1, <3>3, <3>4 DEF AllMove, Stored, space, handler, walk
  <2>5. CASE ThrownByAnswer(t)
    BY <1>1, <1>2, <2>5 DEF ThrownByAnswer, Stored, space, handler, walk
  <2>6. QED
    BY <1>6, <2>2, <2>3, <2>4, <2>5 DEF AnswerArrives
<1>7. ASSUME NEW done, NEW on, EnterWalk(done, on), UNCHANGED tracker_connections
      PROVE  AllMove /\ Stored'
  <2>1. AllMove /\ cells' \in Seq(Trackers) /\ size' = Len(cells') /\ size' \in Nat
    <3>1. CASE phase' = "start"
      BY <1>7, <3>1, PopulateMoves DEF EnterWalk
    <3>2. CASE phase' # "start"
      <4>1. trk' = trk /\ cells' = SubSeq(cells, 1, size) /\ size' = size
        BY <1>7, <3>2 DEF EnterWalk
      <4>2. QED
        BY <1>1, <1>2, <4>1
    <3>3. QED
      BY <3>1, <3>2
  <2>2. it' = 1 /\ end' = size' + 1
    BY <1>7 DEF EnterWalk
  <2>3. QED
    BY <1>1, <1>7, <2>1, <2>2 DEF Stored
<1>8. ASSUME NEW name \in Events, Walking(name)
      PROVE  /\ Current \in Trackers /\ trk[Current] \in Tracker /\ phase # "idle"
             /\ it' \in Nat \ {0}
  BY <1>1, <1>8 DEF Walking, More, Current, Events
<1>9. ASSUME NEW name \in Events, Walking(name), NEW p, SameCycle(trk[Current], p),
             send_to_protocol_space(Current, p), UNCHANGED <<tracker_connections, phase, end>>
      PROVE  AllMove /\ Stored'
  <2>1. Current \in Trackers /\ phase # "idle" /\ it' \in Nat \ {0}
    BY <1>8, <1>9
  <2>2. /\ AllMove /\ cells' \in Seq(Trackers) /\ size' \in 0 .. Len(cells')
        /\ Len(cells') = Len(cells)
    BY <1>9, <2>1, SentMoves
  <2>3. QED
    BY <1>1, <1>9, <2>1, <2>2 DEF Stored
<1>10. ASSUME NEW name \in Events, Walking(name), trk' = trk,
              UNCHANGED <<space, tracker_connections, phase, end>>
       PROVE  AllMove /\ Stored'
  <2>1. it' \in Nat \ {0}
    BY <1>8, <1>10
  <2>2. QED
    BY <1>1, <1>2, <1>10, <2>1 DEF Stored, space
<1>11. CASE handle_event
  <2>1. CASE EventBegins
    BY <1>7, <2>1 DEF EventBegins
  <2>2. CASE start_event
    <3>1. Walking("start") /\ UNCHANGED <<space, tracker_connections, phase, end>>
      BY <2>2 DEF start_event
    <3>2. "start" \in Events
      BY DEF Events
    <3>3. CASE trk' = trk
      BY <1>10, <3>1, <3>2, <3>3
    <3>4. CASE trk' = [trk EXCEPT ![Current].state = "inactive", ![Current].maximum = TRUE]
      <4> DEFINE u == Current
                 q == [trk[u] EXCEPT !.state = "inactive", !.maximum = TRUE]
      <4>1. u \in Trackers /\ trk[u] \in Tracker /\ it' \in Nat \ {0}
        BY <1>8, <3>1, <3>2
      <4>2. q \in Tracker /\ SameCycle(trk[u], q)
        <5> HIDE DEF u
        <5>1. QED
          BY <4>1 DEF SameCycle, Tracker
      <4>3. trk' = [trk EXCEPT ![u] = q]
        <5> HIDE DEF u
        <5>1. trk' = [trk EXCEPT ![u].state = "inactive", ![u].maximum = TRUE]
          BY <3>4 DEF u
        <5>2. QED
          BY <1>1, <4>1, <5>1 DEF Tracker
      <4> HIDE DEF u, q
      <4>4. trk' \in [Trackers -> Tracker]
        BY <1>1, <4>1, <4>2, <4>3
      <4>5. ASSUME NEW v \in Trackers PROVE Moves(v, trk[v], trk'[v])
        <5>1. CASE v = u
          BY <1>1, <4>2, <4>3, <5>1 DEF Moves
        <5>2. CASE v # u
          BY <1>1, <4>3, <5>2 DEF Moves, SameCycle
        <5>3. QED
          BY <5>1, <5>2
      <4>6. QED
        BY <1>1, <3>1, <4>1, <4>4, <4>5 DEF AllMove, Stored, space
    <3>5. QED
      BY <2>2, <3>3, <3>4 DEF start_event
  <2>3. CASE reannounce_event
    <3>1. Walking("reannounce") /\ "reannounce" \in Events
          /\ UNCHANGED <<tracker_connections, phase, end>>
      BY <2>3 DEF reannounce_event, Events
    <3> DEFINE p == [trk[Current] EXCEPT !.maximum = FALSE]
    <3>2. SameCycle(trk[Current], Requested(p))
      <4>1. trk[Current] \in Tracker
        BY <1>8, <3>1
      <4>2. SameCycle(trk[Current], p)
        BY <4>1 DEF SameCycle, Tracker
      <4>3. QED
        BY <4>1, <4>2, RequestedMoves
    <3>3. CASE send_to_protocol_space(Current, Requested(p))
      BY <1>9, <3>1, <3>2, <3>3
    <3>4. CASE UNCHANGED <<trk, space, halted>>
      BY <1>10, <3>1, <3>4
    <3>5. QED
      BY <2>3, <3>3, <3>4 DEF reannounce_event
  <2>4. CASE force_reannounce_event
    <3>1. Walking("force_reannounce") /\ "force_reannounce" \in Events
          /\ UNCHANGED <<tracker_connections, phase, end>>
      BY <2>4 DEF force_reannounce_event, Events
    <3> DEFINE p == [trk[Current] EXCEPT !.maximum = FALSE, !.minimum = FALSE]
    <3>2. SameCycle(trk[Current], Requested(p))
      <4>1. trk[Current] \in Tracker
        BY <1>8, <3>1
      <4>2. SameCycle(trk[Current], p)
        BY <4>1 DEF SameCycle, Tracker
      <4>3. QED
        BY <4>1, <4>2, RequestedMoves
    <3>3. CASE send_to_protocol_space(Current, Requested(p))
      BY <1>9, <3>1, <3>2, <3>3
    <3>4. CASE UNCHANGED <<trk, space, halted>>
      BY <1>10, <3>1, <3>4
    <3>5. QED
      BY <2>4, <3>3, <3>4 DEF force_reannounce_event
  <2>5. CASE shutdown_event
    <3>1. Walking("shutdown") /\ "shutdown" \in Events
          /\ UNCHANGED <<tracker_connections, phase, end>>
      BY <2>5 DEF shutdown_event, Events
    <3> DEFINE p == [trk[Current] EXCEPT !.maximum = FALSE]
               q == [p EXCEPT !.minimum = @ /\ p.type = "one"]
               r == IF p.state = "inactive" THEN [p EXCEPT !.left_out = TRUE] ELSE Requested(q)
    <3>2. SameCycle(trk[Current], r)
      <4>1. trk[Current] \in Tracker
        BY <1>8, <3>1
      <4>2. SameCycle(trk[Current], p) /\ p \in Tracker
        BY <4>1 DEF SameCycle, Tracker
      <4>3. SameCycle(trk[Current], q)
        <5> HIDE DEF p
        <5>1. (p.minimum /\ p.type = "one") \in BOOLEAN
          BY <4>2 DEF Tracker
        <5>2. QED
          BY <4>2, <5>1 DEF SameCycle, Tracker
      <4>4. SameCycle(trk[Current], Requested(q))
        BY <4>1, <4>3, RequestedMoves
      <4>5. SameCycle(trk[Current], [p EXCEPT !.left_out = TRUE])
        <5> HIDE DEF p
        <5>1. QED
          BY <4>2 DEF SameCycle, Tracker
      <4>6. QED
        BY <4>4, <4>5
    <3>3. send_to_protocol_space(Current, r)
      BY <2>5 DEF shutdown_event
    <3> HIDE DEF r
    <3>4. QED
      BY <1>9, <3>1, <3>2, <3>3
  <2>6. CASE WalkEnds
    BY <1>7, <2>6 DEF WalkEnds
  <2>7. CASE EventEnds
    BY <1>1, <1>2, <2>7 DEF EventEnds, Stored, space, Events
  <2>8. QED
    BY <1>11, <2>1, <2>2, <2>3, <2>4, <2>5, <2>6, <2>7 DEF handle_event
<1>12. QED
  BY <1>3, <1>4, <1>5, <1>6, <1>11 DEF Next

\* A tracker is given up for a longer time only after every http URL of it has failed,
\* whatever answers come in between and whatever the asserts: along the announce list
\* the URLs that failed are those from failed_idx on, and seek_to_next_url skips none.
THEOREM CycleIsComplete == Spec => CycleComplete
<1> DEFINE Complete ==
      \A t \in Trackers :
        trk[t].flying /\ ~trk'[t].flying /\ trk'[t].pause = "retry"
        => trk[t].tried \cup {trk[t].current} = {i \in DOMAIN Urls[t] : Urls[t][i] = "http"}
<1>1. Init => CycleInv
  <2> SUFFICES ASSUME Init PROVE CycleInv
    OBVIOUS
  <2>1. Stored
    BY DEF Init, Stored, Events
  <2>2. Blank \in Tracker
    BY BlankMoves
  <2>3. ASSUME NEW t \in Trackers PROVE OnCycle(t, Blank)
    <3>1. 1 \in DOMAIN Urls[t] /\ HttpUrls(t) \subseteq 1 .. Len(Urls[t]) /\ Len(Urls[t]) \in Nat
      BY UrlsAssumption DEF HttpUrls
    <3>2. CycleStart(Blank) = 1 /\ Blank.current = 1 /\ Blank.tried = {} /\ ~Blank.http
          /\ ~Blank.flying /\ ~Blank.just_failed
      BY DEF CycleStart, Blank
    <3>3. {i \in HttpUrls(t) : Ahead(Len(Urls[t]), 1, i) < Ahead(Len(Urls[t]), 1, 1)} = {}
      BY <3>1 DEF Ahead
    <3>4. QED
      BY <2>2, <3>1, <3>2, <3>3 DEF OnCycle
  <2>4. QED
    BY <2>1, <2>2, <2>3 DEF CycleInv, Init
<1>2. CycleInv /\ [Next]_vars => CycleInv' /\ [Complete]_vars
  <2> SUFFICES ASSUME CycleInv, [Next]_vars PROVE CycleInv' /\ Complete
    OBVIOUS
  <2>1. AllMove /\ Stored'
    BY StepMoves
  <2>2. ASSUME NEW t \in Trackers
        PROVE  OnCycle(t, trk'[t]) /\ GivenUpRight(t, trk[t], trk'[t])
    <3>1. OnCycle(t, trk[t]) /\ Moves(t, trk[t], trk'[t])
      BY <2>1 DEF CycleInv, AllMove
    <3>2. QED
      BY <3>1, MovesKeep
  <2>3. CycleInv'
    BY <2>1, <2>2 DEF CycleInv, AllMove
  <2>4. Complete
    BY <2>2 DEF GivenUpRight, HttpUrls
  <2>5. QED
    BY <2>3, <2>4
<1>3. QED
  BY <1>1, <1>2, PTL DEF Spec, CycleComplete
==============================================================================
