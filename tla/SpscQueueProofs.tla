--------------------------- MODULE SpscQueueProofs ---------------------------
(***************************************************************************)
(* Proofs about SpscQueue for every capacity, item set and batch size.     *)
(*                                                                         *)
(* The argument rests on IndInv: going around the ring from the producer's *)
(* cached read index one meets read_idx_ and then write_idx_, and the      *)
(* consumer's cached write index lies between read_idx_ and write_idx_.    *)
(* A stale cache therefore under-estimates what its owner may use, and a   *)
(* cell being filled is outside the part that may be read.                 *)
(***************************************************************************)
EXTENDS SpscQueue, SequenceTheorems, TLAPS

\* The caches lag behind the indices they mirror, never overtake them.
CachesLag ==
  /\ Distance(cached_read_idx_, read_idx_) + Distance(read_idx_, write_idx_)
       = Distance(cached_read_idx_, write_idx_)
  /\ Distance(read_idx_, cached_write_idx_) <= Distance(read_idx_, write_idx_)

\* What each thread has established by the time it touches a cell.
InFlight ==
  /\ ppc # "idle" => val \in Item
  /\ ppc \in {"store", "publish"} => NextIndex(write_idx_) # cached_read_idx_
  /\ ppc = "publish" => queue[write_idx_] = val
  /\ cpc \in {"read", "release"} => read_idx_ # cached_write_idx_
  /\ cpc = "release" => got = queue[read_idx_]

IndInv == TypeOK /\ CachesLag /\ InFlight

\* Initially everything is empty and nobody is inside push or pop.
LEMMA InitIndInv == Init => IndInv
<1> SUFFICES ASSUME Init PROVE IndInv
  OBVIOUS
<1>1. queue \in [Index -> Item \cup {NoItem}]
  BY DEF Init
<1>2. notify \in BOOLEAN /\ async \in BOOLEAN
  BY Zenon DEF Init
<1>3. TypeOK
  BY SizeAssumption, BatchAssumption, <1>1, <1>2 DEF Init, TypeOK, Index
<1>4. CachesLag /\ InFlight
  BY SizeAssumption DEF Init, CachesLag, InFlight, Distance
<1>5. QED
  BY <1>3, <1>4 DEF IndInv

\* Every step of either thread preserves the invariant.
LEMMA NextIndInv == IndInv /\ [Next]_vars => IndInv'
<1> SUFFICES ASSUME IndInv, [Next]_vars PROVE IndInv'
  OBVIOUS
<1> USE SizeAssumption, BatchAssumption
<1>1. ASSUME NEW v \in Item, PushBegin(v) PROVE IndInv'
  BY <1>1 DEF IndInv, TypeOK, CachesLag, InFlight, Distance, Index, PushBegin,
              NextIndex, consVars
<1>2. CASE PushRefresh
  BY <1>2 DEF IndInv, TypeOK, CachesLag, InFlight, Distance, Index, PushRefresh,
              NextIndex, consVars
<1>3. CASE PushStore
  BY <1>3 DEF IndInv, TypeOK, CachesLag, InFlight, Distance, Index, PushStore,
              NextIndex, consVars
<1>4. CASE PushPublish
  BY <1>4 DEF IndInv, TypeOK, CachesLag, InFlight, Distance, Index, PushPublish,
              NextIndex, consVars
<1>5. CASE EndBatch
  <2>1. notify' \in BOOLEAN /\ async' \in BOOLEAN
    BY <1>5, Zenon DEF IndInv, TypeOK, EndBatch
  <2>2. TypeOK'
    BY <1>5, <2>1 DEF IndInv, TypeOK, EndBatch, Index, consVars
  <2>3. CachesLag' /\ InFlight'
    BY <1>5 DEF IndInv, TypeOK, CachesLag, InFlight, Distance, Index, EndBatch,
                NextIndex, consVars
  <2>4. QED
    BY <2>2, <2>3 DEF IndInv
<1>6. CASE Wake
  BY <1>6 DEF IndInv, TypeOK, CachesLag, InFlight, Distance, Index, Wake,
              NextIndex, prodVars
<1>7. CASE PopBegin
  BY <1>7 DEF IndInv, TypeOK, CachesLag, InFlight, Distance, Index, PopBegin,
              NextIndex, prodVars
<1>8. CASE PopRefresh
  BY <1>8 DEF IndInv, TypeOK, CachesLag, InFlight, Distance, Index, PopRefresh,
              NextIndex, prodVars
<1>9. CASE PopRead
  BY <1>9 DEF IndInv, TypeOK, CachesLag, InFlight, Distance, Index, PopRead,
              NextIndex, prodVars
<1>10. CASE PopRelease
  BY <1>10 DEF IndInv, TypeOK, CachesLag, InFlight, Distance, Index, PopRelease,
              NextIndex, prodVars
<1>11. CASE UNCHANGED vars
  BY <1>11 DEF IndInv, TypeOK, CachesLag, InFlight, Distance, NextIndex, vars
<1>12. QED
  BY <1>1, <1>2, <1>3, <1>4, <1>5, <1>6, <1>7, <1>8, <1>9, <1>10, <1>11
     DEF Next, Producer, Consumer

\* The inductive invariant holds of the queue in every reachable state.
LEMMA Invariance == Spec => []IndInv
BY InitIndInv, NextIndInv, PTL DEF Spec

\* Indices stay inside the array and every cell holds an item or the default.
THEOREM TypeCorrect == Spec => []TypeOK
<1>1. IndInv => TypeOK
  BY DEF IndInv
<1>2. QED
  BY Invariance, <1>1, PTL

\* push's write and pop's read of queue[] never meet in one cell, whatever the
\* capacity: a cell is written only while it is outside the readable part.
THEOREM RaceFreedom == Spec => []NoDataRace
<1>1. IndInv => NoDataRace
  BY SizeAssumption DEF IndInv, TypeOK, CachesLag, InFlight, NoDataRace, Distance, Index
<1>2. QED
  BY Invariance, <1>1, PTL

\* push returns false only on a queue that holds Size items and pop returns false
\* only on an empty one: the cached indices never cause a spurious refusal.
THEOREM RefusalsReal == Spec => RefusalsAreReal
<1>1. IndInv /\ [Next]_vars =>
        [ /\ ppc = "refresh" /\ ppc' = "idle" => Count = Size
          /\ cpc = "refresh" /\ cpc' = "asleep" => Count = 0 ]_vars
  BY SizeAssumption
     DEF IndInv, TypeOK, Next, Producer, Consumer, PushBegin, PushRefresh, PushStore,
         PushPublish, EndBatch, Wake, PopBegin, PopRefresh, PopRead, PopRelease, vars,
         prodVars, consVars, Count, Distance, Index, NextIndex
<1>2. QED
  BY Invariance, <1>1, PTL DEF Spec, RefusalsAreReal
------------------------------------------------------------------------------
(* The ring implements the atomic bounded queue.                           *)

\* Contents is a sequence of Count values, the k-th being the cell k - 1 steps
\* after read_idx_.
ContentsShape ==
  /\ Count \in 0 .. Size
  /\ Contents \in Seq(Item \cup {NoItem})
  /\ Len(Contents) = Count
  /\ \A k \in 1 .. Count : Contents[k] = queue[At(read_idx_, k - 1)]

\* The ring between the two indices always reads as such a sequence.
LEMMA ContentsSeq == TypeOK => ContentsShape
<1> SUFFICES ASSUME TypeOK PROVE ContentsShape
  OBVIOUS
<1>1. Count \in 0 .. Size
  BY SizeAssumption DEF TypeOK, Index, Count, Distance
<1>2. \A k \in 1 .. Count : queue[At(read_idx_, k - 1)] \in Item \cup {NoItem}
  BY <1>1, SizeAssumption DEF TypeOK, Index, At
<1>3. Contents \in [1 .. Count -> Item \cup {NoItem}]
  BY <1>2 DEF Contents
<1>4. Contents \in Seq(Item \cup {NoItem}) /\ Len(Contents) = Count
  BY <1>1, <1>3, SeqDef, SizeAssumption
<1>5. \A k \in 1 .. Count : Contents[k] = queue[At(read_idx_, k - 1)]
  BY DEF Contents
<1>6. QED
  BY <1>1, <1>4, <1>5 DEF ContentsShape

\* Publishing write_idx_ is the step that appends the pushed value.
LEMMA PublishAppends ==
  ASSUME IndInv, IndInv', PushPublish
  PROVE  Len(Contents) < Size /\ Contents' = Append(Contents, val)
<1> USE SizeAssumption
<1>1. /\ Count \in 0 .. Size /\ Contents \in Seq(Item \cup {NoItem})
      /\ Len(Contents) = Count
      /\ \A k \in 1 .. Count : Contents[k] = queue[At(read_idx_, k - 1)]
  BY ContentsSeq DEF IndInv, ContentsShape
<1>2. /\ Count' \in 0 .. Size /\ Contents' \in Seq(Item \cup {NoItem})
      /\ Len(Contents') = Count'
      /\ \A k \in 1 .. Count' : Contents'[k] = queue[At(read_idx_, k - 1)]
  <2>1. ContentsShape'
    BY ContentsSeq, PTL DEF IndInv
  <2>2. QED
    BY <2>1 DEF ContentsShape, At, PushPublish, consVars
<1>3. Count < Size /\ Count' = Count + 1
  BY DEF IndInv, TypeOK, CachesLag, InFlight, PushPublish, Count, Distance, Index,
         NextIndex, consVars
<1>4. At(read_idx_, Count) = write_idx_
  BY <1>3 DEF IndInv, TypeOK, At, Count, Distance, Index
<1>5. queue[write_idx_] = val /\ val \in Item \cup {NoItem}
  BY DEF IndInv, InFlight, TypeOK, PushPublish
<1>6. /\ Append(Contents, val) \in Seq(Item \cup {NoItem})
      /\ Len(Append(Contents, val)) = Count + 1
      /\ \A k \in 1 .. Count : Append(Contents, val)[k] = Contents[k]
      /\ Append(Contents, val)[Count + 1] = val
  BY <1>1, <1>5
<1>7. \A k \in 1 .. Count + 1 : Contents'[k] = Append(Contents, val)[k]
  <2> TAKE k \in 1 .. Count + 1
  <2>1. Contents'[k] = queue[At(read_idx_, k - 1)]
    BY <1>2, <1>3
  <2>2. CASE k = Count + 1
    BY <2>1, <2>2, <1>1, <1>4, <1>5, <1>6
  <2>3. CASE k \in 1 .. Count
    BY <2>1, <2>3, <1>1, <1>6
  <2>4. QED
    BY <2>2, <2>3, <1>1
<1>8. QED
  BY <1>1, <1>2, <1>3, <1>6, <1>7, SeqEqual

\* Advancing read_idx_ is the step that removes the oldest value, the one returned.
LEMMA ReleaseTakesHead ==
  ASSUME IndInv, IndInv', PopRelease
  PROVE  /\ Contents # << >>
         /\ out' = Head(Contents)
         /\ Contents' = Tail(Contents)
<1> USE SizeAssumption
<1>1. /\ Count \in 0 .. Size /\ Contents \in Seq(Item \cup {NoItem})
      /\ Len(Contents) = Count
      /\ \A k \in 1 .. Count : Contents[k] = queue[At(read_idx_, k - 1)]
  BY ContentsSeq DEF IndInv, ContentsShape
<1>2. /\ Count' \in 0 .. Size /\ Contents' \in Seq(Item \cup {NoItem})
      /\ Len(Contents') = Count'
      /\ \A k \in 1 .. Count' : Contents'[k] = queue[At(read_idx_', k - 1)]
  <2>1. ContentsShape'
    BY ContentsSeq, PTL DEF IndInv
  <2>2. QED
    BY <2>1 DEF ContentsShape, At, PopRelease, prodVars
<1>3. Count > 0 /\ Count' = Count - 1
  BY DEF IndInv, TypeOK, CachesLag, InFlight, PopRelease, Count, Distance, Index,
         NextIndex, prodVars
<1>4. At(read_idx_, 0) = read_idx_
      /\ \A k \in 1 .. Count - 1 : At(read_idx_', k - 1) = At(read_idx_, k)
  BY <1>1, <1>3 DEF IndInv, TypeOK, PopRelease, At, NextIndex, Index
<1>5. Contents # << >>
  BY <1>1, <1>3
<1>6. Contents[1] = queue[read_idx_]
  BY <1>1, <1>3, <1>4
<1>7. out' = Head(Contents)
  BY <1>1, <1>5, <1>6 DEF IndInv, InFlight, PopRelease
<1>8. /\ Tail(Contents) \in Seq(Item \cup {NoItem})
      /\ Len(Tail(Contents)) = Count - 1
      /\ \A k \in 1 .. Count - 1 : Tail(Contents)[k] = Contents[k + 1]
  BY <1>1, <1>5, HeadTailProperties
<1>9. \A k \in 1 .. Count - 1 : Contents'[k] = Tail(Contents)[k]
  BY <1>1, <1>2, <1>3, <1>4, <1>8
<1>10. QED
  BY <1>2, <1>3, <1>5, <1>7, <1>8, <1>9, SeqEqual

\* Storing into the cell at write_idx_ leaves the readable part alone.
LEMMA StoreInvisible ==
  ASSUME IndInv, PushStore
  PROVE  Contents' = Contents
<1>1. Count' = Count /\ read_idx_' = read_idx_
  BY DEF PushStore, Count, Distance, consVars
<1>2. \A k \in 1 .. Count : At(read_idx_, k - 1) # write_idx_
  BY SizeAssumption DEF IndInv, TypeOK, At, Count, Distance, Index
<1>3. \A k \in 1 .. Count : queue'[At(read_idx_, k - 1)] = queue[At(read_idx_, k - 1)]
  BY <1>2, SizeAssumption DEF IndInv, TypeOK, PushStore, Index, At, Count, Distance
<1>4. \A k \in 1 .. Count : At(read_idx_, k - 1)' = At(read_idx_, k - 1)
  BY <1>1 DEF At
<1>5. QED
  BY <1>1, <1>3, <1>4 DEF Contents, At

\* Whatever the interleaving of the two threads, spsc_queue behaves as an atomic
\* bounded first-in first-out queue: nothing lost, duplicated, torn or reordered.
THEOREM Refinement == Spec => FifoSpec
<1>1. Init => Fifo!Init
  <2> SUFFICES ASSUME Init PROVE Contents = << >> /\ out = NoItem
    BY DEF Fifo!Init
  <2>1. TypeOK
    BY InitIndInv DEF IndInv
  <2>2. Count = 0
    BY DEF Init, Count, Distance
  <2>3. QED
    BY <2>1, <2>2, ContentsSeq, EmptySeq DEF Init, ContentsShape
<1>2. IndInv /\ IndInv' /\ [Next]_vars => [Fifo!Next]_<<Contents, out>>
  <2> SUFFICES ASSUME IndInv, IndInv', [Next]_vars
               PROVE  [Fifo!Next]_<<Contents, out>>
    OBVIOUS
  <2>1. CASE PushPublish
    <3>1. Fifo!Push(val) /\ val \in Item
      BY <2>1, PublishAppends DEF Fifo!Push, PushPublish, consVars, IndInv, InFlight
    <3>2. QED
      BY <3>1 DEF Fifo!Next
  <2>2. CASE PopRelease
    BY <2>2, ReleaseTakesHead DEF Fifo!Next, Fifo!Pop
  <2>3. CASE PushStore
    BY <2>3, StoreInvisible DEF PushStore, consVars
  <2>4. CASE \/ \E v \in Item : PushBegin(v)
             \/ PushRefresh \/ EndBatch \/ Wake \/ PopBegin \/ PopRefresh \/ PopRead
             \/ UNCHANGED vars
    <3>1. UNCHANGED <<queue, read_idx_, write_idx_, out>>
      BY <2>4 DEF PushBegin, PushRefresh, EndBatch, Wake, PopBegin, PopRefresh, PopRead,
                  vars, prodVars, consVars
    <3>2. QED
      BY <3>1 DEF Contents, Count, Distance, At
  <2>5. QED
    BY <2>1, <2>2, <2>3, <2>4 DEF Next, Producer, Consumer
<1>3. QED
  BY <1>1, <1>2, Invariance, PTL DEF Spec, FifoSpec, Fifo!Spec, Fifo!fifoVars
==============================================================================
