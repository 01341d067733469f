------------------------------ MODULE SpscQueue ------------------------------
(***************************************************************************)
(* beamable_spsc_t: the lock-free single-producer single-consumer ring     *)
(* buffer spsc_queue together with the ev::async watcher its producer      *)
(* signals.  Every message between threads of the engine crosses one: peer *)
(* contacts (tracker thread to connection thread), connects (connection to *)
(* transfer thread) and disconnects (back).                                *)
(*                                                                         *)
(* A step is one access to memory the other thread also uses, with the     *)
(* thread-local code around it.  Indices are published with release and    *)
(* read with acquire order, and each is written by one thread only, so an  *)
(* interleaving of these steps is what the C++ memory model allows.  The   *)
(* array cells are plain memory: NoDataRace is what makes using them legal.*)
(***************************************************************************)
EXTENDS Naturals, Sequences

CONSTANTS Item,      \* values that are pushed
          NoItem,    \* Type{}: what the cells hold initially
          Size,      \* template parameter Size
          MaxBatch   \* most pushes a producer makes before it signals

ASSUME SizeAssumption  == Size \in Nat \ {0}
ASSUME BatchAssumption == MaxBatch \in Nat \ {0}

VARIABLES
  queue,              \* std::array<Type, Size + dummy_slot_count>
  read_idx_,          \* written by the consumer, read by both
  cached_read_idx_,   \* the producer's last look at read_idx_
  write_idx_,         \* written by the producer, read by both
  cached_write_idx_,  \* the consumer's last look at write_idx_
  ppc, val,           \* producer: where in push(val) it is
  batch, notify,      \* producer: pushes in this batch; notify_consumer
  cpc, got, out,      \* consumer: where in pop it is; val's cell; last result
  async               \* ev::async: a send() not yet answered by a callback

prodVars == <<queue, write_idx_, cached_read_idx_, ppc, val, batch, notify>>
consVars == <<read_idx_, cached_write_idx_, cpc, got, out>>
vars     == <<queue, read_idx_, cached_read_idx_, write_idx_, cached_write_idx_,
              ppc, val, batch, notify, cpc, got, out, async>>

\* queue.size() is Size + 1: one cell is always left empty.
Index == 0 .. Size

\* Slip: the index is compared with one past the spare cell.
SlipNextIndex(i) == IF i + 1 = Size + 2 THEN 0 ELSE i + 1

NextIndex(i) == IF i + 1 = Size + 1 THEN 0 ELSE i + 1

Init ==
  /\ queue = [i \in Index |-> NoItem]
  /\ read_idx_ = 0 /\ cached_read_idx_ = 0
  /\ write_idx_ = 0 /\ cached_write_idx_ = 0
  /\ ppc = "idle" /\ val = NoItem /\ batch = 0 /\ notify = FALSE
  /\ cpc = "asleep" /\ got = NoItem /\ out = NoItem
  /\ async = FALSE
------------------------------------------------------------------------------
(* The producer: push(), and the send() that ends a batch of pushes.       *)

\* Slip: push without the full check.
SlipPushBegin(v) ==
  /\ ppc = "idle" /\ batch < MaxBatch
  /\ val' = v
  /\ batch' = batch + 1
  /\ ppc' = "store"
  /\ UNCHANGED <<queue, write_idx_, cached_read_idx_, notify, async, consVars>>

\* Enter push: the relaxed load of its own index and the look at the cache.
PushBegin(v) ==
  /\ ppc = "idle" /\ batch < MaxBatch
  /\ val' = v
  /\ batch' = batch + 1
  /\ ppc' = IF NextIndex(write_idx_) = cached_read_idx_ THEN "refresh" ELSE "store"
  /\ UNCHANGED <<queue, write_idx_, cached_read_idx_, notify, async, consVars>>

\* Slip: the refreshed index is not compared again.
SlipPushRefresh ==
  /\ ppc = "refresh"
  /\ cached_read_idx_' = read_idx_
  /\ ppc' = "store"
  /\ UNCHANGED <<queue, write_idx_, val, batch, notify, async, consVars>>

\* Slip: a full-looking queue is refused on the cached index alone.
SlipPushRefuse ==
  /\ ppc = "refresh"
  /\ cached_read_idx_' = read_idx_
  /\ ppc' = "idle"
  /\ UNCHANGED <<queue, write_idx_, val, batch, notify, async, consVars>>

\* The cached index says full: load read_idx_ and give up if it still does.
PushRefresh ==
  /\ ppc = "refresh"
  /\ cached_read_idx_' = read_idx_
  /\ ppc' = IF NextIndex(write_idx_) = read_idx_ THEN "idle" ELSE "store"
  /\ UNCHANGED <<queue, write_idx_, val, batch, notify, async, consVars>>

PushStore ==
  /\ ppc = "store"
  /\ queue' = [queue EXCEPT ![write_idx_] = val]
  /\ ppc' = "publish"
  /\ UNCHANGED <<write_idx_, cached_read_idx_, val, batch, notify, async, consVars>>

PushPublish ==
  /\ ppc = "publish"
  /\ write_idx_' = NextIndex(write_idx_)
  /\ ppc' = "idle"
  /\ notify' = TRUE
  /\ UNCHANGED <<queue, cached_read_idx_, val, batch, async, consVars>>

\* The batch is over: one send() if any of its pushes succeeded.
EndBatch ==
  /\ ppc = "idle" /\ batch > 0
  /\ batch' = 0
  /\ notify' = FALSE
  /\ async' = (async \/ notify)
  /\ UNCHANGED <<queue, write_idx_, cached_read_idx_, ppc, val, consVars>>
------------------------------------------------------------------------------
(* The consumer: a callback that pops until pop() fails.                   *)

\* libev clears the watcher's sent flag before it runs the callback.
Wake ==
  /\ cpc = "asleep" /\ async
  /\ async' = FALSE
  /\ cpc' = "poll"
  /\ UNCHANGED <<prodVars, read_idx_, cached_write_idx_, got, out>>

PopBegin ==
  /\ cpc = "poll"
  /\ cpc' = IF read_idx_ = cached_write_idx_ THEN "refresh" ELSE "read"
  /\ UNCHANGED <<prodVars, async, read_idx_, cached_write_idx_, got, out>>

PopRefresh ==
  /\ cpc = "refresh"
  /\ cached_write_idx_' = write_idx_
  /\ cpc' = IF read_idx_ = write_idx_ THEN "asleep" ELSE "read"
  /\ UNCHANGED <<prodVars, async, read_idx_, got, out>>

PopRead ==
  /\ cpc = "read"
  /\ got' = queue[read_idx_]
  /\ cpc' = "release"
  /\ UNCHANGED <<prodVars, async, read_idx_, cached_write_idx_, out>>

\* Slip: the callback pops once per signal instead of until pop() fails.
SlipPopRelease ==
  /\ cpc = "release"
  /\ read_idx_' = NextIndex(read_idx_)
  /\ out' = got
  /\ cpc' = "asleep"
  /\ UNCHANGED <<prodVars, async, cached_write_idx_, got>>

\* The cell is given back to the producer and pop() returns its value.
PopRelease ==
  /\ cpc = "release"
  /\ read_idx_' = NextIndex(read_idx_)
  /\ out' = got
  /\ cpc' = "poll"
  /\ UNCHANGED <<prodVars, async, cached_write_idx_, got>>
------------------------------------------------------------------------------
Producer == \/ \E v \in Item : PushBegin(v)
            \/ PushRefresh \/ PushStore \/ PushPublish \/ EndBatch

Consumer == Wake \/ PopBegin \/ PopRefresh \/ PopRead \/ PopRelease

Next == Producer \/ Consumer

Spec == Init /\ [][Next]_vars

\* A push in progress returns, a batch is finite and ends with its send, and
\* the event loop runs a signalled callback to its end.  Nobody has to push.
Fairness == /\ WF_vars(PushRefresh \/ PushStore \/ PushPublish)
            /\ WF_vars(EndBatch)
            /\ WF_vars(Consumer)

FairSpec == Spec /\ Fairness
------------------------------------------------------------------------------
(* Reading the ring as a sequence.                                         *)

\* Steps from index a forward to index b around the ring.
Distance(a, b) == IF a <= b THEN b - a ELSE b + Size + 1 - a

At(a, k) == IF a + k <= Size THEN a + k ELSE a + k - (Size + 1)

Count == Distance(read_idx_, write_idx_)

Contents == [k \in 1 .. Count |-> queue[At(read_idx_, k - 1)]]

Fifo == INSTANCE BoundedFifo WITH contents <- Contents, taken <- out

\* push and pop implement the atomic bounded queue: values arrive unchanged, once, in
\* the order pushed, and never more than Size of them are held.
FifoSpec == Fifo!Spec
------------------------------------------------------------------------------
\* Every index stays inside the array of Size + 1 cells, and both threads are at a
\* line of push or pop.
TypeOK ==
  /\ queue \in [Index -> Item \cup {NoItem}]
  /\ read_idx_ \in Index /\ cached_read_idx_ \in Index
  /\ write_idx_ \in Index /\ cached_write_idx_ \in Index
  /\ ppc \in {"idle", "refresh", "store", "publish"}
  /\ cpc \in {"asleep", "poll", "refresh", "read", "release"}
  /\ val \in Item \cup {NoItem}
  /\ got \in Item \cup {NoItem} /\ out \in Item \cup {NoItem}
  /\ batch \in 0 .. MaxBatch
  /\ notify \in BOOLEAN /\ async \in BOOLEAN

\* The producer never moves a value into the cell the consumer is moving one
\* out of: the unsynchronised accesses to queue[] never meet in one cell.
NoDataRace ==
  ~ (ppc = "store" /\ cpc = "read" /\ write_idx_ = read_idx_)

\* Stale caches only ever delay: a push is refused only when the queue really
\* holds Size items, and a pop comes back empty only when it really is.
RefusalsAreReal ==
  [][ /\ ppc = "refresh" /\ ppc' = "idle" => Count = Size
      /\ cpc = "refresh" /\ cpc' = "asleep" => Count = 0 ]_vars

\* No wakeup is lost: whenever an item is in the queue the consumer gets to move
\* one out.  The producer signals after it publishes, and libev clears the signal
\* before the callback drains, so a push during the drain is seen or re-signalled.
NoLostWakeup == (Count > 0) ~> (cpc = "release")
==============================================================================
