----------------------------- MODULE BoundedFifo -----------------------------
(***************************************************************************)
(* What spsc_queue promises to the two threads that share it: a first-in   *)
(* first-out queue of at most Size items in which an item is appended and  *)
(* handed over atomically.  A refused push and an unsuccessful pop leave   *)
(* the queue alone, so they are stuttering steps here.                     *)
(***************************************************************************)
EXTENDS Naturals, Sequences

CONSTANTS Item,     \* the values the producer may push
          NoItem,   \* a default-constructed value, never pushed
          Size      \* capacity

VARIABLES contents, \* the items pushed and not yet handed over, oldest first
          taken     \* the value the consumer received last

fifoVars == <<contents, taken>>

Init == contents = << >> /\ taken = NoItem

Push(v) == /\ Len(contents) < Size
           /\ contents' = Append(contents, v)
           /\ UNCHANGED taken

Pop == /\ contents # << >>
       /\ taken' = Head(contents)
       /\ contents' = Tail(contents)

Next == (\E v \in Item : Push(v)) \/ Pop

Spec == Init /\ [][Next]_fifoVars
==============================================================================
