----------------------------- MODULE MCSpscQueue -----------------------------
(***************************************************************************)
(* SpscQueue with a ring of Size + 1 = 3 cells, so that both indices wrap  *)
(* and the queue is often full and often empty, and two distinguishable    *)
(* items.                                                                  *)
(***************************************************************************)
EXTENDS SpscQueue
==============================================================================
