--------------------------- MODULE MCDynamicBitset ---------------------------
(* DynamicBitset in words of two bytes of two bits: none to three words,   *)
(* the last one full or not.  In the largest set calls are made with       *)
(* indices of the first, the second and the last word only.                *)
EXTENDS DynamicBitset

MCTouched == [n \in Lengths |-> IF n < 9 THEN 0..n ELSE {0, 3, 5, 8, 9}]
==============================================================================
