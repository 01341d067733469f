------------------------------ MODULE IndexSet ------------------------------
(***************************************************************************)
(* What a DynamicBitset promises: a set of indices below its length.  For  *)
(* length 0 one promise is not kept, that of loading the empty payload.    *)
(***************************************************************************)
EXTENDS Naturals

CONSTANT Lengths      \* of the sets that are made

VARIABLES
  length,
  members,
  op         \* the last call, with its argument

vars == <<length, members, op>>

Indices == 0..(length - 1)

Init == length \in Lengths /\ members = {} /\ op = <<"new">>

\* An index that is out of range is ignored.
Insert(i)    == op' = <<"set", i>> /\ members' = members \cup ({i} \cap Indices)
Remove(i)    == op' = <<"reset", i>> /\ members' = members \ {i}
Clear        == op' = <<"clear">> /\ members' = {}
Union(other) == op' = <<"or", other>> /\ members' = members \cup other
Meet(other)  == op' = <<"and", other>> /\ members' = members \cap other

\* A payload names indices, or is refused and then changes nothing.
Load(named)  == op' = <<"decode", named>> /\ members' = members \cup named
Refuse       == op' = <<"refused">> /\ UNCHANGED members

\* Loading the empty payload into the set without indices may end the program.
Undefined    == length = 0 /\ op' = <<"undefined">> /\ UNCHANGED members

\* Everything else only reads.
Read         == op' = <<"encode">> /\ UNCHANGED members

Next ==
  /\ \/ \E i \in 0..(2 * length) : Insert(i) \/ Remove(i)
     \/ Clear \/ Refuse \/ Undefined \/ Read
     \/ \E other \in SUBSET Indices : Union(other) \/ Meet(other) \/ Load(other)
  /\ UNCHANGED length

Spec == Init /\ [][Next]_vars
=============================================================================
