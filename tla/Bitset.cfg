SPECIFICATION Spec
CONSTANTS
  WordBits = 4
  ByteBits = 2
  Lengths = {0, 1, 4, 5, 9}
  Touched <- MCTouched
  MaxChanges = 1
INVARIANTS
  QueriesAgree
  PayloadFaithful
PROPERTIES
  SetSpec
CHECK_DEADLOCK FALSE
