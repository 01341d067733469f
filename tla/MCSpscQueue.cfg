SPECIFICATION FairSpec
CONSTANTS
  Item = {a, b}
  NoItem = NoItem
  Size = 2
  MaxBatch = 2
INVARIANTS TypeOK NoDataRace
PROPERTIES FifoSpec RefusalsAreReal NoLostWakeup
