SPECIFICATION Spec
CONSTANTS
  Trackers = {x, y, z}
  Urls <- SingleUrl
  Answers = {"failure", "interval", "min_first"}
  AssertsOn = TRUE
  RetryIntervals = 5
  FailuresCap = 0
  MaxCalls = 3
INVARIANTS SpaceSound TimersQuiet ShutdownResets
PROPERTIES WalksComplete MinimumRespected
SYMMETRY Hosts
CHECK_DEADLOCK FALSE
