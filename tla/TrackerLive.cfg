SPECIFICATION FairSpec
CONSTANTS
  Trackers = {x}
  Urls <- MixedUrls
  Answers = {"failure", "interval", "min_first", "max_first", "no_peers", "unparsable", "not_dictionary"}
  AssertsOn = TRUE
  RetryIntervals = 2
  FailuresCap = 2
  MaxCalls = 4
PROPERTIES CycleComplete AnnouncesForever ShutdownServed
CHECK_DEADLOCK FALSE
