SPECIFICATION Spec
CONSTANTS
  Pstr = 1
  Reserved = 1
  InfoHash = 2
  PeerId = 2
  SendSizes = {4, 7}
  RecvStart <- Everywhere
  Ids = {"a", "b"}
  NoId = NoId
  MaxAttempts = 2
INVARIANTS RingsSound StreamIntact DecodeCorrect NeverStuck
CHECK_DEADLOCK FALSE
