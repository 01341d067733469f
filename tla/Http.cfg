SPECIFICATION FairSpec
CONSTANTS
  r1 = r1
  r2 = r2
  s1 = s1
  s2 = s2
  Requests = {r1, r2}
  Sockets <- TwoForOne
  NoSocket = NoSocket
  MaxAdds = 2
  MaxChunks = 1
INVARIANTS
  AnsweredOnce
  FreshData
  WatchersSound
PROPERTIES
  RequestEnds
CHECK_DEADLOCK FALSE
