SPECIFICATION Spec
CONSTANTS
  IntMax = 15
  Characters <- MCCharacters
  HashLength = 2
  NarrowMax = 7
  SizeWrap = 32
  Texts <- MCTexts
  Torrents <- MCTorrents
  NameMax = 2
  Links <- MCLinks
INVARIANTS
  TruncationDetected
  DecodesExactly
  PositionsTrue
  PiecesCover
  FilesForExact
CHECK_DEADLOCK FALSE
