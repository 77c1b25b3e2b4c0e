CONSTANTS
  x = x
  y = y
  Devices = {d1, d2}
  PathsInUse <- TwoFiles
  Contents = {1}
  Ranks = {1}
  Calls <- Merges
  MaxBlocks = 7
SPECIFICATION Spec
SYMMETRY EitherDevice
INVARIANTS
  TypeOK
  ForestIsClosed
  SearchesAgree
  NoEntryForgotten
  HeadsCoverHistory
  TwoWritesSettle
