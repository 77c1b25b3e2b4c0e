CONSTANTS
  x = x
  y = y
  Devices = {d1}
  PathsInUse <- Docs
  Contents = {1}
  Ranks = {1}
  Calls <- Writes
  MaxBlocks = 10
SPECIFICATION Spec
INVARIANTS
  HistoryStepsBack
  HistoryIsComplete
