CONSTANTS
  x = x
  y = y
  MountsInUse <- Nested
  PathsInUse <- TwoFiles
  Contents = {1}
  Calls <- Edited
  MaxBlocks = 4
  MaxRoots = 1
SPECIFICATION Spec
INVARIANTS
  TypeOK
PROPERTIES
  EditsAreThoseOfTrees
  MovesKeepFiles
  StoredIsShown
