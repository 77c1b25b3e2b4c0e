CONSTANTS
  x = x
  y = y
  Replicas = {r1}
  Paths <- TwoFolders
  Contents = {1}
  Times = {1}
  Commands = {"open", "write", "mkdir", "rm", "mv", "cp"}
  MaxRoots = 2
SPECIFICATION Spec
INVARIANTS
  TypeOK
  CellsNameContents
PROPERTIES
  ImplementsFileSystem
