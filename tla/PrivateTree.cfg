CONSTANTS
  x = x
  y = y
  Devices = {d1}
  PathsInUse <- FolderAndFile
  Contents = {1}
  Ranks = {1}
  Calls <- Edits
  MaxBlocks = 5
SPECIFICATION Spec
PROPERTIES
  ImplementsFileSystem
