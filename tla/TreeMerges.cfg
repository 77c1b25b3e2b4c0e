CONSTANTS
  x = x
  y = y
  Replicas = {r1}
  Paths <- OneFolder
  Contents = {1, 2}
  Times = {1}
  Commands = {"write", "rm", "reconcile"}
  MaxRoots = 4
SPECIFICATION Spec
INVARIANTS
  MergeCommutes
  UnseenFilesSurvive
PROPERTIES
  ImplementsFileSystem
