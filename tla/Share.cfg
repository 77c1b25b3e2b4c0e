CONSTANTS
  Sharers = {s1, s2}
  Recipients = {1}
  Nodes = {a, b}
  Limits = {1, 2}
  MaxCount = 2
  MaxShared = 3
SPECIFICATION Spec
INVARIANTS
  SharesComeInOrder
PROPERTIES
  SharesArrive
