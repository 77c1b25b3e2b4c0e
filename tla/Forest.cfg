CONSTANTS
  BucketSize = 3
  Devices = {d1, d2}
  Writes <- FiveLabels
SPECIFICATION Spec
SYMMETRY Symmetry
INVARIANTS
  TypeOK
  EqualMapsEqualRoots
  DiffIsExact
PROPERTIES
  ImplementsForestMap
