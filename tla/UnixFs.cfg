CONSTANTS
  Lengths = {0, 1, 2, 3, 4, 5, 6, 7, 8, 9}
  ChunkSizes = {1, 2, 3}
  Degrees = {2, 3}
  Buffers = {1, 2, 5}
  MaxSeek = 10
SPECIFICATION Spec
INVARIANTS
  TypeOK
  TreeHoldsContent
  ReadsAreContent
  PrivateReadsAreContent
