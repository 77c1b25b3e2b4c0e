CONSTANTS
  r1 = r1
  r2 = r2
  w1 = w1
  w2 = w2
  w3 = w3
  w4 = w4
  Replicas = {r1, r2}
  Names = {w1, w2, w3, w4}
  MaxRevisions = 7
  BlockstoreMayFail = TRUE
  MayReopen = TRUE
  LateAnnouncements = TRUE
SPECIFICATION ForkedSpec
SYMMETRY Symmetry
INVARIANTS
  TypeOK
  CacheIsCurrent
  VerdictIsSound
  ExhaustionMeansDiverged
  AncestorsAreFound
