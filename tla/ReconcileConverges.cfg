CONSTANTS
  Replicas = {r1, r2}
  Names = {a, b}
  MaxRevisions = 10
  BlockstoreMayFail = FALSE
  MayReopen = FALSE
  LateAnnouncements = FALSE
SPECIFICATION FairSpec
INVARIANTS
  HistoryKeepsWrites
  AlreadyAheadIsTrue
PROPERTIES
  NoWriteForgotten
  Convergence
