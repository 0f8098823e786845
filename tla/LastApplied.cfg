SPECIFICATION MCSpec
CONSTANTS
  Parts = {"views"}
  Threads = {t1, t2, t3}
  Keys = {k1, k2}
  MaxResources = 3
  TTL = 1
  MaxTime = 4
  RefreshTTL = TRUE
  NoThread = NoThread
  NoKey = NoKey
INVARIANTS
  LastAppliedWins
SYMMETRY Symmetry
CHECK_DEADLOCK FALSE
