SPECIFICATION MCSpec
CONSTANTS
  Parts = {"resources"}
  Threads = {t1, t2, t3}
  Keys = {k1, k2}
  MaxResources = 2
  TTL = 1
  MaxTime = 3
  RefreshTTL = TRUE
  NoThread = NoThread
  NoKey = NoKey
INVARIANTS
  InUseNotCleaned
SYMMETRY Symmetry
CHECK_DEADLOCK FALSE
