SPECIFICATION MCSpec
CONSTANTS
  Parts = {"resources"}
  Threads = {t1, t2, t3}
  Keys = {k1, k2}
  MaxResources = 3
  TTL = 1
  MaxTime = 2
  RefreshTTL = TRUE
  NoThread = NoThread
  NoKey = NoKey
INVARIANTS
  NoLockCycle
SYMMETRY Symmetry
CHECK_DEADLOCK FALSE
