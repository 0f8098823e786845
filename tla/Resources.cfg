SPECIFICATION MCSpec
CONSTANTS
  Parts = {"resources", "queue", "registry", "counter", "windows", "views", "exporter"}
  Threads = {t1, t2, t3}
  Keys = {k1, k2}
  MaxResources = 2
  TTL = 1
  MaxTime = 3
  RefreshTTL = TRUE
  NoThread = NoThread
  NoKey = NoKey
INVARIANTS
  CheckedOutIsKept
  CleanedExactlyOnce
  OneResourcePerKey
  BlockedOnlyByCycle
  MetricsAreExact
  ExportsAreFaithful
PROPERTIES
  QueueWorks
SYMMETRY Symmetry
CHECK_DEADLOCK FALSE
