SPECIFICATION MCFairSpec
CONSTANTS
  Parts = {"etcd", "files", "throttle", "sftp", "http", "json"}
  k1 = k1
  k2 = k2
  t1 = t1
  t2 = t2
  None = None
  Keys = {k1, k2}
  Modes = {"ALL", "ONCE", "NONE"}
  EventTypes = {"DELETE", "ALL"}
  Gates = {"off", "open", "guarded"}
  Filters = {TRUE, FALSE}
  Loads = {TRUE, FALSE}
  MayFail = TRUE
  MaxRev = 3
INVARIANTS
  ViewIsStore
  NothingTwice
  FilesAreListedAndFound
  QuotaHolds
  RetriesAreSafe
  ReadsWhatWasSet
PROPERTIES
  ClosedWithError
  CatchesUp
CHECK_DEADLOCK FALSE
