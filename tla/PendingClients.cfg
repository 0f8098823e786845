SPECIFICATION MCSpec
CONSTANTS
  Parts = {"statsd"}
  Threads = {t1, t2, t3}
  Caller = t1
  Ids = {a, b}
  Infos = {o1, o2, o3}
  NoThread = NoThread
  NoInfo = NoInfo
  Nobody = Nobody
INVARIANTS
  PendingServed
CHECK_DEADLOCK FALSE
