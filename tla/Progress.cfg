SPECIFICATION MCSpec
CONSTANTS
  Parts = {"plocker", "prwlocker", "statsd", "otel", "memory"}
  Threads = {t1, t2, t3}
  Caller = t1
  Ids = {a, b}
  Infos = {o1, o2, o3}
  NoThread = NoThread
  NoInfo = NoInfo
  Nobody = Nobody
INVARIANTS
  RefsCountUsers
  RWExclusion
  OneInstrumentPerSeries
PROPERTIES
  ImplementsKeyedMutex
  LocksAreGranted
  StopEnds
  LimitFollows
CHECK_DEADLOCK FALSE
