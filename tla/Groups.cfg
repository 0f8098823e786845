SPECIFICATION MCSpec
CONSTANTS
  Parts = {"limiter", "group", "tight", "sender"}
  t1 = t1
  t2 = t2
  t3 = t3
  t4 = t4
  Tasks = {t1, t2, t3, t4}
  Priority <- MCPriority
  High = 2
  Limits = {1, 2}
  Low = 1
  Dynamic = TRUE
  Nobody = Nobody
  NoError = NoError
  CtxError = CtxError
  Parent = Parent
INVARIANTS
  RecordsExact
  WithinLimit
  WaitersOnlyWhenFull
  GroupTellsWhatHappened
PROPERTIES
  EveryWaiterServed
  SendsAreSafe
  CallsReturn
  WaitEnds
  ReceiverEnds
CHECK_DEADLOCK FALSE
