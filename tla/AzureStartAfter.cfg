SPECIFICATION MCSpec
CONSTANTS
  Parts = {"files"}
  k1 = k1
  k2 = k2
  t1 = t1
  t2 = t2
  None = None
  Keys = {k1, k2}
  Modes = {"ALL"}
  EventTypes = {"ALL"}
  Gates = {"off"}
  Filters = {FALSE}
  Loads = {FALSE}
  MayFail = FALSE
  MaxRev = 0
INVARIANTS
  AzureListsEverything
CHECK_DEADLOCK FALSE
