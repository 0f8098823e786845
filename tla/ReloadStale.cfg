SPECIFICATION MCSpec
CONSTANTS
  Parts = {"reload"}
  Space = 64
  Indexes = 8
  Nodes = {0, 1}
  Threads = {t1, t2}
  v1 = v1
  v2 = v2
  Unset = Unset
  Nothing = Nothing
  k1 = k1
  k2 = k2
  k3 = k3
INVARIANTS
  QuiescentValue
SYMMETRY Symmetry
CHECK_DEADLOCK FALSE
