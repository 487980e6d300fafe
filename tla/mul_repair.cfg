SPECIFICATION MCSpec
CONSTANTS
  n1 = n1
  n2 = n2
  R = 1
  Clients = {1}
  Nj = 2
  PktCnt = 2
  Nodes = {n1, n2}
  EcK = 2
INVARIANTS
  OnlyReusedHelpersSpoil
  HaltsOnlyOnMissedWakeup
CHECK_DEADLOCK FALSE
