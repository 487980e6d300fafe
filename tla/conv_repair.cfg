SPECIFICATION MCSpec
CONSTANTS
  n1 = n1
  n2 = n2
  n3 = n3
  R = 2
  Nj = 2
  PktCnt = 2
  Nodes = {n1, n2, n3}
  EcK = 2
INVARIANTS
  LostBlocksRebuilt
  HaltsOnlyOnMissedWakeup
CHECK_DEADLOCK FALSE
