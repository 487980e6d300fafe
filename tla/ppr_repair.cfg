SPECIFICATION MCSpec
CONSTANTS
  n1 = n1
  n2 = n2
  n3 = n3
  n4 = n4
  MaxEcK = 9
  R = 2
  PktCnt = 2
  Nodes = {n1, n2, n3, n4}
  EcK = 3
INVARIANTS
  LostBlockRebuilt
  HaltsOnlyOnMissedWakeup
CHECK_DEADLOCK FALSE
