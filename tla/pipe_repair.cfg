SPECIFICATION MCSpec
CONSTANTS
  n1 = n1
  n2 = n2
  n3 = n3
  b1 = b1
  R = 2
  Clients = {1, 2}
  Nj = 1
  PktCnt = 2
  Nodes = {n1, n2, n3}
  EcK = 2
  LostBlocks = {b1, b2}
  SlowHops = 1
INVARIANTS
  RepairedInOrder
  SharedPacketsWhole
PROPERTIES
  RepairsEndOrMissWakeup
CHECK_DEADLOCK FALSE
