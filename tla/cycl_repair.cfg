SPECIFICATION Spec
CONSTANTS
  EcK = 3
  PktCnt = 5
  Ahead = 0
  AheadEnd = 1
  Policies = {"cyclic", "cyclicSingle"}
CONSTRAINT StillJudged
INVARIANTS
  SlicesWhole
  HaltsOnlyOnRace
CHECK_DEADLOCK FALSE
