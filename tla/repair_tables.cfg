SPECIFICATION Spec
CONSTANTS
  MaxBlocks = 4
  blocksize = 4
  W = 3
  Poly = 11
  MaxK = 3
  MaxM = 3
  Weights = {1, 2, 3}
  Slaves = 4
  EcK = 2
  MAX_ORDER = 3
INVARIANTS
  PartitionIsComponents
  CoefficientsRebuild
  SelectedPath
  HelpersFound
  SchedulingEnds
CHECK_DEADLOCK FALSE
