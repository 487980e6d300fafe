SPECIFICATION MCSpec
CONSTANTS
  EcN = 4
  EcK = 2
  Nodes <- MCNodes
  Dists = 2
  Clients = {1, 2}
INVARIANTS
  CommandsInOneOrder
  FetchedWhereProduced
  EndsOnlyFor
PROPERTIES
  RequestsAnswered
CHECK_DEADLOCK FALSE
