SPECIFICATION Spec
CONSTANTS
  n1 = n1
  n2 = n2
  Nodes = {n1, n2}
  Edge = FALSE
  MaxReleases = 2
  MaxMoves = 0
  MaxOperations = 0
  OperationLimit = 1
  MaxSwitches = 0
  MaxBusy = 0
PROPERTIES PreviousContainerKept
CHECK_DEADLOCK FALSE
