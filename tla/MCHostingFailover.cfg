SPECIFICATION MCSpec
CONSTANTS
  n1 = n1
  n2 = n2
  Nodes = {n1, n2}
  Edge = TRUE
  MaxReleases = 2
  MaxMoves = 1
  MaxOperations = 1
  OperationLimit = 1
  MaxSwitches = 1
  MaxBusy = 2
SYMMETRY NodeSymmetry
INVARIANTS RunningHasRelease DataKeptWithoutOptIn
CHECK_DEADLOCK FALSE
