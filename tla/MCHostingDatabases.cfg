SPECIFICATION MCSpec
CONSTANTS
  Threads = {t1, t2}
  Tenants = {p1, p2}
  Reservations = {r1}
  Databases = {d1}
  Capacities = {1, 2}
  MaxRequests = 6
  MaxBackups = 2
  MaxFaults = 2
  Builders = {t1, t2}
  Uploads = {p1, p2}
  Contents = {1, 2}
  MaxPushes = 3
  MaxBuilds = 3
  MaxBuildRequests = 4
  n1 = n1
  Nodes = {n1}
  Edge = FALSE
  MaxReleases = 0
  MaxMoves = 0
  MaxOperations = 0
  OperationLimit = 1
  MaxSwitches = 0
SYMMETRY HostingSymmetry
INVARIANTS PlacementFits EngineMatches NoPushForgotten OnlyRegisteredBuilt
CHECK_DEADLOCK FALSE
