SPECIFICATION MCSpec
CONSTANTS
  Nodes = {n1, n2}
  Boxes = {b1, b2}
  Owners = {o1, o2}
  Approvals = {a1}
  Callers = {t1, t2}
  DualControl = {TRUE, FALSE}
  NoNode = NoNode
  Keep = 1
  MaxCalls = 2
  MaxSnapshots = 3
  MaxFaults = 1
  MaxBusy = 2
  MaxKept = 3
SYMMETRY MailSymmetry
INVARIANTS AccountsFollow
PROPERTIES MoveApproved
CHECK_DEADLOCK FALSE
