SPECIFICATION MCSpec
CONSTANTS
  u1 = u1
  a1 = a1
  s1 = s1
  Users = {u1}
  Apps = {a1}
  Sessions = {s1}
  Owner <- MCOwner
  Client <- MCClient
  MaxTx = 2
  Workers = {w1}
  Devices = {d1}
  Tokens = {k1}
  Threads = {t1, t2}
INVARIANTS AgreeWhenDelivered
PROPERTIES ImplementsOutbox
SYMMETRY ThreadSymmetry
CHECK_DEADLOCK FALSE
