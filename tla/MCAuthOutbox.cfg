SPECIFICATION MCFairSpec
CONSTANTS
  u1 = u1
  a1 = a1
  s1 = s1
  w1 = w1
  Users = {u1}
  Apps = {a1}
  Sessions = {s1}
  Owner <- MCOwner
  Client <- MCClient
  Workers = {w1, w2}
  MaxTx = 2
INVARIANTS OutboxTellsStatus DeliveredWasApplied
PROPERTIES EveryEventDelivered
CHECK_DEADLOCK FALSE
