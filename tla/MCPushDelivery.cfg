SPECIFICATION FairSpec
CONSTANTS
  Messages = {m1}
  Endpoints = {e1, e2}
  Workers = {w1, w2}
  MaxAttempts = 2
  Batch = 2
  MaxLost = 1
  MaxCrashes = 1
INVARIANTS FinalStatusTrue SentOncePerLoss
PROPERTIES ImplementsQueue DeliverySettles
CHECK_DEADLOCK FALSE
