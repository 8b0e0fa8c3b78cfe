SPECIFICATION MCSpec
CONSTANTS
  Events = {e1, e2}
  Actors = {a1, a2}
  SecondActor = a2
  MaxAttempts = 2
  MaxCrashes = 1
  Users = {u1, u2}
  Creator = u1
  Messages = {m1}
  Bodies = {b1, b2}
  Service = service
  Threads = {t1, t2}
  MaxRequests = 4
  MaxFaults = 1
INVARIANTS NeverGivesUpEarly ClientsTold
PROPERTIES EventEnds ReplayCatchesUp NothingTakenBack
CHECK_DEADLOCK FALSE
