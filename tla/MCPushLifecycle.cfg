SPECIFICATION MCSpec
CONSTANTS
  u1 = u1
  u2 = u2
  a1 = a1
  s1 = s1
  s2 = s2
  Users = {u1, u2}
  Apps = {a1}
  Sessions = {s1, s2}
  Owner <- MCOwner
  Client <- MCClient
  MaxTx = 3
  Posted <- MCPosted
  Devices = {d1}
  Tokens = {k1, k2}
  Threads = {t1, t2}
  Visits = {t1, t2}
  MaxGuesses = 2
  MaxConsoleSessions = 2
  MaxDevices = 2
  MaxCodes = 2
  MaxResets = 1
  MaxSteps = 1
  MaxChanges = 2
  MaxRows = 4
SYMMETRY ThreadSymmetry
INVARIANTS RevocationSticks SerialNewestWins SerialRegistrySound ChangeEndsAccess StepUpGuessesBounded
CHECK_DEADLOCK FALSE
