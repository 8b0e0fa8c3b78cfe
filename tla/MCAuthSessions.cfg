SPECIFICATION MCSpec
CONSTANTS
  Threads = {t1, t2}
  MaxFailures = 3
  MaxVersion = 1
  MaxSessions = 2
  MaxGrants = 1
  MaxTokens = 3
  MaxBusy = 2
  MaxRows = 3
SYMMETRY ThreadSymmetry
INVARIANTS GrantUsedOnce ChangeEndsSessions LockoutBounded
PROPERTIES RefreshExclusive
CHECK_DEADLOCK FALSE
