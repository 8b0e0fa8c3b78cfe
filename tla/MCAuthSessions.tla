--------------------------- MODULE MCAuthSessions ---------------------------
(* TLC instance of AuthSessions: requests are interchangeable.              *)
EXTENDS AuthSessions, TLC, FiniteSetsExt

CONSTANTS
  MaxBusy,  \* bound on the rows and the failed sign-ins, when there are both
  MaxRows   \* bound on grants and refresh tokens together

MCNext ==
  /\ Next
  /\ LET rows == Len(sessions') + Len(grants') IN guesses' = 0 \/ rows = 0 \/ rows + guesses' <= MaxBusy
  /\ Len(grants') + MapThenSumSet(LAMBDA s : sessions'[s].token, DOMAIN sessions') <= MaxRows
MCSpec == Init /\ [][MCNext]_vars

ThreadSymmetry == Permutations(Threads)
=============================================================================
