--------------------------- MODULE ConsoleAccount ---------------------------
(* The console account of ConsoleSessions beside other components: the names of its rows  *)
(* and bounds that others use as well are told apart, and its properties are stated.      *)
EXTENDS Naturals, FiniteSets, Combinatorics

CONSTANTS Visits, MaxGuesses, MaxConsoleSessions, MaxDevices, MaxCodes, MaxResets, MaxSteps, MaxChanges

ASSUME ConsoleAssumption == IsFiniteSet(Visits) /\ MaxGuesses \in Nat

VARIABLES account, consoleSessions, devices, codes, resets, active, steps, visit, changes, wrongCodes

Console == INSTANCE ConsoleSessions
             WITH sessions <- consoleSessions, guesses <- wrongCodes, MaxSessions <- MaxConsoleSessions

\* A change of the credentials of a console account ends what was signed in before it.
ChangeEndsAccess == Console!ChangeEndsAccess

\* A step-up code stands only a bounded number of wrong guesses.  They are counted from what the
\* request has read, and setex brings a removed challenge back, so n requests at once get at most
\* choose(limit + n, n) - 1 of them: the limit for n = 1, many more than n times the limit for a
\* large n (verify_adaptive_challenge).
StepUpGuessesBounded ==
  LET n == Cardinality(Visits) IN \A c \in DOMAIN wrongCodes : wrongCodes[c] <= choose(MaxGuesses + n, n) - 1
=============================================================================
