-------------------------- MODULE MCPushLifecycle ---------------------------
(* TLC instance of PushLifecycle: two accounts that share a phone, one       *)
(* product.  Auth switches the first account off, on and off again, revokes  *)
(* its session with the account, and switches the product off and on.        *)
(*                                                                           *)
(* The run also checks ConsoleSessions.  The two share no state: a behaviour *)
(* is one of Push or one of an account of the console.                       *)
EXTENDS PushSerial, ConsoleAccount, Sequences, FiniteSets, TLC

CONSTANTS
  u1, u2, a1, s1, s2,
  MaxRows  \* bound on the rows and changes of ConsoleSessions, a challenge counting twice

MCOwner == (s1 :> u1) @@ (s2 :> u2)
MCClient == (s1 :> a1) @@ (s2 :> a1)

Ev(type, subject, at) == [type |-> type, subject |-> subject, at |-> at]

MCPosted == {Ev("account.enabled", u1, 2), Ev("account.disabled", u1, 1),
             Ev("account.disabled", u1, 3), Ev("session.revoked", s1, 1),
             Ev("application.disabled", a1, 2), Ev("application.enabled", a1, 3)}

ASSUME PostedAssumption == PostedOnce

ThreadSymmetry == Permutations(Threads)  \* Visits are the same model values

VARIABLE part

consoleSide == <<account, consoleSessions, devices, codes, resets, active, steps, visit, changes, wrongCodes>>

\* The other part stays in one initial state; Push has only one.
MCInit ==
  /\ SerialInit
  /\ Console!Init /\ part \in {"push", "console"}
  /\ part = "push" => ~account.mfa

ConsoleNext ==
  /\ Console!Next
  /\ Len(consoleSessions') + Len(devices') + Len(codes') + Len(resets') + 2 * Len(steps') + changes' <= MaxRows

MCNext ==
  /\ part' = part
  /\ \/ part = "push" /\ SerialNext /\ UNCHANGED consoleSide
     \/ part = "console" /\ ConsoleNext /\ UNCHANGED <<vars, overlapped>>

MCSpec == MCInit /\ [][MCNext]_<<vars, overlapped, consoleSide, part>>
=============================================================================
