---------------------------- MODULE AuthSessions ----------------------------
(***************************************************************************)
(* The sign-in side of !thute Auth for one account: password, passkey and  *)
(* browser sign-in, authorization codes, refresh tokens, the lockout, and  *)
(* the changes (password, MFA, sign-out everywhere, disable, reset) that   *)
(* must end the sessions made before them.                                 *)
(*                                                                         *)
(* A request loads rows, works on its copies and commits; only columns     *)
(* that differ from what was loaded are written.  Rows selected FOR UPDATE *)
(* stay locked until the request ends, all others may change meanwhile.    *)
(* Passwords, second factors and signatures are right or wrong; times are  *)
(* a status that an action lets run out.                                   *)
(***************************************************************************)
EXTENDS Naturals, Sequences, FiniteSets, Combinatorics

CONSTANTS
  Threads,      \* requests that may be under way at the same time
  MaxFailures,  \* max_login_failures
  MaxVersion,   \* bound on security_version
  MaxSessions,  \* bound on the account's sessions
  MaxGrants,    \* bound on codes, challenges and reset tokens
  MaxTokens     \* bound on the refresh tokens of a session

ASSUME AuthSessionsAssumption ==
  /\ IsFiniteSet(Threads) /\ MaxFailures \in Nat \ {0} /\ MaxTokens \in Nat \ {0}
  /\ {MaxVersion, MaxSessions, MaxGrants} \subseteq Nat

VARIABLES
  user,      \* the User row
  sessions,  \* AuthSession rows
  grants,    \* AuthorizationCode, WebAuthnChallenge and SecurityToken rows
  thread,    \* per request: what it does and what it has loaded
  guesses    \* history: failed sign-ins since the counter was reset or the lock fell

vars == <<user, sessions, grants, thread, guesses>>

None == 0
SignIns == {"login", "browser"}
Changes == {"renew", "disable", "reset"}
Locking == {"exchange", "passkey", "reset"}

Users == [active : BOOLEAN, version : 0..MaxVersion, failures : 0..MaxFailures,
          lock : {"none", "held", "over"}]
SessionRows == [token : 1..MaxTokens, revoked : BOOLEAN, at : 0..MaxVersion, raced : BOOLEAN]
GrantRows == [kind : {"code", "challenge", "reset"}, open : BOOLEAN, uses : 0..Cardinality(Threads)]
ThreadStates == [op : SignIns \cup Changes \cup Locking \cup {"oauth_refresh", "refresh"},
                 user : Users, ref : 0..(MaxGrants + MaxSessions), token : 0..MaxTokens,
                 asked : BOOLEAN, live : SUBSET (1..MaxSessions)]
Idle == [op |-> "idle"]

TypeOK ==
  /\ user \in Users
  /\ sessions \in Seq(SessionRows) /\ Len(sessions) <= MaxSessions
  /\ grants \in Seq(GrantRows) /\ Len(grants) <= MaxGrants
  /\ thread \in [Threads -> ThreadStates \cup {Idle}]
  /\ guesses \in Nat

Init ==
  /\ user = [active |-> TRUE, version |-> 0, failures |-> 0, lock |-> "none"]
  /\ sessions = <<>> /\ grants = <<>>
  /\ thread = [t \in Threads |-> Idle]
  /\ guesses = 0

-----------------------------------------------------------------------------
(* Rows and locks. *)

\* What a column holds after a commit of a request that loaded it and set it to new.
Stored(loaded, new, current) == IF new = loaded THEN current ELSE new

Live == {s \in DOMAIN sessions : ~sessions[s].revoked}

\* Mutant: the row of a code, challenge or reset token is read without a lock.
GrantUnlocked(g) == g \notin DOMAIN grants
GrantLocked(g) == \E t \in Threads : thread[t].op \in Locking /\ thread[t].ref = g

\* Mutant: /oauth/token reads the session of a refresh token without a lock.
SessionUnlocked(s) == s \notin DOMAIN sessions
SessionLocked(s) == \E t \in Threads : thread[t].op = "oauth_refresh" /\ thread[t].ref = s

\* The columns of the account that a request goes on to use.
Loaded(op) ==
  CASE op \in SignIns \cup {"passkey", "reset"} -> user
    [] op \in {"exchange", "renew", "disable"} -> [user EXCEPT !.failures = 0, !.lock = "none"]
    [] OTHER -> [active |-> TRUE, version |-> 0, failures |-> 0, lock |-> "none"]

Begin(t, op, ref, token) ==
  /\ thread[t] = Idle
  /\ thread' = [thread EXCEPT ![t] = [op |-> op, user |-> Loaded(op), ref |-> ref, token |-> token,
                                      asked |-> FALSE, live |-> {}]]

End(t) == thread' = [thread EXCEPT ![t] = Idle]

\* A request ends without effect: a check failed, the client left, the process died.
Abort(t) ==
  /\ thread[t] # Idle /\ End(t)
  /\ UNCHANGED <<user, sessions, grants, guesses>>

\* A credential change overtook request t between what it loaded and now.
Raced(t) ==
  \/ thread[t].user.version # user.version \/ ~user.active
  \/ \E u \in Threads \ {t} : thread[u].op \in Changes /\ thread[u].asked

\* A new session with its first refresh token; at and raced are history: the security
\* version it is good for, and whether a change overlapped its sign-in.
AddSession(t) ==
  /\ Len(sessions) < MaxSessions
  /\ sessions' = Append(sessions, [token |-> 1, revoked |-> FALSE, raced |-> Raced(t),
                                   at |-> IF Raced(t) THEN 0 ELSE user.version])

\* What is left of a session once it is revoked: nothing else of the row is read again.
Dead == [token |-> 1, revoked |-> TRUE, at |-> 0, raced |-> FALSE]

AddGrant(kind) ==
  /\ Len(grants) < MaxGrants
  /\ grants' = Append(grants, [kind |-> kind, open |-> TRUE, uses |-> 0])

Consume(g) == grants' = [grants EXCEPT ![g].open = FALSE, ![g].uses = @ + 1]

-----------------------------------------------------------------------------
(* Sign-in: /v1/auth/login makes a session; in a browser the portal makes a  *)
(* cookie and /oauth/authorize a cookie and an authorization code.  A cookie *)
(* counts only at the security version it names; any browser may hold one.   *)

SignInBegin(t, op) ==
  /\ user.active /\ user.lock # "held"
  /\ Begin(t, op, None, None)
  /\ UNCHANGED <<user, sessions, grants, guesses>>

Login(t) == SignInBegin(t, "login")
PortalLoginPost(t) == SignInBegin(t, "browser")

\* Mutant: the lock falls one failure late.
CountFailureLate(u) ==
  LET held == u.failures >= MaxFailures
  IN /\ user' = [user EXCEPT !.failures = IF held THEN MaxFailures ELSE u.failures + 1,
                              !.lock = IF held THEN "held" ELSE @]
     /\ guesses' = IF held THEN 0 ELSE guesses + 1

\* A wrong password, second factor or signature, counted from the loaded row.  Counts
\* above the limit are not told apart.
CountFailure(u) ==
  LET held == u.failures + 1 >= MaxFailures
  IN /\ user' = [user EXCEPT !.failures = IF held THEN MaxFailures ELSE u.failures + 1,
                              !.lock = IF held THEN "held" ELSE @]
     /\ guesses' = IF held THEN 0 ELSE guesses + 1

\* The counter and the lock cleared, as far as the loaded row had them set.
Cleared(u) == [user EXCEPT !.failures = Stored(u.failures, 0, @), !.lock = Stored(u.lock, "none", @)]

SignInFails(t) ==
  /\ thread[t].op \in SignIns \cup {"passkey"}
  /\ CountFailure(thread[t].user) /\ End(t)
  /\ UNCHANGED <<sessions, grants>>

SignInSucceeds(t) ==
  /\ user' = Cleared(thread[t].user) /\ guesses' = 0
  /\ End(t)

LoginSucceeds(t) ==
  /\ thread[t].op = "login"
  /\ SignInSucceeds(t) /\ AddSession(t)
  /\ UNCHANGED grants

PortalSucceeds(t) ==
  /\ thread[t].op = "browser"
  /\ SignInSucceeds(t)
  /\ UNCHANGED <<sessions, grants>>

AuthorizePost(t) ==
  /\ thread[t].op = "browser"
  /\ SignInSucceeds(t) /\ AddGrant("code")
  /\ UNCHANGED sessions

\* /oauth/authorize with the cookie of the current security version.  The code names
\* no version, so it does not matter when between the check and the commit it appears.
AuthorizeGet ==
  /\ user.active /\ AddGrant("code")
  /\ UNCHANGED <<user, sessions, thread, guesses>>

PasskeyOptions ==
  /\ AddGrant("challenge")
  /\ UNCHANGED <<user, sessions, thread, guesses>>

-----------------------------------------------------------------------------
(* Single-use rows: the code exchange of /oauth/token, passkey sign-in. *)

TakeGrant(t, g, op, kind) ==
  /\ ~GrantLocked(g) /\ grants[g].kind = kind /\ grants[g].open /\ user.active
  /\ Begin(t, op, g, None)
  /\ UNCHANGED <<user, sessions, grants, guesses>>

ExchangeBegin(t, g) == TakeGrant(t, g, "exchange", "code")

ExchangeCode(t) ==
  /\ thread[t].op = "exchange"
  /\ Consume(thread[t].ref) /\ AddSession(t) /\ End(t)
  /\ UNCHANGED <<user, guesses>>

\* The row of the passkey is locked too: one signature is checked at a time.
PasskeyBegin(t, g) ==
  /\ user.lock # "held" /\ \A u \in Threads : thread[u].op # "passkey"
  /\ TakeGrant(t, g, "passkey", "challenge")

PasskeyVerify(t) ==
  /\ thread[t].op = "passkey"
  /\ user' = Cleared(thread[t].user) /\ guesses' = 0
  /\ Consume(thread[t].ref) /\ AddSession(t) /\ End(t)

GrantExpires(g) ==
  /\ grants[g].open /\ ~GrantLocked(g)
  /\ grants' = [grants EXCEPT ![g].open = FALSE]
  /\ UNCHANGED <<user, sessions, thread, guesses>>

-----------------------------------------------------------------------------
(* Refresh: /oauth/token locks the session's row, /v1/auth/refresh does not. *)

RefreshBegin(t, s, op) ==
  /\ s \in Live /\ user.active
  /\ op = "oauth_refresh" => ~SessionLocked(s)
  /\ Begin(t, op, s, IF op = "oauth_refresh" THEN sessions[s].token ELSE None)
  /\ UNCHANGED <<user, sessions, grants, guesses>>

\* The write waits for a request that holds the row.
Rotate(t) ==
  LET s == thread[t].ref IN
  /\ thread[t].op \in {"oauth_refresh", "refresh"}
  /\ thread[t].op = "refresh" => ~SessionLocked(s)
  /\ IF s \in Live THEN /\ sessions[s].token < MaxTokens
                        /\ sessions' = [sessions EXCEPT ![s].token = @ + 1]   \* a fresh token
                   ELSE UNCHANGED sessions
  /\ End(t)
  /\ UNCHANGED <<user, grants, guesses>>

Revoke(S) ==
  /\ \A s \in S : ~SessionLocked(s)
  /\ sessions' = [s \in DOMAIN sessions |-> IF s \in S THEN Dead ELSE sessions[s]]
  /\ UNCHANGED <<user, grants, thread, guesses>>

\* Sessions ended without a change of the account: the one whose refresh token is
\* presented, one of the list, all but the caller's, those of a device, all.
Logout(s) == Revoke({s})
RevokeSession(s) == user.active /\ Revoke({s})
RevokeOtherSessions(s) == user.active /\ s \in Live /\ Revoke(Live \ {s})
RevokeTrustedDevice(s, S) == user.active /\ s \in Live \ S /\ Revoke(S)
AdminRevokeUserSessions == Revoke(Live)

-----------------------------------------------------------------------------
(* Changes that raise security_version and end the sessions: password, MFA   *)
(* and sign-out everywhere ("renew"), an administrator's disable, a reset.   *)

Renew(t, s) ==
  /\ Begin(t, "renew", s, None)
  /\ UNCHANGED <<user, sessions, grants, guesses>>

\* Over the API (password, MFA) the caller's own session s is kept; in the portal
\* (password, MFA, sign out everywhere) and for an administrator none is.
ChangePassword(t, s) == s \in Live /\ user.active /\ Renew(t, s)
PortalChangePassword(t) == user.active /\ Renew(t, None)
AdminRevoke(t) == Renew(t, None)

DisableBegin(t) ==
  /\ Begin(t, "disable", None, None)
  /\ UNCHANGED <<user, sessions, grants, guesses>>

\* A new reset token replaces the open ones.
RequestReset ==
  /\ user.active /\ Len(grants) < MaxGrants
  /\ \A g \in DOMAIN grants : grants[g].kind = "reset" => ~GrantLocked(g)
  /\ grants' = Append([g \in DOMAIN grants |->
                         [grants[g] EXCEPT !.open = @ /\ grants[g].kind # "reset"]],
                      [kind |-> "reset", open |-> TRUE, uses |-> 0])
  /\ UNCHANGED <<user, sessions, thread, guesses>>

ResetBegin(t, g) == TakeGrant(t, g, "reset", "reset")

\* revoke_sessions selects the sessions to end.
SelectSessions(t) ==
  /\ thread[t].op \in Changes /\ ~thread[t].asked
  /\ thread' = [thread EXCEPT ![t].asked = TRUE, ![t].live = Live]
  /\ UNCHANGED <<user, sessions, grants, guesses>>

Kept(t) == IF thread[t].op = "renew" THEN thread[t].ref ELSE None

\* Mutant: a reset signs nobody out.
DoomedUnlessReset(t) == IF thread[t].op = "reset" THEN {} ELSE thread[t].live \ {Kept(t)}
Doomed(t) == thread[t].live \ {Kept(t)}

\* The account row after the change.
Changed(t) ==
  LET u == thread[t].user
      base == IF thread[t].op = "reset" THEN Cleared(u) ELSE user
  IN [base EXCEPT !.version = u.version + 1,
                  !.active = IF thread[t].op = "disable" THEN Stored(u.active, FALSE, @) ELSE @]

ChangeCommit(t) ==
  /\ thread[t].op \in Changes /\ thread[t].asked /\ thread[t].user.version < MaxVersion
  /\ \A s \in Doomed(t) : ~SessionLocked(s)
  /\ user' = Changed(t)
  /\ sessions' = [s \in DOMAIN sessions |->
                    IF s \in Doomed(t) THEN Dead
                    ELSE IF s = Kept(t) /\ s \in Live /\ ~sessions[s].raced THEN [sessions[s] EXCEPT !.at = user'.version]
                    ELSE sessions[s]]
  /\ IF thread[t].op = "reset" THEN Consume(thread[t].ref) ELSE UNCHANGED grants
  /\ guesses' = IF thread[t].op = "reset" THEN 0 ELSE guesses
  /\ End(t)

Enable ==
  /\ ~user.active
  /\ user' = [user EXCEPT !.active = TRUE]
  /\ UNCHANGED <<sessions, grants, thread, guesses>>

Unlock ==
  /\ user.lock # "none" \/ user.failures # 0
  /\ user' = [user EXCEPT !.failures = 0, !.lock = "none"]
  /\ guesses' = 0
  /\ UNCHANGED <<sessions, grants, thread>>

LockElapses ==
  /\ user.lock = "held"
  /\ user' = [user EXCEPT !.lock = "over"]
  /\ UNCHANGED <<sessions, grants, thread, guesses>>

-----------------------------------------------------------------------------
Request(t) ==
  \/ Login(t) \/ PortalLoginPost(t)
  \/ SignInFails(t) \/ LoginSucceeds(t) \/ PortalSucceeds(t) \/ AuthorizePost(t)
  \/ \E g \in DOMAIN grants : ExchangeBegin(t, g) \/ PasskeyBegin(t, g) \/ ResetBegin(t, g)
  \/ ExchangeCode(t) \/ PasskeyVerify(t)
  \/ \E s \in DOMAIN sessions, op \in {"oauth_refresh", "refresh"} : RefreshBegin(t, s, op)
  \/ Rotate(t)
  \/ \E s \in DOMAIN sessions : ChangePassword(t, s)
  \/ PortalChangePassword(t) \/ AdminRevoke(t)
  \/ DisableBegin(t) \/ SelectSessions(t) \/ ChangeCommit(t)
  \/ Abort(t)

Next ==
  \/ \E t \in Threads : Request(t)
  \/ AuthorizeGet \/ PasskeyOptions \/ RequestReset \/ Enable \/ Unlock \/ LockElapses
  \/ \E g \in DOMAIN grants : GrantExpires(g)
  \/ \E s \in DOMAIN sessions :
       \/ Logout(s) \/ RevokeSession(s) \/ RevokeOtherSessions(s)
       \/ \E S \in (SUBSET Live) \ {{}} : RevokeTrustedDevice(s, S)
  \/ AdminRevokeUserSessions

Spec == Init /\ [][Next]_vars

-----------------------------------------------------------------------------
(* Properties. *)

\* An authorization code, a passkey challenge and a reset token work at most once,
\* however many requests present them at the same moment (with_for_update).
GrantUsedOnce == \A g \in DOMAIN grants : grants[g].uses <= 1

\* A refresh at /oauth/token replaces the very token it was given, on a session that
\* is still live: it redeems no token that another request rotated or revoked.
RefreshExclusive ==
  [][\A t \in Threads : thread[t].op = "oauth_refresh" /\ Rotate(t) =>
       LET s == thread[t].ref IN s \in Live /\ sessions[s].token = thread[t].token]_vars

\* A password, MFA, reset, sign-out or disable ends every session made before it, except
\* the caller's own and the ones whose sign-in overlapped it; no other session of a
\* disabled account is live, not even after it is enabled again (revoke_sessions).
ChangeEndsSessions ==
  \A s \in Live : ~sessions[s].raced => sessions[s].at = user.version /\ user.active

\* The lock falls late, but not without bound.  A failure counts from the row it loaded, so
\* while one request holds an old count the others can fail up to the limit, and its commit
\* takes the counter back to one more than it had loaded.  With n requests at once at most
\* choose(limit - 1 + n, n) - 1 sign-ins fail before the one that locks the account: one less
\* than the limit for n = 1, and far more than n times the limit when both are large.
LockoutBounded ==
  LET n == Cardinality(Threads) IN guesses <= choose(MaxFailures - 1 + n, n) - 1
=============================================================================
