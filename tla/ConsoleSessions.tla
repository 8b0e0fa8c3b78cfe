--------------------------- MODULE ConsoleSessions ---------------------------
(***************************************************************************)
(* The console's own sign-in for one account: passwords with a second      *)
(* factor or a step-up code, passkeys, refresh, and the changes that must  *)
(* end what was signed in before them.                                     *)
(*                                                                         *)
(* A request loads rows, works on its copies and commits; only columns     *)
(* that differ from what was loaded are written, and nothing is locked but *)
(* the sessions that an UPDATE statement has touched.  Step-up challenges  *)
(* are in Redis.  Passwords and codes are right or wrong.  One browser is  *)
(* at work, so step-up challenges are all bound to it.  The rate limits    *)
(* only refuse requests; the risk score of one sign-in is at most 60, so   *)
(* the branch that blocks from 75 on is never taken.  The account is       *)
(* linked to a central identity, so its owner can be signed in centrally   *)
(* and make any change without a session of the console.                   *)
(***************************************************************************)
EXTENDS Naturals, Sequences

CONSTANTS
  Visits,       \* requests that may be under way at the same time
  MaxGuesses,   \* ADAPTIVE_CHALLENGE_MAX_ATTEMPTS
  MaxSessions,  \* bound on the session rows
  MaxDevices,   \* bound on the device rows
  MaxCodes,     \* bound on the sets of recovery codes
  MaxResets,    \* bound on the password reset links
  MaxSteps,     \* bound on the step-up challenges
  MaxChanges    \* bound on the changes of the account

VARIABLES
  account,   \* the User row: session_version, MFA, its secret, central_auth_enforced
  sessions,  \* UserSession rows, with the session_version in the access token of each
  devices,   \* TrustedDevice rows: TRUE until revoked
  codes,     \* RecoveryCode rows, one for a set of ten
  resets,    \* PasswordResetToken rows: TRUE while unused
  active,    \* Redis: the challenge of this browser, 0 for none
  steps,     \* Redis: the attempts of each challenge, Gone without a key
  visit,     \* per request: what it does and what it has loaded
  changes,   \* history: the number of committed changes
  guesses    \* history: wrong codes tried against each challenge

consoleVars == <<account, sessions, devices, codes, resets, active, steps, visit, changes, guesses>>
redis == <<active, steps, guesses>>

Gone == MaxGuesses + 1
Rest == [op |-> "rest", locks |-> {}]
Changing == {"password", "reset", "mfa_on", "mfa_off", "enforce", "device"}

Init ==
  /\ account \in {[version |-> 0, mfa |-> on, secret |-> on, central |-> FALSE] : on \in BOOLEAN}
  /\ codes \in IF account.mfa THEN {<<>>, <<"unused">>} ELSE {<<>>}
  /\ sessions = <<>> /\ devices = <<>> /\ resets = <<>>
  /\ active = 0 /\ steps = <<>> /\ guesses = <<>>
  /\ visit = [v \in Visits |-> Rest] /\ changes = 0

-----------------------------------------------------------------------------
(* Requests. *)

Live == {s \in DOMAIN sessions : sessions[s].live}

\* _decode_local_user: the access token names the version of the account; its session is not asked for.
Accepted(s) == sessions[s].version = account.version /\ ~account.central

\* A request: the rows it has locked, the version of the account it loaded, raced as history
\* (it overlapped a change of the account or of a device), and what else it works with.
At(op, locks, version, raced, arg) ==
  [op |-> op, locks |-> locks, version |-> version, raced |-> raced, arg |-> arg]
Goes(v, op, arg) == visit' = [visit EXCEPT ![v] = At(op, @.locks, @.version, @.raced, arg)]

Begin(v, op, arg) ==
  /\ visit[v] = Rest
  /\ visit' = [w \in Visits |->
       LET r == visit[w] IN
       IF w = v THEN At(op, {}, account.version, \E u \in Visits \ {v} : visit[u].op \in Changing, arg)
       ELSE IF r # Rest /\ op \in Changing THEN At(r.op, r.locks, r.version, TRUE, r.arg) ELSE r]

End(v) == visit' = [visit EXCEPT ![v] = Rest]

\* A check fails, a row is gone at the commit, the client leaves, the process dies.
Abandon(v) ==
  /\ visit[v] # Rest /\ End(v)
  /\ UNCHANGED <<redis, account, sessions, devices, codes, resets, changes>>

\* _new_session and the access token made with it.
NewSession(v, device, second, raced) ==
  [live |-> TRUE, device |-> device, second |-> second, version |-> visit[v].version,
   at |-> changes, raced |-> raced]

Locked(s) == \E v \in Visits : s \in visit[v].locks

-----------------------------------------------------------------------------
(* Sign-in. *)

\* What a sign-in has found: the device it knows, 0 for none, the recovery code it uses, whether
\* it had a second factor, and the step-up challenge.
Found(device, code, second) ==
  [device |-> device, code |-> code, second |-> second, challenge |-> 0, attempts |-> 0]

\* A browser that is unknown scores 35, from 30 on a step-up is asked for; a known one may score either.
StepUp(device) == IF device = 0 THEN {TRUE} ELSE BOOLEAN

\* login with the right password.  With MFA a code of the authenticator or an unused recovery code
\* is needed, and then no step-up.
Login(v, device, code) ==
  /\ ~account.central /\ (device # 0 => devices[device])
  /\ code # 0 => account.mfa /\ codes[code] = "unused"
  /\ \E asked \in IF account.mfa THEN {FALSE} ELSE StepUp(device) :
       Begin(v, IF asked THEN "step_up" ELSE "sign_in", Found(device, code, account.mfa))
  /\ UNCHANGED <<redis, account, sessions, devices, codes, resets, changes>>

\* passkey_auth_verify; the challenge was taken from Redis with one GET and DELETE.
PasskeyAuthVerify(v, device) ==
  /\ ~account.central /\ (device # 0 => devices[device])
  /\ Begin(v, "sign_in", Found(device, 0, TRUE))
  /\ UNCHANGED <<redis, account, sessions, devices, codes, resets, changes>>

\* issue_adaptive_challenge finds no challenge for this browser ...
IssueLooks(v) ==
  /\ visit[v].op = "step_up" /\ active = 0 /\ Len(steps) < MaxSteps /\ Goes(v, "issue", visit[v].arg)
  /\ UNCHANGED <<redis, account, sessions, devices, codes, resets, changes>>

\* ... and makes one; the answer asks for its code.
Issue(v) ==
  /\ visit[v].op = "issue" /\ Len(steps) < MaxSteps
  /\ Goes(v, "mail", [visit[v].arg EXCEPT !.challenge = Len(steps) + 1])
  /\ steps' = Append(steps, 0) /\ guesses' = Append(guesses, 0) /\ active' = Len(steps')
  /\ UNCHANGED <<account, sessions, devices, codes, resets, changes>>

\* cancel_adaptive_challenge, when the code cannot be mailed: the mark goes, whosever it is.
CancelChallenge(v) ==
  /\ visit[v].op = "mail" /\ End(v)
  /\ active' = 0 /\ steps' = [steps EXCEPT ![visit[v].arg.challenge] = Gone]
  /\ UNCHANGED <<guesses, account, sessions, devices, codes, resets, changes>>

\* verify_adaptive_challenge reads the challenge that the request names.
VerifyReads(v, c) ==
  /\ visit[v].op = "step_up" /\ steps[c] # Gone
  /\ Goes(v, "verify", [visit[v].arg EXCEPT !.challenge = c, !.attempts = steps[c] + 1])
  /\ UNCHANGED <<redis, account, sessions, devices, codes, resets, changes>>

\* Mutant of TooMany: the attempt under way is not counted.
TooManyLate(n) == n > MaxGuesses + 1
TooMany(n) == n > MaxGuesses

\* After too many the challenge goes, but not its mark.
VerifyTooMany(v) ==
  /\ visit[v].op = "verify" /\ TooMany(visit[v].arg.attempts) /\ End(v)
  /\ steps' = [steps EXCEPT ![visit[v].arg.challenge] = Gone]
  /\ UNCHANGED <<active, guesses, account, sessions, devices, codes, resets, changes>>

\* The right code removes both.
VerifyRight(v) ==
  /\ visit[v].op = "verify" /\ ~TooMany(visit[v].arg.attempts) /\ Goes(v, "sign_in", [visit[v].arg EXCEPT !.challenge = 0, !.attempts = 0])
  /\ steps' = [steps EXCEPT ![visit[v].arg.challenge] = Gone] /\ active' = 0
  /\ UNCHANGED <<guesses, account, sessions, devices, codes, resets, changes>>

\* A wrong code is counted from what was read.  When the key was there for ttl and has gone
\* since, setex brings it back.
VerifyWrong(v) ==
  LET c == visit[v].arg.challenge IN
  /\ visit[v].op = "verify" /\ ~TooMany(visit[v].arg.attempts) /\ End(v)
  /\ guesses' = [guesses EXCEPT ![c] = @ + 1]
  /\ \/ steps' = [steps EXCEPT ![c] = visit[v].arg.attempts]
     \/ steps[c] = Gone /\ UNCHANGED steps
  /\ UNCHANGED <<active, account, sessions, devices, codes, resets, changes>>

\* The time to live of a challenge and its mark runs out.
ChallengeExpires(c) ==
  /\ steps[c] # Gone \/ active = c
  /\ steps' = [steps EXCEPT ![c] = Gone] /\ active' = IF active = c THEN 0 ELSE active
  /\ UNCHANGED <<guesses, account, sessions, devices, codes, resets, visit, changes>>

\* The commit of a sign-in.  A recovery code that was deleted since fails it.
SignIn(v) ==
  LET r == visit[v].arg
      known == r.device # 0
      device == IF known THEN r.device ELSE Len(devices) + 1
  IN
  /\ visit[v].op = "sign_in" /\ End(v) /\ Len(sessions) < MaxSessions /\ device <= MaxDevices
  /\ r.code # 0 => codes[r.code] # "deleted"
  /\ codes' = IF r.code # 0 THEN [codes EXCEPT ![r.code] = "used"] ELSE codes
  /\ devices' = IF known THEN devices ELSE Append(devices, TRUE)
  /\ sessions' = Append(sessions, NewSession(v, device, r.second, visit[v].raced))
  /\ UNCHANGED <<redis, account, resets, changes>>

\* refresh: the session and the account are read, a new session takes the place of the old one.
RefreshBegin(v, s) ==
  /\ s \in Live /\ Begin(v, "refresh", [session |-> s])
  /\ UNCHANGED <<redis, account, sessions, devices, codes, resets, changes>>

Refresh(v) ==
  LET s == visit[v].arg.session
      old == sessions[s]
  IN
  /\ visit[v].op = "refresh" /\ ~Locked(s) /\ Len(sessions) < MaxSessions /\ End(v)
  /\ sessions' = Append([sessions EXCEPT ![s].live = FALSE],
                        NewSession(v, old.device, old.second, visit[v].raced \/ old.raced))
  /\ UNCHANGED <<redis, account, devices, codes, resets, changes>>

\* logout and revoke_session
Logout(s) ==
  /\ s \in Live /\ ~Locked(s) /\ sessions' = [sessions EXCEPT ![s].live = FALSE]
  /\ UNCHANGED <<redis, account, devices, codes, resets, visit, changes>>

-----------------------------------------------------------------------------
(* Changes. *)

\* mfa_setup
MfaSetup ==
  /\ ~account.mfa /\ ~account.secret /\ account' = [account EXCEPT !.secret = TRUE]
  /\ UNCHANGED <<redis, sessions, devices, codes, resets, visit, changes>>

\* regenerate_recovery_codes deletes the rows it has loaded.
RegenerateBegin(v) ==
  /\ account.mfa /\ Begin(v, "codes", [previous |-> {c \in DOMAIN codes : codes[c] # "deleted"}])
  /\ UNCHANGED <<redis, account, sessions, devices, codes, resets, changes>>

Regenerate(v) ==
  /\ visit[v].op = "codes" /\ Len(codes) < MaxCodes /\ End(v)
  /\ codes' = Append([c \in DOMAIN codes |-> IF c \in visit[v].arg.previous THEN "deleted" ELSE codes[c]], "unused")
  /\ UNCHANGED <<redis, account, sessions, devices, resets, changes>>

\* request_password_reset: earlier links that it has loaded are spent.
RequestResetBegin(v) ==
  /\ ~account.central /\ Begin(v, "request", [open |-> {k \in DOMAIN resets : resets[k]}])
  /\ UNCHANGED <<redis, account, sessions, devices, codes, resets, changes>>

RequestReset(v) ==
  /\ visit[v].op = "request" /\ Len(resets) < MaxResets /\ End(v)
  /\ resets' = Append([k \in DOMAIN resets |-> resets[k] /\ k \notin visit[v].arg.open], TRUE)
  /\ UNCHANGED <<redis, account, sessions, devices, codes, changes>>

\* change_password, mfa_enable, mfa_disable, revoke_all_sessions, revoke_device of a signed-in user;
\* enforce_central_auth and the enrollment of central_callback; complete_password_reset.  The first
\* and the fourth do the same to what is modelled here.
ChangeBegin(v, op, which) ==
  /\ changes < MaxChanges
  /\ op = "mfa_on" => account.secret
  /\ op = "mfa_off" => account.mfa /\ account.secret
  /\ op = "reset" => ~account.central
  /\ CASE op = "device" -> which \in DOMAIN devices
       [] op = "reset" -> which \in DOMAIN resets /\ resets[which]
       [] OTHER -> which = 0
  /\ Begin(v, op, [which |-> which, mfa |-> account.mfa, open |-> {}, revoked |-> FALSE])
  /\ UNCHANGED <<redis, account, sessions, devices, codes, resets, changes>>

\* The sessions that the UPDATE of a change revokes.
Reached(r) == {s \in Live : r.op = "device" => sessions[s].device = r.arg.which}

\* The UPDATE waits for rows that another change has touched, and sees committed rows only.
RevokeSessions(v) ==
  LET r == visit[v] IN
  /\ r.op \in Changing /\ ~r.arg.revoked /\ \A s \in Reached(r) : ~Locked(s)
  /\ visit' = [visit EXCEPT ![v] =
       At(r.op, Reached(r), r.version, r.raced, [r.arg EXCEPT !.revoked = TRUE, !.open = {k \in DOMAIN resets : resets[k]}])]
  /\ UNCHANGED <<redis, account, sessions, devices, codes, resets, changes>>

\* Mutant of Changed: a completed reset revokes the sessions but leaves the version.
ChangedKeepsVersion(r) ==
  IF r.op \in {"device", "reset"} THEN account
  ELSE [account EXCEPT !.version = r.version + 1, !.mfa = r.op # "mfa_off" /\ (@ \/ r.op = "mfa_on"),
                       !.secret = @ /\ r.op # "mfa_off", !.central = @ \/ r.op = "enforce"]

\* The columns a change writes: the version is one more than it had loaded.
Changed(r) ==
  IF r.op = "device" THEN account
  ELSE [account EXCEPT !.version = r.version + 1,
                       !.mfa = CASE r.op = "mfa_off" -> FALSE [] r.op = "mfa_on" /\ ~r.arg.mfa -> TRUE [] OTHER -> @,
                       !.secret = @ /\ r.op # "mfa_off",
                       !.central = @ \/ r.op = "enforce"]

ChangeCommit(v) ==
  LET r == visit[v] IN
  /\ r.op \in Changing /\ r.arg.revoked /\ End(v)
  /\ account' = Changed(r)
  /\ sessions' = [s \in DOMAIN sessions |-> IF s \in r.locks THEN [sessions[s] EXCEPT !.live = FALSE] ELSE sessions[s]]
  /\ devices' = IF r.op = "device" THEN [devices EXCEPT ![r.arg.which] = FALSE] ELSE devices
  /\ resets' = IF r.op = "reset" THEN [k \in DOMAIN resets |-> resets[k] /\ k \notin r.arg.open] ELSE resets
  /\ changes' = IF r.op = "device" THEN changes ELSE changes + 1
  /\ UNCHANGED <<redis, codes>>

\* complete_password_reset for an account that signs in centrally: the link is spent, no more.
SpendReset(k) ==
  /\ account.central /\ resets[k] /\ resets' = [resets EXCEPT ![k] = FALSE]
  /\ UNCHANGED <<redis, account, sessions, devices, codes, visit, changes>>

-----------------------------------------------------------------------------
Request(v) ==
  \/ \E d \in 0..Len(devices) :
       PasskeyAuthVerify(v, d) \/ \E c \in 0..Len(codes) : Login(v, d, c)
  \/ IssueLooks(v) \/ Issue(v) \/ CancelChallenge(v) \/ SignIn(v)
  \/ \E c \in DOMAIN steps : VerifyReads(v, c)
  \/ VerifyTooMany(v) \/ VerifyRight(v) \/ VerifyWrong(v)
  \/ Refresh(v) \/ \E s \in DOMAIN sessions : RefreshBegin(v, s)
  \/ RegenerateBegin(v) \/ Regenerate(v) \/ RequestResetBegin(v) \/ RequestReset(v)
  \/ \E op \in Changing, which \in 0..Len(devices) \cup 0..Len(resets) : ChangeBegin(v, op, which)
  \/ RevokeSessions(v) \/ ChangeCommit(v) \/ Abandon(v)

Next ==
  \/ \E v \in Visits : Request(v)
  \/ \E c \in DOMAIN steps : ChallengeExpires(c)
  \/ \E k \in DOMAIN resets : SpendReset(k)
  \/ MfaSetup \/ \E s \in DOMAIN sessions : Logout(s)

Spec == Init /\ [][Next]_consoleVars

-----------------------------------------------------------------------------
(* Properties. *)

\* A change of the password or of MFA, a reset, a sign-out everywhere and the move to central
\* sign-in end what came before: no session of before it is live and no access token of before it
\* is accepted; while MFA is on, every live session had a second factor; no live session is on a
\* revoked device.  Excepted is what was signed in or refreshed while a change was under way: it
\* keeps a live session, which refresh turns into good tokens for ever (_revoke_all_sessions,
\* refresh, revoke_device, _decode_local_user).
ChangeEndsAccess ==
  \A s \in DOMAIN sessions : ~sessions[s].raced =>
    /\ sessions[s].live \/ Accepted(s) => sessions[s].at = changes
    /\ sessions[s].live => devices[sessions[s].device] /\ (account.mfa => sessions[s].second)
=============================================================================
