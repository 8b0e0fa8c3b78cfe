----------------------------- MODULE AuthOutbox -----------------------------
(***************************************************************************)
(* !thute Auth: account, application and session status, the transactional *)
(* outbox that the before_flush hook writes next to every status change,   *)
(* and the push-event workers that post the outbox to !thute Push.         *)
(*                                                                         *)
(* Abstractions.  created_at is the number of the transaction that wrote   *)
(* the row.  The code stamps a row with the clock at its flush; that the   *)
(* stamps of one subject come in the order of the commits is assumed here. *)
(* next_attempt_at <= now is membership of "due": a lease or a backoff     *)
(* clears it and the passing of time (Elapse) sets it again, so nothing is *)
(* assumed of how long a request takes compared with its lease.  attempts  *)
(* only chooses the length of the backoff and is left out.                 *)
(***************************************************************************)
EXTENDS LifecycleEvents

CONSTANT Workers      \* push-event worker processes

VARIABLES userActive,   \* User.is_active
          appActive,    \* Application.is_active
          revoked,      \* sessions with revoked_at set
          tx,           \* status transactions so far: the clock of created_at
          outbox,       \* rows of auth_event_outbox
          due,          \* rows with next_attempt_at <= now
          delivered,    \* rows with delivered_at set
          worker,       \* per worker: where it stands in run_once, and its event
          inflight,     \* POSTs sent and not yet taken up by Push
          applied       \* events Push has committed (external)

authVars == <<userActive, appActive, revoked, tx>>
outboxVars == <<outbox, due, delivered>>
vars == <<userActive, appActive, revoked, tx, outbox, due, delivered,
          worker, inflight, applied>>

Steps == {"idle", "claimed", "posting", "accepted", "refused",
          "settle_success", "settle_failure"}

WorkerState == [step : Steps, event : Event \cup {NoEvent}]

Idle == [step |-> "idle", event |-> NoEvent]

TypeOK ==
    /\ userActive \in [Users -> BOOLEAN]
    /\ appActive \in [Apps -> BOOLEAN]
    /\ revoked \in SUBSET Sessions
    /\ tx \in 0..MaxTx
    /\ outbox \in SUBSET Event
    /\ due \in SUBSET outbox
    /\ delivered \in SUBSET outbox
    /\ worker \in [Workers -> WorkerState]
    /\ inflight \in SUBSET outbox
    /\ applied \in SUBSET outbox

Init ==
    /\ userActive = [u \in Users |-> TRUE]
    /\ appActive = [a \in Apps |-> TRUE]
    /\ revoked = {}
    /\ tx = 0
    /\ outbox = {} /\ due = {} /\ delivered = {}
    /\ worker = [w \in Workers |-> Idle]
    /\ inflight = {}
    /\ applied = {}

-----------------------------------------------------------------------------
(* Transactions of the Auth API.                                           *)

\* The rows one transaction writes about the subjects of S.
Rows(type, S) == {[type |-> type, subject |-> x, at |-> tx + 1] : x \in S}

\* Commit one status transaction: its rows are due at once.
Publish(rows) ==
    /\ tx < MaxTx
    /\ tx' = tx + 1
    /\ outbox' = outbox \cup rows
    /\ due' = due \cup rows
    /\ UNCHANGED <<delivered, worker, inflight, applied>>

\* The hook's query: sessions not revoked yet whose account or client goes off.
LiveSessionsOf(scope) ==
    {s \in Sessions \ revoked : Owner[s] = scope \/ Client[s] = scope}

\* Mutant: the hook publishes an end of access only; turning x on again is not
\* in the outbox.
PublishStatusOffOnly(on, off, x, b) ==
    LET ended == IF b THEN {} ELSE LiveSessionsOf(x)
    IN  /\ Publish(IF b THEN {} ELSE Rows(off, {x}) \cup Rows("session.revoked", ended))
        /\ revoked' = revoked \cup ended

\* Turn x on, or off together with its sessions: the status row and a row per
\* session the route or the hook revokes.
PublishStatus(on, off, x, b) ==
    IF b THEN /\ Publish(Rows(on, {x}))
              /\ UNCHANGED revoked
         ELSE /\ Publish(Rows(off, {x}) \cup Rows("session.revoked", LiveSessionsOf(x)))
              /\ revoked' = revoked \cup LiveSessionsOf(x)

\* The request compared the value it had loaded with b; another request may
\* have committed since, so the current value is free.  FALSE can only have
\* been loaded after a disable.
WasOff(off, x) == \E r \in outbox : r.type = off /\ r.subject = x

\* An administrator enables or disables an account.
SetUserActive(u, b) ==
    /\ b => WasOff("account.disabled", u)
    /\ userActive' = [userActive EXCEPT ![u] = b]
    /\ PublishStatus("account.enabled", "account.disabled", u, b)
    /\ UNCHANGED appActive

\* The same for an application.
SetAppActive(a, b) ==
    /\ b => WasOff("application.disabled", a)
    /\ appActive' = [appActive EXCEPT ![a] = b]
    /\ PublishStatus("application.enabled", "application.disabled", a, b)
    /\ UNCHANGED userActive

\* A logout, or sessions revoked by the user or an administrator.  The request
\* saw them live; one revoked since is revoked and published again.
RevokeSessions(S) ==
    /\ revoked' = revoked \cup S
    /\ Publish(Rows("session.revoked", S))
    /\ UNCHANGED <<userActive, appActive>>

-----------------------------------------------------------------------------
(* The push-event worker.                                                  *)

\* _claim_next: lease a due row, oldest created_at first, and commit before
\* any network I/O.
ClaimNext(w) ==
    /\ worker[w].step = "idle"
    /\ \E r \in due \ delivered :
        /\ \A q \in due \ delivered : r.at <= q.at
        /\ due' = due \ {r}
        /\ worker' = [worker EXCEPT ![w] = [step |-> "claimed", event |-> r]]
    /\ UNCHANGED <<authVars, outbox, delivered, inflight, applied>>

Goto(w, step) == worker' = [worker EXCEPT ![w].step = step]

\* client.post: the request leaves the worker.
Post(w) ==
    /\ worker[w].step = "claimed"
    /\ inflight' = inflight \cup {worker[w].event}
    /\ Goto(w, "posting")
    /\ UNCHANGED <<authVars, outboxVars, applied>>

\* A 2xx answer: Push gives it once the event is committed there.
PostAccepted(w) ==
    /\ worker[w].step = "posting"
    /\ worker[w].event \in applied
    /\ Goto(w, "accepted")
    /\ UNCHANGED <<authVars, outboxVars, inflight, applied>>

\* A timeout, a broken connection or an error status.  The request may still
\* be under way, or already applied with its answer lost.
PostRefused(w) ==
    /\ worker[w].step = "posting"
    /\ Goto(w, "refused")
    /\ UNCHANGED <<authVars, outboxVars, inflight, applied>>

\* Mutant: any answer settles as a success (raise_for_status is forgotten).
SettleReadAnyAnswer(w) ==
    /\ worker[w].step \in {"accepted", "refused"}
    /\ IF worker[w].event \in delivered
       THEN worker' = [worker EXCEPT ![w] = Idle]
       ELSE Goto(w, "settle_success")
    /\ UNCHANGED <<authVars, outboxVars, inflight, applied>>

\* _settle_success and _settle_failure load the row first and return at once
\* when another worker has delivered it.
SettleRead(w) ==
    /\ worker[w].step \in {"accepted", "refused"}
    /\ IF worker[w].event \in delivered
       THEN worker' = [worker EXCEPT ![w] = Idle]
       ELSE Goto(w, IF worker[w].step = "accepted"
                    THEN "settle_success" ELSE "settle_failure")
    /\ UNCHANGED <<authVars, outboxVars, inflight, applied>>

\* _settle_success commits delivered_at.
SettleSuccess(w) ==
    /\ worker[w].step = "settle_success"
    /\ delivered' = delivered \cup {worker[w].event}
    /\ worker' = [worker EXCEPT ![w] = Idle]
    /\ UNCHANGED <<authVars, outbox, due, inflight, applied>>

\* _settle_failure commits a backoff; it writes next_attempt_at only, so a
\* delivery committed since the row was loaded is kept.
SettleFailure(w) ==
    /\ worker[w].step = "settle_failure"
    /\ due' = due \ {worker[w].event}
    /\ worker' = [worker EXCEPT ![w] = Idle]
    /\ UNCHANGED <<authVars, outbox, delivered, inflight, applied>>

\* A worker dies and is restarted; its claim and its request stay behind.
Crash(w) ==
    /\ worker[w].step # "idle"
    /\ worker' = [worker EXCEPT ![w] = Idle]
    /\ UNCHANGED <<authVars, outboxVars, inflight, applied>>

\* Mutant: next_attempt_at of a leased row never comes.
ElapseNever(r) ==
    /\ r \in due
    /\ UNCHANGED vars

\* The lease or the backoff of row r runs out, whoever set it.
Elapse(r) ==
    /\ r \in outbox \ (due \cup delivered)
    /\ due' = due \cup {r}
    /\ UNCHANGED <<authVars, outbox, delivered, worker, inflight, applied>>

-----------------------------------------------------------------------------
(* The Push endpoint and the network between (external).                   *)

\* Push commits an event it received; a repeated event changes nothing.  The
\* event may have been posted again and be under way once more.
PushApplies(r) ==
    /\ r \in inflight
    /\ applied' = applied \cup {r}
    /\ inflight' \in {inflight, inflight \ {r}}
    /\ UNCHANGED <<authVars, outboxVars, worker>>

\* The request is lost, or Push refuses it.
PushLoses(r) ==
    /\ r \in inflight
    /\ inflight' = inflight \ {r}
    /\ UNCHANGED <<authVars, outboxVars, worker, applied>>

-----------------------------------------------------------------------------
AuthStep ==
    \/ \E u \in Users, b \in BOOLEAN : SetUserActive(u, b)
    \/ \E a \in Apps, b \in BOOLEAN : SetAppActive(a, b)
    \/ \E S \in (SUBSET Sessions) \ {{}} : RevokeSessions(S)

WorkerStep(w) ==
    \/ ClaimNext(w)
    \/ Post(w)
    \/ PostAccepted(w)
    \/ PostRefused(w)
    \/ SettleRead(w)
    \/ SettleSuccess(w)
    \/ SettleFailure(w)
    \/ Crash(w)

Next ==
    \/ AuthStep
    \/ \E w \in Workers : WorkerStep(w)
    \/ \E r \in outbox : Elapse(r)
    \/ \E r \in inflight : PushApplies(r) \/ PushLoses(r)

Spec == Init /\ [][Next]_vars

\* The worker's loop.  Its process is restarted after a crash (restart:
\* unless-stopped), and crashes do not for ever hit the same point: a step of
\* the successful path that keeps being reached is taken in the end.
WorkerFairness(w) ==
    /\ WF_vars(ClaimNext(w) \/ PostRefused(w) \/ SettleRead(w) \/ SettleFailure(w))
    /\ SF_vars(Post(w))
    /\ SF_vars(PostAccepted(w))
    /\ SF_vars(worker[w].step = "accepted" /\ SettleRead(w))
    /\ SF_vars(SettleSuccess(w))

\* Leases run out, and what is sent again and again is applied at last.
NetworkFairness ==
    /\ WF_vars(\E r \in outbox : Elapse(r))
    /\ SF_vars(\E r \in inflight : PushApplies(r))

FairSpec == Spec /\ NetworkFairness /\ \A w \in Workers : WorkerFairness(w)

-----------------------------------------------------------------------------
(* Properties.                                                             *)

About(types, x) == {r \in outbox : r.type \in types /\ r.subject = x}

\* The newest of a set of rows says "on"; with no row nothing ever changed.
SaysOn(rows, on) ==
    rows = {} \/ \E r \in rows : (\A q \in rows : q.at <= r.at) /\ r.type = on

\* The outbox alone tells the current status of every account, application
\* and session: a reader that replays the rows of one subject in created_at
\* order ends with Auth's own value.  The hook misses no change, not even the
\* sessions it revokes itself.
OutboxTellsStatus ==
    /\ \A u \in Users : userActive[u] <=> SaysOn(About(AccountKinds, u), "account.enabled")
    /\ \A a \in Apps : appActive[a] <=> SaysOn(About(AppKinds, a), "application.enabled")
    /\ \A s \in Sessions : s \in revoked <=> About(RevocationKinds, s) # {}

\* A row is marked delivered only when Push has committed its event, however
\* leases expire, answers get lost and workers die (_settle_success).
DeliveredWasApplied == delivered \subseteq applied

\* A delivered row stays delivered and no worker claims it again: the late
\* failure of a worker whose lease had expired cannot reopen it.
DeliveredIsFinal ==
    [][/\ delivered \subseteq delivered'
       /\ \A w \in Workers : (worker'[w].step = "claimed" /\ worker[w].step = "idle")
                                  => worker'[w].event \notin delivered]_vars

\* The outbox drains: once Auth stops changing anything, every row is delivered,
\* and a lease left behind by a dead worker strands none (_claim_next's promise).
EveryEventDelivered == <>[](outbox = delivered)
=============================================================================
