---------------------------- MODULE PushDelivery ----------------------------
(***************************************************************************)
(* !thute Push: messages, their deliveries to device endpoints, and the    *)
(* worker that hands them to the providers.  run_once locks a batch of due *)
(* deliveries, calls the provider for each and commits everything in one   *)
(* transaction, so a worker keeps a private copy (mem) of the rows it has  *)
(* loaded until it commits, and a crash in between forgets what it sent.   *)
(*                                                                         *)
(* Abstractions.  A message is named by its idempotency key: the unique    *)
(* constraint makes a repeated request find the first one.  next_attempt_at*)
(* <= now is membership of "due".  Of a provider token only its being the  *)
(* one the phone holds now matters: the provider rejects an older one, and *)
(* an app that registers again registers the one it holds.                 *)
(* last_error, provider_message_id, timestamps and the receipts of         *)
(* acknowledge_delivery, which nothing reads, are left out.                *)
(***************************************************************************)
EXTENDS Naturals, FiniteSets, FiniteSetsExt

CONSTANTS Messages,     \* messages a product may queue
          Endpoints,    \* device endpoints of the recipient
          Workers,      \* push worker processes
          MaxAttempts,  \* settings.max_attempts
          Batch,        \* rows one run_once takes at most
          MaxLost,      \* bound: answers of the provider that are lost
          MaxCrashes    \* bound: crashes of workers

ASSUME DeliveryAssumption ==
    /\ MaxAttempts \in Nat \ {0} /\ Batch \in Nat \ {0}
    /\ MaxLost \in Nat /\ MaxCrashes \in Nat
    /\ IsFiniteSet(Endpoints)

VARIABLES message,    \* messages.status, "none" before the message exists
          queueing,   \* per message: the endpoints its request has read
          row,        \* deliveries: status and attempts
          due,        \* deliveries with next_attempt_at <= now
          expired,    \* messages with expires_at <= now
          endpoint,   \* push_endpoints: "off" when not active, else whether its
                      \* token is the one the phone holds: "current" or "stale"
          worker,     \* per worker: its transaction
          accepted,   \* how often the provider accepted each delivery (history)
          lost,       \* of these, acceptances whose answer never came (history)
          crashes     \* crashes of workers so far

storeVars == <<message, row, due, endpoint>>
sentVars == <<accepted, lost>>
worldVars == <<queueing, expired>>
vars == <<message, queueing, row, due, expired, endpoint, worker,
          accepted, lost, crashes>>

Deliveries == Messages \X Endpoints
Waiting == {"queued", "retry"}
Unsuccessful == {"failed", "configuration_error", "expired"}
Terminal == {"delivered"} \cup Unsuccessful
Statuses == {"absent"} \cup Waiting \cup Terminal
Row == [status : Statuses, attempts : 0..MaxAttempts]
Absent == [status |-> "absent", attempts |-> 0]
Queued == [status |-> "queued", attempts |-> 0]

MessageStatuses == {"none", "queued", "no_endpoints", "processing", "delivered",
                    "failed", "partial"}
NotRead == {"not read"}

\* A worker's transaction: the rows it has locked, those not handled yet, the
\* one it is handling, what it holds in memory of the deliveries, the status of
\* each message as loaded (was) and as it will be written (sum), the messages
\* whose deliveries are loaded, and the endpoints to switch off.
NoWork == [batch |-> {}, todo |-> {}, now |-> {}, loaded |-> {}, off |-> {},
           mem |-> [d \in Deliveries |-> Absent],
           was |-> [m \in Messages |-> "none"], sum |-> [m \in Messages |-> "none"]]

WorkerState == [batch : SUBSET Deliveries, todo : SUBSET Deliveries,
                now : SUBSET Deliveries, loaded : SUBSET Messages,
                off : SUBSET Endpoints, mem : [Deliveries -> Row],
                was : [Messages -> MessageStatuses], sum : [Messages -> MessageStatuses]]

TypeOK ==
    /\ message \in [Messages -> MessageStatuses]
    /\ queueing \in [Messages -> (SUBSET Endpoints) \cup {NotRead}]
    /\ row \in [Deliveries -> Row]
    /\ due \in SUBSET Deliveries
    /\ expired \in SUBSET Messages
    /\ endpoint \in [Endpoints -> {"off", "current", "stale"}]
    /\ worker \in [Workers -> WorkerState]
    /\ accepted \in [Deliveries -> Nat] /\ lost \in [Deliveries -> Nat]
    /\ crashes \in 0..MaxCrashes

Init ==
    /\ message = [m \in Messages |-> "none"]
    /\ queueing = [m \in Messages |-> NotRead]
    /\ row = [d \in Deliveries |-> Absent]
    /\ due = {} /\ expired = {}
    /\ endpoint = [e \in Endpoints |-> "current"]
    /\ worker = [w \in Workers |-> NoWork]
    /\ accepted = [d \in Deliveries |-> 0] /\ lost = [d \in Deliveries |-> 0]
    /\ crashes = 0

-----------------------------------------------------------------------------
(* POST /v1/messages and the rest of the API.                              *)

\* queue_message reads the recipient's active endpoints; those of revoked
\* sessions, or all of a disabled account, are filtered out.
QueueRead(m) ==
    /\ message[m] = "none"
    /\ queueing[m] = NotRead
    /\ \E eps \in SUBSET {e \in Endpoints : endpoint[e] # "off"} :
          queueing' = [queueing EXCEPT ![m] = eps]
    /\ UNCHANGED <<storeVars, expired, worker, sentVars, crashes>>

\* It commits the message with a delivery per endpoint it read.
QueueCommit(m) ==
    LET eps == queueing[m]
    IN  /\ eps # NotRead
        /\ message[m] = "none"
        /\ message' = [message EXCEPT ![m] = IF eps = {} THEN "no_endpoints" ELSE "queued"]
        /\ row' = [d \in Deliveries |-> IF d[1] = m /\ d[2] \in eps THEN Queued ELSE row[d]]
        /\ due' = due \cup ({m} \X eps)
        /\ UNCHANGED <<worldVars, endpoint, worker, sentVars, crashes>>

\* The app registers the token its phone holds.
Register(e) ==
    /\ endpoint[e] # "current"
    /\ endpoint' = [endpoint EXCEPT ![e] = "current"]
    /\ UNCHANGED <<message, row, due, worldVars, worker, sentVars, crashes>>

\* revoke_device, or a lifecycle event, switches the endpoint off.
SwitchOff(e) ==
    /\ endpoint[e] # "off"
    /\ endpoint' = [endpoint EXCEPT ![e] = "off"]
    /\ UNCHANGED <<message, row, due, worldVars, worker, sentVars, crashes>>

Locked(d) == \E w \in Workers : d \in worker[w].batch

\* expires_at passes; a backoff runs out; a phone gets a new token (external).
Expire(m) ==
    /\ message[m] # "none" /\ m \notin expired
    /\ expired' = expired \cup {m}
    /\ UNCHANGED <<storeVars, queueing, worker, sentVars, crashes>>

Elapse(d) ==
    /\ row[d].status = "retry" /\ d \notin due
    /\ due' = due \cup {d}
    /\ UNCHANGED <<message, row, endpoint, worldVars, worker, sentVars, crashes>>

NewToken(e) ==
    /\ endpoint[e] = "current"
    /\ endpoint' = [endpoint EXCEPT ![e] = "stale"]
    /\ UNCHANGED <<message, row, due, worldVars, worker, sentVars, crashes>>

-----------------------------------------------------------------------------
(* run_once.                                                               *)

\* Mutant: FOR UPDATE SKIP LOCKED is missing.
AvailableLockedToo == {d \in due : row[d].status \in Waiting}

\* Due deliveries no other worker has locked (SKIP LOCKED).
Available == {d \in due : row[d].status \in Waiting /\ ~Locked(d)}

Select(w) ==
    /\ worker[w] = NoWork
    /\ \E B \in (SUBSET Available) \ {{}} :
        /\ Cardinality(B) <= Batch
        /\ B = Available \/ Cardinality(B) = Batch
        /\ worker' = [worker EXCEPT ![w] = [NoWork EXCEPT !.batch = B, !.todo = B,
                          !.mem = [d \in Deliveries |-> IF d \in B THEN row[d] ELSE Absent]]]
    /\ UNCHANGED <<storeVars, worldVars, sentVars, crashes>>

Outcomes == {"expired", "inactive", "not_configured", "invalid", "permanent",
             "retryable", "lost", "ok"}

\* Mutant: a transient provider error is logged and forgotten.
AfterSwallowsErrors(r, outcome) ==
    [status |-> CASE outcome = "expired" -> "expired"
                  [] outcome = "not_configured" -> "configuration_error"
                  [] outcome \in {"ok", "retryable", "lost"} -> "delivered"
                  [] OTHER -> "failed",
     attempts |-> r.attempts + 1]

\* The delivery after an outcome of this attempt.  A provider call that times out
\* raises RetryableProviderError whether or not the provider had accepted.
After(r, outcome) ==
    LET n == IF outcome \in {"expired", "inactive"} THEN r.attempts ELSE r.attempts + 1
    IN  [status |-> CASE outcome = "expired" -> "expired"
                      [] outcome = "not_configured" -> "configuration_error"
                      [] outcome = "ok" -> "delivered"
                      [] outcome \in {"retryable", "lost"} /\ n < MaxAttempts -> "retry"
                      [] OTHER -> "failed",
         attempts |-> n]

\* What may come of delivery d now: expiry and an inactive endpoint are seen
\* before the provider is called; the provider rejects a token the phone has
\* replaced (or fails on the way), and accepts or refuses a current one; the
\* answer to an acceptance may be lost to a timeout.
Possible(d) ==
    IF d[1] \in expired THEN {"expired"}
    ELSE IF endpoint[d[2]] = "off" THEN {"inactive"}
    ELSE IF endpoint[d[2]] = "stale" THEN {"invalid", "retryable", "not_configured"}
    ELSE {"ok", "lost", "permanent", "retryable", "not_configured"}

LostSoFar == MapThenSumSet(LAMBDA d : lost[d], Deliveries)

\* Load the message and the endpoint of the next item and call the provider.
Attempt(w, d, outcome) ==
    LET t == worker[w]
    IN  /\ d \in t.todo /\ t.now = {}
        /\ outcome \in Possible(d)
        /\ outcome = "lost" => LostSoFar < MaxLost
        /\ worker' = [worker EXCEPT ![w] =
              [t EXCEPT !.now = {d}, !.todo = t.todo \ {d},
                        !.mem[d] = After(t.mem[d], outcome),
                        !.was[d[1]] = IF t.was[d[1]] = "none" THEN message[d[1]] ELSE t.was[d[1]],
                        !.off = IF outcome = "invalid" THEN t.off \cup {d[2]} ELSE t.off]]
        /\ accepted' = IF outcome \in {"ok", "lost"} THEN [accepted EXCEPT ![d] = @ + 1] ELSE accepted
        /\ lost' = IF outcome = "lost" THEN [lost EXCEPT ![d] = @ + 1] ELSE lost
        /\ UNCHANGED <<storeVars, worldVars, crashes>>

\* refresh_message_status over the statuses of a message's deliveries.
Aggregate(statuses) ==
    CASE statuses = {} -> "no_endpoints"
      [] statuses # {} /\ statuses \subseteq {"delivered"} -> "delivered"
      [] statuses # {} /\ statuses \subseteq Unsuccessful -> "failed"
      [] "delivered" \in statuses /\ statuses \cap Waiting = {}
            /\ statuses \cap Unsuccessful # {} -> "partial"
      [] OTHER -> "processing"

StatusesOf(m, rows) == {rows[<<m, e>>].status : e \in Endpoints} \ {"absent"}

\* message.deliveries is loaded at the first refresh: rows of the batch keep
\* what the transaction has made of them, the others are as committed now.
Loaded(t, m) ==
    [d \in Deliveries |-> IF d[1] = m /\ m \notin t.loaded /\ d \notin t.batch
                          THEN row[d] ELSE t.mem[d]]

\* Mutant: only the deliveries of this batch are aggregated.
RefreshBatchOnly(w) ==
    LET t == worker[w]
    IN  \E d \in t.now :
          /\ worker' = [worker EXCEPT
                ![w] = [t EXCEPT !.now = {}, !.loaded = t.loaded \cup {d[1]},
                                 !.sum[d[1]] = Aggregate(StatusesOf(d[1], t.mem))]]
          /\ UNCHANGED <<storeVars, worldVars, sentVars, crashes>>

\* Then refresh_message_status.
Refresh(w) ==
    LET t == worker[w]
    IN  \E d \in t.now :
          LET mem == Loaded(t, d[1])
          IN  /\ worker' = [worker EXCEPT
                    ![w] = [t EXCEPT !.now = {}, !.loaded = t.loaded \cup {d[1]}, !.mem = mem,
                                     !.sum[d[1]] = Aggregate(StatusesOf(d[1], mem))]]
              /\ UNCHANGED <<storeVars, worldVars, sentVars, crashes>>

\* db.commit: the batch, the messages whose status differs from the one that
\* was loaded, and the rejected endpoints.
Commit(w) ==
    LET t == worker[w]
    IN  /\ t.batch # {} /\ t.todo = {} /\ t.now = {}
        /\ row' = [d \in Deliveries |-> IF d \in t.batch THEN t.mem[d] ELSE row[d]]
        /\ due' = due \ {d \in t.batch : t.mem[d].status = "retry"}
        /\ message' = [m \in Messages |-> IF t.sum[m] # t.was[m] THEN t.sum[m] ELSE message[m]]
        /\ endpoint' = [e \in Endpoints |-> IF e \in t.off THEN "off" ELSE endpoint[e]]
        /\ worker' = [worker EXCEPT ![w] = NoWork]
        /\ UNCHANGED <<worldVars, sentVars, crashes>>

\* Mutant: rows are claimed by an update that a crash leaves behind.
CrashKeepsClaim(w) ==
    /\ worker[w] # NoWork
    /\ crashes < MaxCrashes
    /\ crashes' = crashes + 1
    /\ due' = due \ worker[w].batch
    /\ worker' = [worker EXCEPT ![w] = NoWork]
    /\ UNCHANGED <<message, row, endpoint, worldVars, sentVars>>

\* The worker dies, or the commit fails: nothing of the batch is kept.
Crash(w) ==
    /\ worker[w] # NoWork
    /\ crashes < MaxCrashes
    /\ crashes' = crashes + 1
    /\ worker' = [worker EXCEPT ![w] = NoWork]
    /\ UNCHANGED <<storeVars, worldVars, sentVars>>

-----------------------------------------------------------------------------
WorkerStep(w) ==
    \/ Select(w)
    \/ \E d \in worker[w].todo, o \in Outcomes : Attempt(w, d, o)
    \/ Refresh(w)
    \/ Commit(w)

Next ==
    \/ \E m \in Messages : QueueRead(m) \/ QueueCommit(m) \/ Expire(m)
    \/ \E e \in Endpoints : Register(e) \/ SwitchOff(e) \/ NewToken(e)
    \/ \E d \in Deliveries : Elapse(d)
    \/ \E w \in Workers : WorkerStep(w) \/ Crash(w)

Spec == Init /\ [][Next]_vars

\* The worker loops for ever and is restarted after a crash; backoffs run out.
Fairness ==
    /\ \A w \in Workers : WF_vars(WorkerStep(w))
    /\ \A d \in Deliveries : WF_vars(Elapse(d))

FairSpec == Spec /\ Fairness

-----------------------------------------------------------------------------
(* Properties.                                                             *)

\* PushDelivery as a delivery queue.
JobState(status) ==
    CASE status \in Waiting -> "open"
      [] status \in Unsuccessful -> "unsuccessful"
      [] OTHER -> status

Queue == INSTANCE DeliveryQueue
         WITH Jobs <- Deliveries,
              state <- [d \in Deliveries |-> JobState(row[d].status)],
              handed <- {d \in Deliveries : accepted[d] > 0}

\* A delivery ends once and as delivered only when the provider accepted it,
\* whatever other workers hold in memory and whatever a crash repeats.
ImplementsQueue == Queue!Spec

\* A delivery is handed to the provider once, plus once for each crash of a worker
\* and each timeout that lost the provider's answer: row locks keep two workers
\* off one delivery, and an answer that arrived is never forgotten otherwise.
SentOncePerLoss == \A d \in Deliveries : accepted[d] <= 1 + crashes + lost[d]

\* A final messages.status is the aggregate of the deliveries: a worker that sees
\* a sibling as it was before another worker's commit can only call the message
\* "processing", and a status written late is never older than the rows.
FinalStatusTrue ==
    \A m \in Messages : message[m] \in {"delivered", "failed", "partial"} =>
        message[m] = Aggregate(StatusesOf(m, row))

\* Every queued delivery ends: retries are bounded, backoffs run out and a crash
\* only repeats the batch.
DeliverySettles ==
    \A d \in Deliveries : (row[d].status = "queued") ~> (row[d].status \in Terminal)
=============================================================================
