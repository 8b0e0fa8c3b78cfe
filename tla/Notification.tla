---------------------------- MODULE Notification ----------------------------
(***************************************************************************)
(* !thute Notification: a notification fans out to one delivery per        *)
(* channel (email, SMS, push); workers process one delivery per            *)
(* transaction.  process_one locks the due deliveries it selects, then the *)
(* parent notification, calls the provider, flushes, and derives the       *)
(* notification's status from the table while it holds the parent's lock.  *)
(* The select has no LIMIT, so it locks every due delivery and uses the    *)
(* oldest.                                                                 *)
(*                                                                         *)
(* Abstractions.  A notification is named by its idempotency key (the      *)
(* unique constraint resolves concurrent identical requests to one row);   *)
(* created_at is the order of creation; next_attempt_at <= now is          *)
(* membership of "due".                                                    *)
(***************************************************************************)
EXTENDS Naturals, FiniteSets, FiniteSetsExt

CONSTANTS Notifications, Channels, Workers,
          MaxAttempts,  \* settings.max_attempts
          MaxLost,      \* bound: answers of the providers that are lost
          MaxCrashes    \* bound: crashes of workers

ASSUME NotificationAssumption ==
    /\ MaxAttempts \in Nat \ {0} /\ MaxLost \in Nat /\ MaxCrashes \in Nat
    /\ IsFiniteSet(Notifications)

VARIABLES note,      \* notifications: status, completed_at set, creation order
          row,       \* notification_deliveries: status and attempt_count
          due,       \* deliveries with next_attempt_at <= now
          worker,    \* per worker: its transaction
          accepted,  \* how often a provider accepted each delivery (history)
          lost,      \* of these, acceptances whose answer never came (history)
          crashes

store == <<note, row, due>>
sent == <<accepted, lost>>
vars == <<note, row, due, worker, accepted, lost, crashes>>

Deliveries == Notifications \X Channels
Waiting == {"pending", "retry"}
Row == [status : {"absent", "delivered", "failed"} \cup Waiting, attempts : 0..MaxAttempts]
Absent == [status |-> "absent", attempts |-> 0]

NoNote == [status |-> "none", completed |-> FALSE, created |-> 0]
Note == [status : {"none", "queued", "delivered", "partial", "failed"},
         completed : BOOLEAN, created : 0..Cardinality(Notifications)]

\* A worker's transaction: the deliveries it has locked, the one it handles,
\* whether it holds the parent's lock, the new row, and the statuses it read.
Idle == [step |-> "idle", locked |-> {}, now |-> {}, row |-> Absent, seen |-> {}]
WorkerState == [step : {"idle", "selected", "parent", "attempted", "flushed"},
                locked : SUBSET Deliveries, now : SUBSET Deliveries, row : Row,
                seen : SUBSET {"absent", "delivered", "failed", "pending", "retry"}]

TypeOK ==
    /\ note \in [Notifications -> Note]
    /\ row \in [Deliveries -> Row]
    /\ due \in SUBSET Deliveries
    /\ worker \in [Workers -> WorkerState]
    /\ accepted \in [Deliveries -> Nat] /\ lost \in [Deliveries -> Nat]
    /\ crashes \in 0..MaxCrashes

Init ==
    /\ note = [n \in Notifications |-> NoNote]
    /\ row = [d \in Deliveries |-> Absent]
    /\ due = {}
    /\ worker = [w \in Workers |-> Idle]
    /\ accepted = [d \in Deliveries |-> 0] /\ lost = [d \in Deliveries |-> 0]
    /\ crashes = 0

-----------------------------------------------------------------------------
\* POST /v1/notifications with a non-empty set of channels.
Create(n, channels) ==
    LET age == 1 + Cardinality({k \in Notifications : note[k].status # "none"})
    IN  /\ note[n].status = "none"
        /\ note' = [note EXCEPT ![n] = [status |-> "queued", completed |-> FALSE,
                                        created |-> age]]
        /\ row' = [d \in Deliveries |-> IF d[1] = n /\ d[2] \in channels
                                        THEN [status |-> "pending", attempts |-> 0]
                                        ELSE row[d]]
        /\ due' = due \cup ({n} \X channels)
        /\ UNCHANGED <<worker, sent, crashes>>

\* A backoff runs out.
Elapse(d) ==
    /\ row[d].status = "retry" /\ d \notin due
    /\ due' = due \cup {d}
    /\ UNCHANGED <<note, row, worker, sent, crashes>>

-----------------------------------------------------------------------------
(* process_one.                                                            *)

Locked(d) == \E w \in Workers : d \in worker[w].locked

\* Mutant: FOR UPDATE SKIP LOCKED is missing.
AvailableLockedToo == {d \in due : row[d].status \in Waiting}

Available == {d \in due : row[d].status \in Waiting /\ ~Locked(d)}

\* FOR UPDATE SKIP LOCKED without a LIMIT; the oldest row is the one handled.
Select(w) ==
    /\ worker[w].step = "idle"
    /\ \E d \in Available :
        /\ \A k \in Available : note[d[1]].created <= note[k[1]].created
        /\ worker' = [worker EXCEPT ![w] = [Idle EXCEPT !.step = "selected",
                         !.locked = Available, !.now = {d}, !.row = row[d]]]
    /\ UNCHANGED <<store, sent, crashes>>

ParentLocked(n) ==
    \E w \in Workers : /\ worker[w].step \in {"parent", "attempted", "flushed"}
                       /\ \E d \in worker[w].now : d[1] = n

\* Mutant: the parent is read without FOR UPDATE.
LockParentWithoutWaiting(w) ==
    /\ worker[w].step = "selected"
    /\ worker' = [worker EXCEPT ![w].step = "parent"]
    /\ UNCHANGED <<store, sent, crashes>>

\* Wait for the parent notification's row lock.
LockParent(w) ==
    /\ worker[w].step = "selected"
    /\ \A d \in worker[w].now : ~ParentLocked(d[1])
    /\ worker' = [worker EXCEPT ![w].step = "parent"]
    /\ UNCHANGED <<store, sent, crashes>>

\* Mutant: a provider error is logged and forgotten.
AfterSwallowsErrors(r, outcome) == [attempts |-> r.attempts + 1, status |-> "delivered"]

\* The provider accepts; it accepts and its answer is lost to a timeout or an
\* error on the way; it refuses, is unreachable, or the target is missing.
Outcomes == {"ok", "lost", "refused"}

\* The row after an attempt: every exception is a retry until the last attempt.
After(r, outcome) ==
    LET n == r.attempts + 1
    IN  [attempts |-> n,
         status |-> CASE outcome = "ok" -> "delivered"
                      [] outcome # "ok" /\ n >= MaxAttempts -> "failed"
                      [] OTHER -> "retry"]

LostSoFar == MapThenSumSet(LAMBDA d : lost[d], Deliveries)

\* Call the provider.
Attempt(w, outcome) ==
    /\ worker[w].step = "parent"
    /\ outcome = "lost" => LostSoFar < MaxLost
    /\ worker' = [worker EXCEPT ![w].step = "attempted",
                                ![w].row = After(worker[w].row, outcome)]
    /\ accepted' = [d \in Deliveries |-> IF outcome # "refused" /\ d \in worker[w].now
                                         THEN accepted[d] + 1 ELSE accepted[d]]
    /\ lost' = [d \in Deliveries |-> IF outcome = "lost" /\ d \in worker[w].now
                                     THEN lost[d] + 1 ELSE lost[d]]
    /\ UNCHANGED <<store, crashes>>

\* db.flush, then the statuses of all deliveries of the notification: the one
\* flushed and the others as committed.
Flush(w) ==
    /\ worker[w].step = "attempted"
    /\ \E d \in worker[w].now :
          LET siblings == {k \in Deliveries \ {d} : k[1] = d[1] /\ row[k].status # "absent"}
          IN  worker' = [worker EXCEPT ![w].step = "flushed",
                  ![w].seen = {worker[w].row.status} \cup {row[k].status : k \in siblings}]
    /\ UNCHANGED <<store, sent, crashes>>

\* _refresh_notification_status
Aggregate(statuses) ==
    CASE statuses = {"delivered"} -> "delivered"
      [] statuses \cap Waiting # {} -> "queued"
      [] "delivered" \in statuses /\ "failed" \in statuses /\ statuses \cap Waiting = {} -> "partial"
      [] OTHER -> "failed"

Commit(w) ==
    LET t == worker[w]
        status == Aggregate(t.seen)
    IN  /\ t.step = "flushed"
        /\ \E d \in t.now :
              /\ row' = [row EXCEPT ![d] = t.row]
              /\ due' = IF t.row.status = "retry" THEN due \ {d} ELSE due
              /\ note' = [note EXCEPT ![d[1]].status = status,
                                      ![d[1]].completed = status # "queued"]
        /\ worker' = [worker EXCEPT ![w] = Idle]
        /\ UNCHANGED <<sent, crashes>>

\* Mutant: the claim is committed before the provider is called and a crash
\* leaves it behind.
CrashLeavesProcessing(w) ==
    /\ worker[w].step # "idle"
    /\ crashes < MaxCrashes
    /\ crashes' = crashes + 1
    /\ due' = due \ worker[w].now
    /\ worker' = [worker EXCEPT ![w] = Idle]
    /\ UNCHANGED <<note, row, sent>>

\* The worker dies: the transaction rolls back and its locks are released.
Crash(w) ==
    /\ worker[w].step # "idle"
    /\ crashes < MaxCrashes
    /\ crashes' = crashes + 1
    /\ worker' = [worker EXCEPT ![w] = Idle]
    /\ UNCHANGED <<store, sent>>

-----------------------------------------------------------------------------
WorkerStep(w) ==
    \/ Select(w)
    \/ LockParent(w)
    \/ \E outcome \in Outcomes : Attempt(w, outcome)
    \/ Flush(w)
    \/ Commit(w)

Next ==
    \/ \E n \in Notifications, channels \in (SUBSET Channels) \ {{}} : Create(n, channels)
    \/ \E d \in Deliveries : Elapse(d)
    \/ \E w \in Workers : WorkerStep(w) \/ Crash(w)

Spec == Init /\ [][Next]_vars

\* Each worker loops for ever and is restarted after a crash, a lock is granted
\* in the end to one that waits for it, and backoffs run out.
Fairness ==
    /\ \A w \in Workers : WF_vars(WorkerStep(w)) /\ SF_vars(LockParent(w))
    /\ \A d \in Deliveries : WF_vars(Elapse(d))

FairSpec == Spec /\ Fairness

-----------------------------------------------------------------------------
(* Properties.                                                             *)

JobState(status) ==
    CASE status \in Waiting -> "open"
      [] status = "failed" -> "unsuccessful"
      [] OTHER -> status

Queue == INSTANCE DeliveryQueue
         WITH Jobs <- Deliveries,
              state <- [d \in Deliveries |-> JobState(row[d].status)],
              handed <- {d \in Deliveries : accepted[d] > 0}

\* A delivery ends once and as delivered only when a provider accepted it,
\* with any number of workers and crashes.
ImplementsQueue == Queue!Spec

\* The notification's status and completed_at are always those of its
\* deliveries: the parent lock keeps two workers from each aggregating a stale
\* sibling and leaving a finished notification queued.
StatusTrue ==
    \A n \in Notifications :
        LET statuses == {row[d].status : d \in {k \in Deliveries : k[1] = n}} \ {"absent"}
        IN  note[n].status # "none" =>
                /\ note[n].status = Aggregate(statuses)
                /\ note[n].completed <=> statuses \cap Waiting = {}

\* A delivery is handed over once, plus once for each crash of a worker and each
\* provider answer that was lost: the row lock of process_one keeps every other
\* worker off it, and an answer that arrived is committed or crashed away.
SentOncePerLoss == \A d \in Deliveries : accepted[d] <= 1 + crashes + lost[d]

\* Every notification completes: retries are bounded and crashes roll back.
NotificationCompletes ==
    \A n \in Notifications : (note[n].status = "queued") ~> note[n].completed
=============================================================================
