--------------------------- MODULE ScheduledMail ---------------------------
(***************************************************************************)
(* Scheduled webmail: messages wait in scheduled_mail until they are due,  *)
(* and one worker thread in every API process claims and sends them.  A    *)
(* claim that is fifteen minutes old may be claimed again.                 *)
(*                                                                         *)
(* A claim holds the lock of its row until its commit.  Requests and the   *)
(* settling of a delivery load the row, commit later and write only the    *)
(* columns whose value differs from what they loaded.  Messages are sent   *)
(* from the hosted mailbox, with the password kept in the row; connected   *)
(* accounts keep none.  Which of several due messages is claimed first is  *)
(* left open.                                                              *)
(***************************************************************************)
EXTENDS Naturals

CONSTANTS
  Mails,
  Senders,      \* worker threads, one in each API process
  Requests,     \* requests that may be under way at the same time
  MaxChanges,   \* bound on requests
  MaxStops      \* bound on senders that die

VARIABLES
  mail,         \* scheduled_mail: status, and auth_secret_encrypted, 0 for NULL
  ready,        \* messages with scheduled_at <= now
  stale,        \* messages with updated_at more than fifteen minutes ago
  active,       \* the mailbox is active
  sender,       \* what each worker thread is at
  request,      \* requests under way
  handed,       \* history: how often the mail server took each message
  again,        \* history: claims of a message already claimed, and retries
  changes, stops

mailVars == <<mail, ready, stale, active, sender, request, handed, again, changes, stops>>

Free == [at |-> "free"]

Init ==
  /\ mail = [m \in Mails |-> [status |-> "none", secret |-> 0]]
  /\ ready = {} /\ stale = {} /\ active = TRUE
  /\ sender = [s \in Senders |-> Free] /\ request = [r \in Requests |-> Free]
  /\ handed = [m \in Mails |-> 0] /\ again = [m \in Mails |-> 0]
  /\ changes = 0 /\ stops = 0

\* An UPDATE of the columns in which new differs from what was loaded; it renews updated_at.
Update(m, loaded, new) ==
  /\ mail' = [mail EXCEPT ![m] = [status |-> IF new.status = loaded.status THEN mail[m].status ELSE new.status,
                                   secret |-> IF new.secret = loaded.secret THEN mail[m].secret ELSE new.secret]]
  /\ stale' = IF new = loaded THEN stale ELSE stale \ {m}

\* Mutant of RowLocked: the row is selected without FOR UPDATE.
RowNeverLocked(m) == FALSE

RowLocked(m) == \E s \in Senders : sender[s].at = "claim" /\ sender[s].m = m

Changed == changes < MaxChanges /\ changes' = changes + 1

-----------------------------------------------------------------------------
(* Requests of the mailbox's owner, who must be signed in to an active mailbox. *)

ScheduleMessage(m) ==
  /\ active /\ mail[m].status = "none" /\ Changed
  /\ mail' = [mail EXCEPT ![m] = [status |-> "queued", secret |-> changes + 1]]
  /\ UNCHANGED <<ready, stale, active, sender, request, handed, again, stops>>

\* cancel_scheduled and retry_scheduled load the row and check its status ...
Load(r, m, statuses, new) ==
  /\ request[r] = Free /\ active /\ mail[m].status \in statuses /\ Changed
  /\ request' = [request EXCEPT ![r] = [at |-> "change", m |-> m, loaded |-> mail[m], new |-> new]]
  /\ UNCHANGED <<mail, ready, stale, active, sender, handed, again, stops>>

CancelScheduled(r, m) == Load(r, m, {"queued", "failed"}, [status |-> "cancelled", secret |-> 0])
RetryScheduled(r, m) == Load(r, m, {"failed"}, [status |-> "queued", secret |-> changes + 1])

\* ... and commit; a retry is due in twenty seconds.
RequestCommit(r) ==
  LET q == request[r] IN
  /\ q.at = "change" /\ ~RowLocked(q.m)
  /\ Update(q.m, q.loaded, q.new)
  /\ ready' = IF q.new.status = "queued" THEN ready \ {q.m} ELSE ready
  /\ again' = IF q.new.status = "queued" THEN [again EXCEPT ![q.m] = @ + 1] ELSE again
  /\ request' = [request EXCEPT ![r] = Free]
  /\ UNCHANGED <<active, sender, handed, changes, stops>>

SetMailboxActive(b) ==
  /\ active # b /\ Changed /\ active' = b
  /\ UNCHANGED <<mail, ready, stale, sender, request, handed, again, stops>>

-----------------------------------------------------------------------------
(* The worker thread. *)

\* Mutant of Claimable: a claim is never taken over.
ClaimableOnce(m) == m \in ready /\ mail[m].status = "queued"

Claimable(m) ==
  m \in ready /\ (mail[m].status = "queued" \/ (mail[m].status = "sending" /\ m \in stale))

\* _claim_one selects the row, skipping those that are locked, and locks it ...
ClaimSelect(s, m) ==
  /\ sender[s] = Free /\ Claimable(m) /\ ~RowLocked(m)
  /\ sender' = [sender EXCEPT ![s] = [at |-> "claim", m |-> m, loaded |-> mail[m]]]
  /\ UNCHANGED <<mail, ready, stale, active, request, handed, again, changes, stops>>

\* ... and commits.  Taking over a claim changes no column, so updated_at stays as old as it was.
ClaimCommit(s) ==
  LET w == sender[s] IN
  /\ w.at = "claim"
  /\ Update(w.m, w.loaded, [w.loaded EXCEPT !.status = "sending"])
  /\ again' = IF w.loaded.status = "sending" THEN [again EXCEPT ![w.m] = @ + 1] ELSE again
  /\ sender' = [sender EXCEPT ![s] = [at |-> "claimed", m |-> w.m]]
  /\ UNCHANGED <<ready, active, request, handed, changes, stops>>

\* _deliver loads the row: it may have been cancelled or sent by another; without an active mailbox
\* or a password it fails at once.
DeliverLoad(s) ==
  LET w == sender[s]
      row == mail[w.m]
  IN
  /\ w.at = "claimed"
  /\ sender' = [sender EXCEPT ![s] =
        IF row.status # "sending" THEN Free
        ELSE [at |-> IF active /\ row.secret # 0 THEN "sending" ELSE "failed", m |-> w.m, loaded |-> row]]
  /\ UNCHANGED <<mail, ready, stale, active, request, handed, again, changes, stops>>

\* The mail server takes the message, or refuses it, or takes it and the connection breaks.
SendMessage(s, taken, ok) ==
  /\ sender[s].at = "sending" /\ (ok => taken)
  /\ handed' = IF taken THEN [handed EXCEPT ![sender[s].m] = @ + 1] ELSE handed
  /\ sender' = [sender EXCEPT ![s].at = IF ok THEN "sent" ELSE "failed"]
  /\ UNCHANGED <<mail, ready, stale, active, request, again, changes, stops>>

DeliverCommit(s) ==
  LET w == sender[s] IN
  /\ w.at \in {"sent", "failed"} /\ ~RowLocked(w.m)
  /\ Update(w.m, w.loaded, [status |-> w.at, secret |-> 0])
  /\ sender' = [sender EXCEPT ![s] = Free]
  /\ UNCHANGED <<ready, active, request, handed, again, changes, stops>>

\* The process is stopped and started again.
Stops(s) ==
  /\ sender[s] # Free /\ stops < MaxStops /\ stops' = stops + 1
  /\ sender' = [sender EXCEPT ![s] = Free]
  /\ UNCHANGED <<mail, ready, stale, active, request, handed, again, changes>>

\* scheduled_at comes; fifteen minutes pass since the last UPDATE.
ComesDue(m) ==
  /\ mail[m].status # "none" /\ m \notin ready /\ ready' = ready \cup {m}
  /\ UNCHANGED <<mail, stale, active, sender, request, handed, again, changes, stops>>

GoesStale(m) ==
  /\ mail[m].status = "sending" /\ m \notin stale /\ stale' = stale \cup {m}
  /\ UNCHANGED <<mail, ready, active, sender, request, handed, again, changes, stops>>

-----------------------------------------------------------------------------
SenderStep(s) ==
  \/ \E m \in Mails : ClaimSelect(s, m)
  \/ ClaimCommit(s) \/ DeliverLoad(s) \/ DeliverCommit(s)
  \/ \E taken, ok \in BOOLEAN : SendMessage(s, taken, ok)

Next ==
  \/ \E m \in Mails : ScheduleMessage(m) \/ ComesDue(m) \/ GoesStale(m)
  \/ \E r \in Requests : RequestCommit(r) \/ \E m \in Mails : CancelScheduled(r, m) \/ RetryScheduled(r, m)
  \/ \E b \in BOOLEAN : SetMailboxActive(b)
  \/ \E s \in Senders : SenderStep(s) \/ Stops(s)

Spec == Init /\ [][Next]_mailVars

\* Each API process polls every fifteen seconds and is restarted when it stops; time passes.
Fairness ==
  /\ \A s \in Senders : WF_mailVars(SenderStep(s))
  /\ \A m \in Mails : WF_mailVars(ComesDue(m)) /\ WF_mailVars(GoesStale(m))

-----------------------------------------------------------------------------
(* Properties. *)

\* A message goes out once, and once more at most for each time its owner retried it or a sender
\* took over a claim (_claim_one): no two senders take one message from the queue.
SentOncePerClaim == \A m \in Mails : handed[m] <= 1 + again[m]

\* A message that waits is sent, fails or is cancelled in the end, also when the process that had
\* claimed it stopped: its claim goes stale and is taken over (_claim_one).
MailEnds ==
  \A m \in Mails : (mail[m].status \in {"queued", "sending"}) ~> (mail[m].status \in {"sent", "failed", "cancelled"})
=============================================================================
