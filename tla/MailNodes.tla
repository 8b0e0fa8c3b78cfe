----------------------------- MODULE MailNodes -----------------------------
(***************************************************************************)
(* External mail nodes: the control plane's rows for nodes, snapshots,     *)
(* node operations, mailbox commands and two-person approvals, and the     *)
(* agent of each node, which polls for operations and commands and writes  *)
(* the accounts file and the mail storage.                                 *)
(*                                                                         *)
(* Requests load their rows, then commit: nothing is locked in between,    *)
(* and one that dies never commits.  Rows are kept in the order of their   *)
(* commits; created_at, by which claims go, is when the transaction began: *)
(* the two differ between requests that overlap only.  An agent without a  *)
(* remote for its archives reports backup_ready FALSE and is given no      *)
(* backup, so every snapshot that is ready has a remote_uri.  Amounts of   *)
(* storage, host names and audit rows are left out; "settings" stands for  *)
(* a mailbox's password hash and quota.                                    *)
(***************************************************************************)
EXTENDS Naturals, Sequences, FiniteSets, FiniteSetsExt, SequencesExt

CONSTANTS
  Nodes, Boxes, Owners, Approvals,
  Threads,       \* requests that may be under way at the same time
  DualControl,   \* the values of security_dual_control_enabled between restarts of the backend
  NoNode,        \* the node of a mailbox that does not exist yet
  Keep,          \* backup_retention_count
  MaxRequests,   \* bound on changes of mailboxes and nodes, decisions, backups by hand and unapproved failovers
  MaxSnapshots,  \* bound on snapshots
  MaxFaults      \* bound on failures, crashes, lost calls and approvals that expire

VARIABLES
  node,      \* MailNode: status, what the last heartbeat said, and whether it is recent
  box,       \* Mailbox: its node, status and version of its settings
  snaps,     \* MailNodeSnapshot rows in order of creation; stored: the archive is off-node
  ops,       \* MailNodeOperation rows in order of creation
  cmds,      \* MailNodeCommand rows in order of creation
  approval,  \* SecurityApprovalRequest rows; raced: history, two failovers read it at once
  agent,     \* what the agent of each node is at
  store,     \* the snapshot last restored into a node's mail storage, 0 for none
  files,     \* the accounts and the quotas file of a node: settings of each mailbox, 0 for none
  thread,    \* requests under way
  alone,     \* history: the last change of the mailbox overlapped no other
  requests, faults

vars == <<node, box, snaps, ops, cmds, approval, agent, store, files, thread, alone, requests, faults>>
rows == <<node, box, snaps, ops, cmds, approval>>
nodeSide == <<agent, store, files>>

Idle == [at |-> "idle"]

\* provision_node has committed the rows of the nodes and is calling the provisioner.
Init ==
  /\ node = [n \in Nodes |-> [status |-> "provisioning", mail |-> FALSE, backup |-> FALSE, fresh |-> FALSE]]
  /\ box = [b \in Boxes |-> [node |-> NoNode, status |-> "none", settings |-> 0]]
  /\ snaps = <<>> /\ ops = <<>> /\ cmds = <<>>
  /\ approval = [a \in Approvals |-> [status |-> "none"]]
  /\ agent = [n \in Nodes |-> Idle]
  /\ store = [n \in Nodes |-> 0]
  /\ files = [n \in Nodes |-> [accounts |-> [b \in Boxes |-> 0], quotas |-> [b \in Boxes |-> 0]]]
  /\ thread = [t \in Threads |-> Idle]
  /\ alone = [b \in Boxes |-> TRUE]
  /\ requests = 0 /\ faults = 0

-----------------------------------------------------------------------------
(* Helpers. *)

Counted == requests < MaxRequests /\ requests' = requests + 1
Fault == faults < MaxFaults /\ faults' = faults + 1
FaultUnless(fine) == IF fine THEN UNCHANGED faults ELSE Fault

NodeReady(n) == node[n].status = "active" /\ node[n].fresh /\ node[n].mail /\ node[n].backup

\* An agent that calls in shows that it is alive.
Seen(n) == node' = [node EXCEPT ![n].fresh = TRUE]

Admitted(n) == node[n].status # "disabled"

BackupPending(n) ==
  \E i \in DOMAIN ops : ops[i].node = n /\ ops[i].kind = "backup" /\ ops[i].status \in {"queued", "claimed"}

\* The rows a backup of node n adds.
WithSnapshot(n) == Append(snaps, [node |-> n, status |-> "creating", stored |-> FALSE])
Operation(n, kind, snap) ==
  [node |-> n, kind |-> kind, snap |-> snap, source |-> n, status |-> "queued", approval |-> Idle]

\* queue_mailbox_sync: the desired state of the mailbox as the request knows it.
Sync(n, b, row) == [node |-> n, box |-> b, status |-> "queued", state |-> row.status, settings |-> row.settings]

\* The requests that change or move mailbox b and have not committed.
Changing(b) ==
  {t \in Threads : thread[t].at = "box" /\ thread[t].box = b}
Moving(b) ==
  {t \in Threads : thread[t].at = "moving" /\ b \in DOMAIN thread[t].moved}

-----------------------------------------------------------------------------
(* Nodes. *)

\* The provisioner refuses, cannot be reached or answers for another host; the node's agent
\* may have called in meanwhile.
ProvisionFails(n) ==
  /\ node[n].status \in {"provisioning", "active"} /\ Fault
  /\ node' = [node EXCEPT ![n].status = "disabled"]
  /\ UNCHANGED <<box, snaps, ops, cmds, approval, thread, alone, requests>> /\ UNCHANGED nodeSide

\* update_mail_node_status; create_mail_node of a known name sets "active".
UpdateNodeStatus(n, status) ==
  /\ node[n].status # status /\ Counted
  /\ node' = [node EXCEPT ![n].status = status]
  /\ UNCHANGED <<box, snaps, ops, cmds, approval, thread, alone, faults>> /\ UNCHANGED nodeSide

\* mail_node_agent_heartbeat, with _queue_scheduled_backup_if_due: whether a backup is due
\* depends on the age of the last one.
Heartbeat(n, mail, backup, due) ==
  LET status == IF node[n].status = "provisioning" /\ mail /\ backup THEN "active" ELSE node[n].status IN
  /\ Admitted(n) /\ agent[n] = Idle
  /\ FaultUnless(mail /\ backup)
  /\ node' = [node EXCEPT ![n] = [status |-> status, mail |-> mail, backup |-> backup, fresh |-> TRUE]]
  /\ IF due
       THEN /\ status = "active" /\ backup /\ ~BackupPending(n) /\ Len(snaps) < MaxSnapshots
            /\ snaps' = WithSnapshot(n)
            /\ ops' = Append(ops, Operation(n, "backup", Len(snaps) + 1))
       ELSE UNCHANGED <<snaps, ops>>
  /\ UNCHANGED <<box, cmds, approval, thread, alone, requests>> /\ UNCHANGED nodeSide

\* No call for mail_node_stale_seconds.
HeartbeatLate(n) ==
  /\ node[n].fresh /\ Fault
  /\ node' = [node EXCEPT ![n].fresh = FALSE]
  /\ UNCHANGED <<box, snaps, ops, cmds, approval, thread, alone, requests>> /\ UNCHANGED nodeSide

CreateBackup(n) ==
  /\ node[n].status = "active" /\ node[n].fresh /\ node[n].backup /\ ~BackupPending(n)
  /\ Len(snaps) < MaxSnapshots /\ Counted
  /\ snaps' = WithSnapshot(n)
  /\ ops' = Append(ops, Operation(n, "backup", Len(snaps) + 1))
  /\ UNCHANGED <<node, box, cmds, approval, thread, alone, faults>> /\ UNCHANGED nodeSide

-----------------------------------------------------------------------------
(* Mailboxes on external nodes. *)

CreateMailbox(b, n) ==
  /\ box[b].status = "none" /\ NodeReady(n)
  /\ box' = [box EXCEPT ![b] = [node |-> n, status |-> "active", settings |-> 1]]
  /\ cmds' = Append(cmds, Sync(n, b, box'[b]))
  /\ UNCHANGED <<node, snaps, ops, approval, thread, alone, requests, faults>> /\ UNCHANGED nodeSide

\* A request on mailbox b loads its row; what it will write is column |-> value.
ChangeBegin(t, b, column, value) ==
  /\ thread[t] = Idle /\ box[b].status # "none" /\ Counted
  /\ thread' = [u \in Threads |->
                  IF u = t THEN [at |-> "box", box |-> b, row |-> box[b], column |-> column, value |-> value,
                                 alone |-> Changing(b) \cup Moving(b) = {}]
                  ELSE IF u \in Changing(b) \cup Moving(b) THEN [thread[u] EXCEPT !.alone = FALSE] ELSE thread[u]]
  /\ UNCHANGED rows /\ UNCHANGED <<alone, faults>> /\ UNCHANGED nodeSide

\* update_mailbox, change_mailbox_password
ChangeSettings(t, b) == box[b].status # "archived" /\ ChangeBegin(t, b, "settings", box[b].settings + 1)
SuspendMailbox(t, b) == box[b].status # "archived" /\ ChangeBegin(t, b, "status", "suspended")
RestoreMailbox(t, b) == box[b].status # "archived" /\ ChangeBegin(t, b, "status", "active")
ArchiveMailbox(t, b) == ChangeBegin(t, b, "status", "archived")

\* The column is written; the command carries the row as the request loaded it, to the node
\* the mailbox was on then.
ChangeCommit(t) ==
  LET r == thread[t] IN
  /\ r.at = "box"
  /\ box' = [box EXCEPT ![r.box][r.column] = r.value]
  /\ cmds' = Append(cmds, Sync(r.row.node, r.box, [r.row EXCEPT ![r.column] = r.value]))
  /\ alone' = [alone EXCEPT ![r.box] = r.alone]
  /\ thread' = [thread EXCEPT ![t] = Idle]
  /\ UNCHANGED <<node, snaps, ops, approval, requests, faults>> /\ UNCHANGED nodeSide

-----------------------------------------------------------------------------
(* Two-person approvals and failover. *)

\* request_security_approval takes any payload; one that names no snapshot of the source, or
\* the source as the target, can never be used and is left out.
RequestApproval(a, o, source, target, s) ==
  /\ approval[a].status = "none" /\ s \in DOMAIN snaps /\ snaps[s].node = source /\ source # target
  /\ approval' = [approval EXCEPT ![a] = [status |-> "pending", by |-> o, approver |-> NoNode,
                                          expired |-> FALSE, consumed |-> FALSE, raced |-> FALSE,
                                          payload |-> <<source, target, s>>]]
  /\ UNCHANGED <<node, box, snaps, ops, cmds, thread, alone, requests, faults>> /\ UNCHANGED nodeSide

DecideBegin(t, a, o, verdict) ==
  /\ thread[t] = Idle /\ approval[a].status = "pending" /\ Counted
  /\ thread' = [thread EXCEPT ![t] = [at |-> verdict, approval |-> a, by |-> o]]
  /\ UNCHANGED rows /\ UNCHANGED <<alone, faults>> /\ UNCHANGED nodeSide

\* Mutant of ApproveBegin: the requester may approve.
ApproveBeginAnyone(t, a, o) ==
  /\ approval[a].status = "pending" /\ ~approval[a].expired
  /\ DecideBegin(t, a, o, "approved")

ApproveBegin(t, a, o) ==
  /\ approval[a].status = "pending" /\ ~approval[a].expired /\ approval[a].by # o
  /\ DecideBegin(t, a, o, "approved")

RejectBegin(t, a, o) == DecideBegin(t, a, o, "rejected")

DecideCommit(t) ==
  LET r == thread[t] IN
  /\ r.at \in {"approved", "rejected"}
  /\ approval' = [approval EXCEPT ![r.approval].status = r.at, ![r.approval].approver = r.by]
  /\ thread' = [thread EXCEPT ![t] = Idle]
  /\ UNCHANGED <<node, box, snaps, ops, cmds, alone, requests, faults>> /\ UNCHANGED nodeSide

\* An approval found out of date when it is to be approved.
ApproveExpired(a) ==
  /\ approval[a].status = "pending" /\ approval[a].expired
  /\ approval' = [approval EXCEPT ![a].status = "expired"]
  /\ UNCHANGED <<node, box, snaps, ops, cmds, thread, alone, requests, faults>> /\ UNCHANGED nodeSide

\* expires_at passes.
TimePasses(a) ==
  /\ approval[a].status \in {"pending", "approved"} /\ ~approval[a].expired /\ Fault
  /\ approval' = [approval EXCEPT ![a].expired = TRUE]
  /\ UNCHANGED <<node, box, snaps, ops, cmds, thread, alone, requests>> /\ UNCHANGED nodeSide

\* consume_security_approval; consumed is consumed_at, which no decision takes back.
Consumable(a, payload) ==
  /\ approval[a].status = "approved" /\ ~approval[a].expired /\ ~approval[a].consumed
  /\ approval[a].payload = payload

\* The failovers under way that have read approval a.
Consuming(a) == {t \in Threads : thread[t].at = "failover" /\ thread[t].use # Idle /\ thread[t].use.id = a}

\* queue_mail_node_failover; use is the approval as it was loaded, Idle for none.
FailoverBegin(t, source, target, s, use) ==
  /\ thread[t] = Idle /\ source # target /\ s \in DOMAIN snaps
  /\ snaps[s].node = source /\ snaps[s].status = "ready" /\ NodeReady(target)
  /\ thread' = [thread EXCEPT ![t] = [at |-> "failover", source |-> source, target |-> target, snap |-> s,
                                      use |-> use]]
  /\ UNCHANGED <<node, box, snaps, ops, cmds, alone, faults>> /\ UNCHANGED nodeSide

\* With security_dual_control_enabled ...
FailoverApproved(t, source, target, s, a) ==
  /\ TRUE \in DualControl /\ Consumable(a, <<source, target, s>>)
  /\ FailoverBegin(t, source, target, s, [id |-> a, row |-> approval[a]])
  /\ approval' = [approval EXCEPT ![a].raced = @ \/ Consuming(a) # {}]
  /\ UNCHANGED requests

\* ... and without.
FailoverUnapproved(t, source, target, s) ==
  /\ FALSE \in DualControl /\ Counted
  /\ FailoverBegin(t, source, target, s, Idle) /\ UNCHANGED approval

FailoverCommit(t) ==
  LET r == thread[t] IN
  /\ r.at = "failover"
  /\ ops' = Append(ops, [Operation(r.target, "restore", r.snap) EXCEPT !.source = r.source, !.approval = r.use])
  /\ node' = [node EXCEPT ![r.source].status = "maintenance"]
  /\ approval' = IF r.use = Idle THEN approval
                 ELSE [approval EXCEPT ![r.use.id].status = "consumed", ![r.use.id].consumed = TRUE]
  /\ thread' = [thread EXCEPT ![t] = Idle]
  /\ UNCHANGED <<box, snaps, cmds, alone, requests, faults>> /\ UNCHANGED nodeSide

-----------------------------------------------------------------------------
(* The agent of a node: one thing at a time, operations before commands. *)

Queued(table, n) == {i \in DOMAIN table : table[i].node = n /\ table[i].status = "queued"}

\* Mutant of OldestFirst: the newest row first.
NewestFirst(table, n) == Max(Queued(table, n))

\* The row a claim takes: the oldest.
OldestFirst(table, n) == Min(Queued(table, n))

\* A claim, and what the agent does with it before it reports: between the two it changes
\* only its own files and the archives.  A snapshot is archived, an archive deleted, or the
\* archive put in the place of everything the storage held; ok is FALSE if that fails.
ClaimOperation(n, ok) ==
  LET i == OldestFirst(ops, n)
      o == ops[i]
  IN
  /\ Admitted(n) /\ agent[n] = Idle /\ Queued(ops, n) # {}
  /\ ops' = [ops EXCEPT ![i].status = "claimed"]
  /\ agent' = [agent EXCEPT ![n] = [at |-> "op", i |-> i, ok |-> ok]]
  /\ IF o.kind = "restore" /\ ~snaps[o.snap].stored THEN ~ok /\ UNCHANGED faults ELSE FaultUnless(ok)
  /\ snaps' = IF ok /\ o.kind # "restore" THEN [snaps EXCEPT ![o.snap].stored = (o.kind = "backup")] ELSE snaps
  /\ store' = IF ok /\ o.kind = "restore" THEN [store EXCEPT ![n] = o.snap] ELSE store
  /\ Seen(n)
  /\ UNCHANGED <<box, cmds, approval, files, thread, alone, requests>>

\* write_account reads both files and writes each of them anew, the line of the mailbox last.
Rewritten(file, c) == [file EXCEPT ![c.box] = IF c.state = "active" THEN c.settings ELSE 0]

\* _write_in_place empties the file first: a stop, a full disk or an error leaves the lines
\* that came first.
Torn(file, c) ==
  {Rewritten(file, c)} \cup {[b \in Boxes |-> IF b \in kept THEN file[b] ELSE 0] : kept \in SUBSET (Boxes \ {c.box})}

\* What is left of the files if write_account fails: before, at the first or at the second.
Left(f, c) ==
  {f} \cup [accounts : Torn(f.accounts, c), quotas : {f.quotas}]
      \cup [accounts : {Rewritten(f.accounts, c)}, quotas : Torn(f.quotas, c)]

\* The same for a command: process and write_account.
ClaimCommand(n, ok) ==
  LET i == OldestFirst(cmds, n)
      c == cmds[i]
      f == files[n]
  IN
  /\ node[n].status = "active" /\ agent[n] = Idle /\ Queued(cmds, n) # {} /\ FaultUnless(ok)
  /\ cmds' = [cmds EXCEPT ![i].status = "claimed"]
  /\ agent' = [agent EXCEPT ![n] = [at |-> "cmd", i |-> i, ok |-> ok]]
  /\ IF ok THEN files' = [files EXCEPT ![n] = [accounts |-> Rewritten(f.accounts, c), quotas |-> Rewritten(f.quotas, c)]]
           ELSE \E g \in Left(f, c) : files' = [files EXCEPT ![n] = g]
  /\ Seen(n)
  /\ UNCHANGED <<box, snaps, ops, approval, store, thread, alone, requests>>

\* complete_mail_node_command; "failed" when a file could not be written or the first
\* report was lost.
ReportCommand(n, status) ==
  /\ agent[n].at = "cmd" /\ (agent[n].ok \/ status = "failed")
  /\ Admitted(n) /\ FaultUnless(status = "completed" \/ ~agent[n].ok)
  /\ cmds' = [cmds EXCEPT ![agent[n].i].status = status]
  /\ agent' = [agent EXCEPT ![n] = Idle]
  /\ Seen(n)
  /\ UNCHANGED <<box, snaps, ops, approval, store, files, thread, alone, requests>>

\* _queue_snapshot_retention: the query does not see the snapshot that has just become ready,
\* which the session has not flushed.
Retired(n) ==
  LET ready == {i \in DOMAIN snaps : snaps[i].node = n /\ snaps[i].status = "ready"}
  IN {i \in ready : Cardinality({j \in ready : j > i}) >= Keep}
\* A deletion for each, the newest first.
RetentionOps(n) ==
  LET retired == Retired(n)
  IN [k \in 1..Cardinality(retired) |->
        Operation(n, "delete", CHOOSE i \in retired : Cardinality({j \in retired : j >= i}) = k)]

\* complete_mail_node_operation for backup and delete.
ReportOperation(n) ==
  LET o == ops[agent[n].i]
      done == [ops EXCEPT ![agent[n].i].status = "completed"]
      after == [snaps EXCEPT ![o.snap].status = IF o.kind = "backup" THEN "ready" ELSE "deleted"]
  IN
  /\ agent[n].at = "op" /\ agent[n].ok /\ o.kind # "restore" /\ Admitted(n)
  /\ IF o.kind = "backup"
       THEN /\ snaps' = [i \in DOMAIN after |-> IF i \in Retired(n) THEN [after[i] EXCEPT !.status = "deleting"]
                                                                           ELSE after[i]]
            /\ ops' = done \o RetentionOps(n)
       ELSE snaps' = after /\ ops' = done
  /\ agent' = [agent EXCEPT ![n] = Idle]
  /\ Seen(n)
  /\ UNCHANGED <<box, cmds, approval, store, files, thread, alone, requests, faults>>

\* complete_mail_node_operation for a restore: the mailboxes of the source are loaded ...
MoveBegin(t, n) ==
  LET o == ops[agent[n].i]
      moved == {b \in Boxes : box[b].node = o.source}
  IN
  /\ thread[t] = Idle /\ agent[n].at = "op" /\ agent[n].ok /\ o.kind = "restore"
  /\ node[n].status = "active" /\ node[n].mail /\ node[n].backup
  /\ agent' = [agent EXCEPT ![n].at = "waiting"]
  /\ thread' = [u \in Threads |->
                  IF u = t THEN [at |-> "moving", node |-> n, i |-> agent[n].i, moved |-> [b \in moved |-> box[b]],
                                 alone |-> \A b \in moved : Changing(b) = {}]
                  ELSE IF \E b \in moved : u \in Changing(b) THEN [thread[u] EXCEPT !.alone = FALSE]
                  ELSE thread[u]]
  /\ UNCHANGED rows /\ UNCHANGED <<store, files, alone, requests, faults>>

\* ... and committed on the target, with a command for each and the routing maps rewritten; the
\* agent may have stopped waiting.
MoveCommit(t) ==
  LET r == thread[t]
      n == r.node
      moved == DOMAIN r.moved
      order == SetToSeq(moved)
  IN
  /\ r.at = "moving"
  /\ box' = [b \in Boxes |-> IF b \in moved THEN [box[b] EXCEPT !.node = n] ELSE box[b]]
  /\ cmds' = cmds \o [k \in DOMAIN order |-> Sync(n, order[k], r.moved[order[k]])]
  /\ alone' = [b \in Boxes |-> IF b \in moved THEN r.alone ELSE alone[b]]
  /\ ops' = [ops EXCEPT ![r.i].status = "completed"]
  /\ agent' = IF agent[n].at = "waiting" /\ agent[n].i = r.i THEN [agent EXCEPT ![n] = Idle] ELSE agent
  /\ thread' = [thread EXCEPT ![t] = Idle]
  /\ Seen(n)
  /\ UNCHANGED <<snaps, approval, store, files, requests, faults>>

\* The operation failed, its report was refused, lost or not answered within 30 seconds: it is
\* reported failed, and the agent goes on.
ReportFailure(n) ==
  LET o == ops[agent[n].i] IN
  /\ agent[n].at \in {"op", "waiting"} /\ Admitted(n) /\ FaultUnless(~agent[n].ok)
  /\ ops' = [ops EXCEPT ![agent[n].i].status = "failed"]
  /\ snaps' = CASE o.kind = "backup" -> [snaps EXCEPT ![o.snap].status = "failed"]
                [] o.kind = "delete" -> [snaps EXCEPT ![o.snap].status = "ready"]
                [] OTHER -> snaps
  /\ agent' = [agent EXCEPT ![n] = Idle]
  /\ Seen(n)
  /\ UNCHANGED <<box, cmds, approval, store, files, thread, alone, requests>>

\* The agent stops, or no report of it arrives: the row stays claimed for good.
AgentLost(n) ==
  /\ agent[n] # Idle /\ FaultUnless(~agent[n].ok)
  /\ agent' = [agent EXCEPT ![n] = Idle]
  /\ UNCHANGED rows /\ UNCHANGED <<store, files, thread, alone, requests>>

-----------------------------------------------------------------------------
Next ==
  \/ \E n \in Nodes :
       \/ ProvisionFails(n) \/ HeartbeatLate(n) \/ CreateBackup(n)
       \/ \E status \in {"active", "maintenance", "disabled"} : UpdateNodeStatus(n, status)
       \/ \E mail, backup, due \in BOOLEAN : Heartbeat(n, mail, backup, due)
       \/ ReportOperation(n) \/ ReportFailure(n) \/ AgentLost(n)
       \/ \E ok \in BOOLEAN : ClaimOperation(n, ok) \/ ClaimCommand(n, ok)
       \/ \E status \in {"completed", "failed"} : ReportCommand(n, status)
       \/ \E b \in Boxes : CreateMailbox(b, n)
  \/ \E t \in Threads :
       \/ \E b \in Boxes : \/ ChangeSettings(t, b) \/ SuspendMailbox(t, b)
                           \/ RestoreMailbox(t, b) \/ ArchiveMailbox(t, b)
       \/ \E a \in Approvals, o \in Owners : ApproveBegin(t, a, o) \/ RejectBegin(t, a, o)
       \/ \E m, n \in Nodes, s \in DOMAIN snaps :
            FailoverUnapproved(t, m, n, s) \/ \E a \in Approvals : FailoverApproved(t, m, n, s, a)
       \/ \E n \in Nodes : MoveBegin(t, n)
       \/ MoveCommit(t) \/ ChangeCommit(t) \/ DecideCommit(t) \/ FailoverCommit(t)
  \/ \E a \in Approvals :
       \/ \E o \in Owners, m, n \in Nodes, s \in DOMAIN snaps : RequestApproval(a, o, m, n, s)
       \/ ApproveExpired(a) \/ TimePasses(a)

Spec == Init /\ [][Next]_vars

-----------------------------------------------------------------------------
(* Properties. *)

Commands(n, b) == {i \in DOMAIN cmds : cmds[i].node = n /\ cmds[i].box = b}

\* Once the last command for a mailbox on its node has completed, the node's files say what the
\* mailbox row says, an account with the current settings if it is active and none otherwise
\* (queue_mailbox_sync, claim_mail_node_command, write_account), whatever failed or crashed
\* earlier and wherever the mailbox was.  Excepted is a mailbox whose last change overlapped
\* another, since its command carries the row as it was loaded, and one on a node where a later
\* command, of any mailbox, did not complete: it may have torn the files.
AccountsFollow ==
  \A b \in Boxes :
    LET n == box[b].node
        mine == Commands(n, b)
    IN /\ n # NoNode /\ alone[b] /\ mine # {} /\ cmds[Max(mine)].status = "completed"
       /\ \A j \in DOMAIN cmds : j > Max(mine) /\ cmds[j].node = n => cmds[j].status \in {"queued", "completed"}
       => LET wanted == IF box[b].status = "active" THEN box[b].settings ELSE 0
          IN files[n].accounts[b] = wanted /\ files[n].quotas[b] = wanted

\* Mailboxes move only on a report of the node they go to, of a restore of a snapshot of the node
\* that the report found them on, and while the agent waits for the answer that snapshot is what
\* its storage holds.  Unless the backend ran without dual control, the failover had an approval
\* that another owner than its requester gave for exactly this source, target and snapshot, and
\* no other failover used it, except one that had read it at the same time; a late second
\* approval does not bring it back (queue_mail_node_failover, consume_security_approval,
\* complete_mail_node_operation).  Failovers of one source to two targets may take turns with a
\* mailbox: the last to commit keeps it.
MoveApproved ==
  [][\A b \in Boxes :
       box[b].node # NoNode /\ box'[b].node # box[b].node =>
         \E t \in Threads :
           LET r == thread[t]
               o == ops[r.i]
           IN
           /\ r.at = "moving" /\ b \in DOMAIN r.moved /\ o.source = r.moved[b].node
           /\ o.kind = "restore" /\ o.node = box'[b].node /\ ops'[r.i].status = "completed"
           /\ snaps[o.snap].node = o.source
           /\ agent[o.node].at = "waiting" /\ agent[o.node].i = r.i => store[o.node] = o.snap
           /\ o.approval = Idle => FALSE \in DualControl
           /\ o.approval # Idle =>
                /\ o.approval.row.payload = <<o.source, o.node, o.snap>>
                /\ o.approval.row.approver \in Owners \ {o.approval.row.by}
                /\ \A j \in DOMAIN ops : j # r.i /\ ops[j].approval # Idle /\ ops[j].approval.id = o.approval.id
                     => approval[o.approval.id].raced]_vars
=============================================================================
