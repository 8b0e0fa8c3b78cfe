-------------------------- MODULE HostingDatabases --------------------------
(***************************************************************************)
(* One hosting node: the capacity that projects, databases, reservations   *)
(* and incoming failovers share, the managed databases, their backups, and *)
(* the node's agent, which does one job at a time on the database engine.  *)
(*                                                                         *)
(* A placement locks the node from its reading of the commitments to its   *)
(* commit.  Suspending, resuming and deleting do not.  Everything placed   *)
(* takes one unit of the node.                                             *)
(***************************************************************************)
EXTENDS Naturals, FiniteSets

CONSTANTS
  Threads,       \* requests and daemon passes that may be under way at the same time
  Projects, Reservations, Databases,
  Capacities,    \* values of allocatable_storage_mb an owner may set
  MaxRequests,   \* bound on the number of requests
  MaxBackups,    \* bound on the rows in the backup table
  MaxFaults      \* bound on crashes, failed commands and lost answers

\* Assumed of the constants.
HostingDatabasesAssumption ==
  /\ IsFiniteSet(Threads) /\ IsFiniteSet(Projects \cup Reservations \cup Databases)
  /\ Projects \cap Reservations = {} /\ Projects \cap Databases = {} /\ Reservations \cap Databases = {}
  /\ Capacities \subseteq Nat /\ Capacities # {}
  /\ MaxRequests \in Nat /\ MaxBackups \in Nat /\ MaxFaults \in Nat

VARIABLES
  capacity,     \* the node's allocatable amount
  project,      \* project -> where it is, seen from the node
  reservation,  \* reservation -> status
  db,           \* database -> row
  backups,      \* the HostingDatabaseBackup rows by id, which grows with created_at
  env,          \* DATABASE_* variables of the project the databases belong to
  role,         \* database -> its login role on the engine
  agent,        \* what the agent is doing
  thread,       \* per request: what it has admitted so far
  drift,        \* history: units added to the node without a look at its capacity
  requests, faults

vars == <<capacity, project, reservation, db, backups, env, role, agent, thread, drift, requests, faults>>
placed == <<capacity, project, reservation>>

Idle == [at |-> "idle"]
NoRow == [status |-> "none", op |-> "none", stored |-> 0, pending |-> 0]
NoBackup == [db |-> "none", op |-> "none", status |-> "none"]
NoRole == [exists |-> FALSE, login |-> FALSE, password |-> 0]

Init ==
  /\ capacity \in Capacities
  /\ project \in [Projects -> {"absent", "elsewhere"}]
  /\ reservation = [r \in Reservations |-> "none"]
  /\ db = [d \in Databases |-> NoRow]
  /\ backups = [i \in 1..MaxBackups |-> NoBackup] /\ env = [db |-> "none", password |-> 0]
  /\ role = [d \in Databases |-> NoRole]
  /\ agent = Idle /\ thread = [t \in Threads |-> Idle]
  /\ drift = 0 /\ requests = 0 /\ faults = 0

Counted == requests < MaxRequests /\ requests' = requests + 1
Fault == faults < MaxFaults /\ faults' = faults + 1
FaultUnless(fine) == IF fine THEN UNCHANGED faults ELSE Fault

-----------------------------------------------------------------------------
(* Capacity. *)

\* node_commitments: suspended projects and databases about to be deleted are left out,
\* projects on their way to the node are in.
Committed ==
  {p \in Projects : project[p] \in {"here", "incoming"}}
  \cup {r \in Reservations : reservation[r] = "active"}
  \cup {d \in Databases : db[d].status \notin {"none", "deleting"}}

\* _node_allocated, by which update_hosting_node goes: with suspended projects, without reservations.
Allocated ==
  {p \in Projects : project[p] \in {"here", "incoming", "suspended"}}
  \cup {d \in Databases : db[d].status \notin {"none", "deleting"}}

\* Mutant of NodeLocked: the node row is read without FOR UPDATE.
NodeNotLocked(t) == FALSE

\* The node row is locked by another transaction.
NodeLocked(t) == \E u \in Threads \ {t} : thread[u].at = "placing"

\* score_node and reserve_capacity: room for one more, given what of its own the transaction
\* has flushed.
Room(flushed) == Cardinality(Committed \cup flushed) < capacity

\* A transaction locks the node and finds room for its first item.
PlaceBegin(t, kind, item) ==
  /\ thread[t] = Idle /\ ~NodeLocked(t) /\ Room({}) /\ Counted
  /\ thread' = [thread EXCEPT ![t] = [at |-> "placing", kind |-> kind, items |-> {item}, last |-> item, blind |-> 0]]
  /\ UNCHANGED placed /\ UNCHANGED <<db, backups, env, role, agent, drift, faults>>

\* create_hosting_project; provision_project does the same for a project without a node.
CreateProject(t, p) == project[p] = "absent" /\ PlaceBegin(t, "project", p)
CreateDatabase(t, d) == db[d].status = "none" /\ PlaceBegin(t, "database", d)
Reserve(t, r) == reservation[r] = "none" /\ PlaceBegin(t, "reservation", r)

\* provision_project goes on to the project's database, with the project flushed.
ProvisionDatabase(t, d) ==
  LET r == thread[t] IN
  /\ r.at = "placing" /\ r.kind = "project" /\ r.items \cap Databases = {}
  /\ db[d].status = "none" /\ Room(r.items)
  /\ thread' = [thread EXCEPT ![t].items = @ \cup {d}]
  /\ UNCHANGED placed /\ UNCHANGED <<db, backups, env, role, agent, drift, requests, faults>>

\* The failover daemon and request_project_relocation: _queue_replacement finds room for a
\* project of another node.
FailoverBegin(t, p) == project[p] \in {"elsewhere", "waiting"} /\ PlaceBegin(t, "failover", p)

\* The same pass goes on to another project.  Making a new attempt flushes the last target; for
\* an attempt that was pending already, the last target is not flushed when the room is counted.
FailoverNext(t, p) ==
  LET r == thread[t]
      flushed == IF project[p] = "elsewhere" THEN r.items ELSE r.items \ {r.last}
  IN
  /\ r.at = "placing" /\ r.kind = "failover" /\ p \notin r.items
  /\ project[p] \in {"elsewhere", "waiting"} /\ Room(flushed)
  /\ thread' = [thread EXCEPT ![t].items = @ \cup {p}, ![t].last = p,
                              ![t].blind = IF flushed = r.items THEN 0 ELSE 1]
  /\ UNCHANGED placed /\ UNCHANGED <<db, backups, env, role, agent, drift, requests, faults>>

\* The transaction commits what it placed and unlocks the node.  A database starts with its
\* provisioning queued; provision_project also puts its password in the environment.
PlaceCommit(t) ==
  LET r == thread[t] IN
  /\ r.at = "placing"
  /\ project' = [p \in Projects |-> IF p \notin r.items THEN project[p]
                                    ELSE IF r.kind = "failover" THEN "incoming" ELSE "here"]
  /\ reservation' = [i \in Reservations |-> IF i \in r.items THEN "active" ELSE reservation[i]]
  /\ db' = [d \in Databases |-> IF d \in r.items THEN [status |-> "queued", op |-> "provision", stored |-> 1, pending |-> 0]
                                                 ELSE db[d]]
  /\ env' = IF r.kind = "project" /\ r.items \cap Databases # {}
              THEN [db |-> CHOOSE d \in r.items : d \in Databases, password |-> 1] ELSE env
  /\ thread' = [thread EXCEPT ![t] = Idle] /\ drift' = drift + r.blind
  /\ UNCHANGED <<capacity, backups, role, agent, requests, faults>>

\* A duplicate name, an exhausted package, a build in progress, an edge that fails: rolled back.
PlaceAbort(t) ==
  /\ thread[t] # Idle /\ thread' = [thread EXCEPT ![t] = Idle]
  /\ UNCHANGED placed /\ UNCHANGED <<db, backups, env, role, agent, drift, requests, faults>>

\* An attempt that finds no room or a deployment under way stays pending, without a target.
AttemptWaits(p) ==
  /\ project[p] = "elsewhere" /\ project' = [project EXCEPT ![p] = "waiting"]
  /\ \A t \in Threads : thread[t].at = "placing" => p \notin thread[t].items
  /\ UNCHANGED <<capacity, reservation, db, backups, env, role, agent, thread, drift, requests, faults>>

\* _finalize_attempt: cut over, or given up.
AttemptEnds(p, ok) ==
  /\ project[p] = "incoming" /\ project' = [project EXCEPT ![p] = IF ok THEN "here" ELSE "elsewhere"]
  /\ UNCHANGED <<capacity, reservation, db, backups, env, role, agent, thread, drift, requests, faults>>

\* update_hosting_project: suspending frees the share, resuming takes it back without a look.
UpdateProject(p, status) ==
  /\ project[p] = (IF status = "here" THEN "suspended" ELSE "here") /\ Counted
  /\ project' = [project EXCEPT ![p] = status]
  /\ drift' = IF status = "here" THEN drift + 1 ELSE drift
  /\ UNCHANGED <<capacity, reservation, db, backups, env, role, agent, thread, faults>>

\* release_reservation, or expires_at passes.
EndReservation(r, status) ==
  /\ reservation[r] = "active" /\ reservation' = [reservation EXCEPT ![r] = status]
  /\ UNCHANGED <<capacity, project, db, backups, env, role, agent, thread, drift, requests, faults>>

\* update_hosting_node reads without a lock; its UPDATE waits for the one who has it.
UpdateNodeBegin(t, c) ==
  /\ thread[t] = Idle /\ c # capacity /\ c >= Cardinality(Allocated) /\ Counted
  /\ thread' = [thread EXCEPT ![t] = [at |-> "node", capacity |-> c]]
  /\ UNCHANGED placed /\ UNCHANGED <<db, backups, env, role, agent, drift, faults>>

UpdateNodeCommit(t) ==
  /\ thread[t].at = "node" /\ ~NodeLocked(t)
  /\ capacity' = thread[t].capacity /\ thread' = [thread EXCEPT ![t] = Idle]
  /\ drift' = drift + (IF capacity > capacity' THEN capacity - capacity' ELSE 0)
  /\ UNCHANGED <<project, reservation, db, backups, env, role, agent, requests, faults>>

-----------------------------------------------------------------------------
(* Databases and backups.  Each request locks the row of its database. *)

DatabaseRequest(d) == Counted /\ UNCHANGED placed /\ UNCHANGED <<env, role, agent, thread, drift, faults>>

\* _queue_database_operation
QueueOperation(d, op) ==
  /\ db' = [db EXCEPT ![d].op = op, ![d].status = IF op = "delete" THEN "deleting" ELSE "queued",
                      ![d].pending = IF op = "rotate" THEN db[d].stored + 1 ELSE @]
  /\ DatabaseRequest(d) /\ UNCHANGED backups

RotatePassword(d) == db[d].status = "ready" /\ QueueOperation(d, "rotate")
SuspendDatabase(d) == db[d].status = "ready" /\ QueueOperation(d, "suspend")
ResumeDatabase(d) == db[d].status = "suspended" /\ QueueOperation(d, "resume")
DeleteDatabase(d) == db[d].status \in {"ready", "suspended", "failed"} /\ QueueOperation(d, "delete")

\* _has_active
HasActive(d) == \E i \in DOMAIN backups : backups[i].db = d /\ backups[i].status \in {"queued", "claimed"}

QueueBackup(d, op) ==
  /\ ~HasActive(d)
  /\ \E i \in DOMAIN backups :
       /\ (\A j \in DOMAIN backups : j >= i => backups[j] = NoBackup) /\ (i > 1 => backups[i - 1] # NoBackup)
       /\ backups' = [backups EXCEPT ![i] = [db |-> d, op |-> op, status |-> "queued"]]
  /\ DatabaseRequest(d) /\ UNCHANGED db

QueueDatabaseBackup(d) == db[d].status \in {"ready", "suspended"} /\ QueueBackup(d, "backup")

QueueDatabaseRestore(d) ==
  /\ db[d].status = "suspended" /\ QueueBackup(d, "restore")
  /\ \E i \in DOMAIN backups : backups[i].db = d /\ backups[i].op = "backup" /\ backups[i].status = "succeeded"

-----------------------------------------------------------------------------
(* The agent polls for database operations, then for backups; one may be queued between. *)

\* What the engine holds once an operation has run: postgres_operation_v4, mysql_operation.
Operated(d) ==
  LET r == role[d] IN
  CASE db[d].op = "provision" -> [exists |-> TRUE, login |-> TRUE, password |-> db[d].stored]
    [] db[d].op = "rotate" -> [exists |-> r.exists, login |-> TRUE, password |-> db[d].pending]
    [] db[d].op = "suspend" -> [exists |-> r.exists, login |-> FALSE, password |-> r.password]
    [] db[d].op = "resume" -> [exists |-> r.exists, login |-> TRUE, password |-> r.password]
    [] db[d].op = "delete" -> NoRole

Waiting == {d \in Databases : db[d].status \in {"queued", "deleting"}}

\* claim_database_operation and process_database: the agent claims and works; ok is FALSE when a
\* command fails, with or without the change made.  Counted again, a deletion takes its share back.
ClaimDatabase(d, ok, changed) ==
  /\ agent = Idle /\ d \in Waiting /\ (ok => changed) /\ FaultUnless(ok)
  /\ db' = [db EXCEPT ![d].status = "working"]
  /\ drift' = IF db[d].status = "deleting" THEN drift + 1 ELSE drift
  /\ role' = IF changed THEN [role EXCEPT ![d] = Operated(d)] ELSE role
  /\ agent' = [at |-> "database", db |-> d, ok |-> ok]
  /\ UNCHANGED placed /\ UNCHANGED <<backups, env, thread, requests>>

\* report_database_operation with success: a rotated password becomes the stored one and goes to
\* the environment; a deleted row takes its backup rows along.
ReportDatabase ==
  LET d == agent.db
      row == db[d]
      stored == IF row.op = "rotate" THEN row.pending ELSE row.stored
  IN
  /\ agent.at = "database" /\ agent.ok
  /\ IF row.op = "delete"
       THEN /\ db' = [db EXCEPT ![d] = NoRow] /\ UNCHANGED env
            /\ backups' = [i \in DOMAIN backups |-> IF backups[i].db = d THEN NoBackup ELSE backups[i]]
       ELSE /\ db' = [db EXCEPT ![d] = [status |-> IF row.op = "suspend" THEN "suspended" ELSE "ready",
                                        op |-> "none", stored |-> stored, pending |-> 0]]
            /\ env' = IF row.op = "suspend" THEN env ELSE [db |-> d, password |-> stored]
            /\ UNCHANGED backups
  /\ agent' = Idle
  /\ UNCHANGED placed /\ UNCHANGED <<role, thread, drift, requests, faults>>

\* The same with failure, also sent when the report of success could not be delivered.
ReportDatabaseFailed ==
  LET d == agent.db IN
  /\ agent.at = "database" /\ FaultUnless(~agent.ok)
  /\ db' = [db EXCEPT ![d].status = "failed", ![d].op = "none", ![d].pending = 0]
  /\ agent' = Idle
  /\ UNCHANGED placed /\ UNCHANGED <<backups, env, role, thread, drift, requests>>

\* Mutant of RestoreAllowed: the status at queueing time is trusted.
RestoreAllowedOnce(d) == TRUE

\* claim_database_backup looks at the database again.
RestoreAllowed(d) == db[d].status = "suspended"

\* The oldest queued backup or restore; a restore of a database that is no longer suspended fails.
ClaimBackup ==
  /\ agent = Idle
  /\ \E i \in DOMAIN backups :
       LET go == backups[i].op = "backup" \/ RestoreAllowed(backups[i].db) IN
       /\ backups[i].status = "queued" /\ \A j \in DOMAIN backups : j < i => backups[j].status # "queued"
       /\ backups' = [backups EXCEPT ![i].status = IF go THEN "claimed" ELSE "failed"]
       /\ agent' = IF go THEN [at |-> "backup", i |-> i] ELSE Idle
  /\ UNCHANGED placed /\ UNCHANGED <<db, env, role, thread, drift, requests, faults>>

\* process_database_backup and report_database_backup.
ReportBackup(ok) ==
  /\ agent.at = "backup" /\ FaultUnless(ok)
  /\ backups' = [backups EXCEPT ![agent.i].status = IF ok THEN "succeeded" ELSE "failed"]
  /\ agent' = Idle
  /\ UNCHANGED placed /\ UNCHANGED <<db, env, role, thread, drift, requests>>

\* The agent dies, or none of its reports arrives: what it claimed stays claimed.
AgentLost ==
  /\ agent # Idle /\ Fault /\ agent' = Idle
  /\ UNCHANGED placed /\ UNCHANGED <<db, backups, env, role, thread, drift, requests>>

-----------------------------------------------------------------------------
Next ==
  \/ \E t \in Threads :
       \/ \E p \in Projects : CreateProject(t, p) \/ FailoverBegin(t, p) \/ FailoverNext(t, p)
       \/ \E d \in Databases : CreateDatabase(t, d) \/ ProvisionDatabase(t, d)
       \/ \E r \in Reservations : Reserve(t, r)
       \/ \E c \in Capacities : UpdateNodeBegin(t, c)
       \/ PlaceCommit(t) \/ PlaceAbort(t) \/ UpdateNodeCommit(t)
  \/ \E p \in Projects :
       \/ AttemptWaits(p)
       \/ \E ok \in BOOLEAN : AttemptEnds(p, ok)
       \/ \E s \in {"here", "suspended"} : UpdateProject(p, s)
  \/ \E r \in Reservations, s \in {"released", "expired"} : EndReservation(r, s)
  \/ \E d \in Databases :
       \/ RotatePassword(d) \/ SuspendDatabase(d) \/ ResumeDatabase(d) \/ DeleteDatabase(d)
       \/ QueueDatabaseBackup(d) \/ QueueDatabaseRestore(d)
       \/ \E ok, changed \in BOOLEAN : ClaimDatabase(d, ok, changed)
  \/ ReportDatabase \/ ReportDatabaseFailed \/ ClaimBackup \/ AgentLost
  \/ \E ok \in BOOLEAN : ReportBackup(ok)

Spec == Init /\ [][Next]_vars

-----------------------------------------------------------------------------
(* Properties. *)

\* The node never holds more than its capacity and what came to it without a look at the
\* capacity: resumed projects, deletions that went to work, reductions, and the one project
\* that a failover pass counts too few (rank_nodes, reserve_capacity, node_commitments).  Two
\* placements never share the last free unit.
PlacementFits == Cardinality(Committed) <= capacity + drift

\* The engine does what the row says: a ready database lets its role in with the stored
\* password, which is also the one in the environment; a suspended one keeps it out, and a
\* restore runs only while it is out; after a deletion no role is left
\* (report_database_operation, claim_database_backup, postgres_operation_v4, mysql_operation).
EngineMatches ==
  \A d \in Databases :
    /\ db[d].status = "ready" =>
         /\ role[d] = [exists |-> TRUE, login |-> TRUE, password |-> db[d].stored]
         /\ env.db = d => env.password = db[d].stored
    /\ db[d].status = "suspended" => role[d] = [exists |-> TRUE, login |-> FALSE, password |-> db[d].stored]
    /\ db[d].status = "none" => role[d] = NoRole
    /\ agent.at = "backup" /\ backups[agent.i].db = d /\ backups[agent.i].op = "restore" => ~role[d].login
=============================================================================
