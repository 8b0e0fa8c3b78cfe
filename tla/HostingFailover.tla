-------------------------- MODULE HostingFailover --------------------------
(***************************************************************************)
(* One hosted project of the control plane, its deployments, its failover  *)
(* attempts and its runtime operations, the agents of the nodes that carry *)
(* them out, and the daemon that watches the nodes and moves the project.  *)
(*                                                                         *)
(* An API request holds the row lock of the project and is one step.  The  *)
(* failover pass of the daemon locks no project: it loads the rows, talks  *)
(* to the edge and commits, so it is split where other transactions can    *)
(* commit in between.  An agent is one thread; every answer the control    *)
(* plane sends it can be lost, and it can crash between any two calls.     *)
(***************************************************************************)
EXTENDS Naturals, Sequences, FiniteSets

CONSTANTS
  Nodes,          \* the hosting nodes
  Edge,           \* TRUE if the project has a public hostname
  MaxReleases,    \* bound on the deployments of the project
  MaxMoves,       \* bound on its failover attempts
  MaxOperations,  \* bound on its runtime operations
  OperationLimit, \* claimed operations a node may have
  MaxSwitches     \* bound on manual changes of a node or of the project

ASSUME HostingAssumption ==
  /\ Edge \in BOOLEAN
  /\ {MaxReleases, MaxMoves, MaxOperations, OperationLimit, MaxSwitches} \subseteq Nat

VARIABLES
  project,      \* the HostingProject row
  deployments,  \* HostingDeployment rows, the position is the release number
  attempts,     \* HostingFailoverAttempt rows, oldest first
  operations,   \* HostingProjectOperation rows, oldest first
  nodes,        \* HostingNode and HostingNodeHealthState rows
  container,    \* the release whose container a node runs, 0 if none
  backup,       \* the stopped container an activation keeps for a rollback
  agent,        \* what the agent of a node is doing
  daemon,       \* the failover pass of the health daemon
  switches      \* manual changes made so far

vars == <<project, deployments, attempts, operations, nodes, container, backup,
          agent, daemon, switches>>

None == 0
Pass == [pc |-> "idle"]   \* the daemon between two passes
Idle == [pc |-> "idle", job |-> None, was |-> None]
Active == {"queued", "claimed", "running"}
Moving == {"pending", "deploying", "edge_pending"}

Statuses == {"configured", "deploying", "running", "failed", "suspended"}
Projects == [node : Nodes, status : Statuses,
             policy : {"manual", "stateless_auto"}, database : BOOLEAN, consented : BOOLEAN]
Deployments == [node : Nodes, status : Active \cup {"healthy", "failed"},
                reset : BOOLEAN, origin : BOOLEAN]
Attempts == [source : Nodes, target : Nodes \cup {None}, release : 0..MaxReleases,
             status : Moving \cup {"completed", "failed", "recovery_required", "superseded", "resolved"}]
Operations == [node : Nodes, kind : {"retire", "restart", "logs"},
               status : {"queued", "claimed", "succeeded", "failed"}]
NodeRows == [status : {"active", "draining", "offline"}, accepts : BOOLEAN, automation : BOOLEAN,
             health : {"healthy", "unhealthy"}, autoDrained : BOOLEAN]
AgentStates == [pc : {"idle", "polled", "operate", "start", "started", "failing"},
                job : 0..(MaxReleases + MaxOperations), was : 0..MaxReleases]

TypeOK ==
  /\ project \in Projects
  /\ deployments \in Seq(Deployments) /\ Len(deployments) <= MaxReleases
  /\ attempts \in Seq(Attempts) /\ Len(attempts) <= MaxMoves
  /\ operations \in Seq(Operations) /\ Len(operations) <= MaxOperations
  /\ nodes \in [Nodes -> NodeRows]
  /\ container \in [Nodes -> 0..MaxReleases] /\ backup \in [Nodes -> 0..MaxReleases]
  /\ agent \in [Nodes -> AgentStates]
  /\ daemon \in {Pass} \cup [pc : {"queue", "edge"}, seen : Statuses, move : 0..MaxMoves, row : Attempts]
  /\ switches \in 0..MaxSwitches

Init ==
  /\ \E n \in Nodes, stateless \in BOOLEAN :
       project = [node |-> n, status |-> "configured", database |-> FALSE, consented |-> stateless,
                  policy |-> IF stateless THEN "stateless_auto" ELSE "manual"]
  /\ deployments = <<>> /\ attempts = <<>> /\ operations = <<>>
  /\ nodes = [n \in Nodes |-> [status |-> "active", accepts |-> TRUE, automation |-> TRUE,
                               health |-> "healthy", autoDrained |-> FALSE]]
  /\ container = [n \in Nodes |-> None] /\ backup = [n \in Nodes |-> None]
  /\ agent = [n \in Nodes |-> Idle]
  /\ daemon = Pass
  /\ switches = 0

-----------------------------------------------------------------------------
(* What the queries of the control plane return. *)

ActiveDeployment == \E r \in DOMAIN deployments : deployments[r].status \in Active
Healthy == {r \in DOMAIN deployments : deployments[r].status = "healthy"}

\* The newest open attempt that moves the project off a node, 0 if there is none.
AttemptFrom(n) ==
  LET open == {i \in DOMAIN attempts : /\ attempts[i].source = n
                                       /\ attempts[i].status \in Moving \cup {"recovery_required", "failed"}}
  IN IF open = {} THEN None ELSE CHOOSE i \in open : \A j \in open : j <= i

\* The attempt a deployment report looks up: the one its release belongs to.
MoveOf(r) == {i \in DOMAIN attempts : attempts[i].release = r /\ attempts[i].status \in Moving}

\* Capacity, telemetry and security posture decide too; any open node may be refused for them.
Eligible(n) == nodes[n].status = "active" /\ nodes[n].accepts

NewDeployment(n, reset) ==
  deployments' = Append(deployments, [node |-> n, status |-> "queued", reset |-> reset, origin |-> FALSE])

-----------------------------------------------------------------------------
(* Requests of the project's owner and of the platform owner. *)

CreateDeployment ==
  /\ project.status # "suspended" /\ ~ActiveDeployment
  /\ Len(deployments) < MaxReleases
  /\ NewDeployment(project.node, FALSE)
  /\ project' = [project EXCEPT !.status = "deploying"]
  /\ UNCHANGED <<attempts, operations, nodes, container, backup, agent, daemon, switches>>

QueueDeployment == CreateDeployment
RollbackDeployment == Healthy # {} /\ CreateDeployment

\* request_project_relocation: an answered request has queued the replacement.
Relocate ==
  LET old == AttemptFrom(project.node)
      kept == IF old = None THEN attempts ELSE [attempts EXCEPT ![old].status = "superseded"]
  IN /\ project.policy = "stateless_auto" /\ project.status # "suspended"
     /\ old # None => attempts[old].status \in {"recovery_required", "failed"}
     /\ ~project.database /\ Healthy # {} /\ ~ActiveDeployment
     /\ Len(deployments) < MaxReleases /\ Len(attempts) < MaxMoves
     /\ \E t \in Nodes \ {project.node} :
          /\ Eligible(t) /\ NewDeployment(t, TRUE)
          /\ attempts' = Append(kept, [source |-> project.node, target |-> t,
                                       release |-> Len(deployments) + 1, status |-> "deploying"])
     /\ project' = [project EXCEPT !.status = "deploying"]
     /\ UNCHANGED <<operations, nodes, container, backup, agent, daemon, switches>>

UpdateProject ==
  /\ switches < MaxSwitches /\ switches' = switches + 1
  /\ \E s \in {"configured", "suspended"} : project' = [project EXCEPT !.status = s]
  /\ UNCHANGED <<deployments, attempts, operations, nodes, container, backup, agent, daemon>>

UpdateFailoverPolicy ==
  /\ switches < MaxSwitches /\ switches' = switches + 1
  /\ \E p \in {"manual", "stateless_auto"} :
       /\ project' = [project EXCEPT !.policy = p, !.consented = @ \/ p = "stateless_auto"]
       /\ attempts' = IF p = "manual" THEN attempts
                      ELSE [i \in DOMAIN attempts |->
                              IF attempts[i].source = project.node /\ attempts[i].status = "recovery_required"
                              THEN [attempts[i] EXCEPT !.status = "superseded"] ELSE attempts[i]]
  /\ UNCHANGED <<deployments, operations, nodes, container, backup, agent, daemon>>

\* The managed database of another component that ties the project to its node.
AttachDatabase ==
  /\ switches < MaxSwitches /\ switches' = switches + 1
  /\ project' = [project EXCEPT !.database = ~@]
  /\ UNCHANGED <<deployments, attempts, operations, nodes, container, backup, agent, daemon>>

UpdateNode(n) ==
  /\ switches < MaxSwitches /\ switches' = switches + 1
  /\ \E s \in {"active", "draining", "offline"}, a \in BOOLEAN :
       nodes' = [nodes EXCEPT ![n] = [@ EXCEPT !.status = s, !.accepts = a, !.automation = FALSE,
                                               !.autoDrained = FALSE]]
  /\ UNCHANGED <<project, deployments, attempts, operations, container, backup, agent, daemon>>

QueueOperation(kind) ==
  /\ Len(operations) < MaxOperations
  /\ \A i \in DOMAIN operations : operations[i].status \in {"queued", "claimed"} =>
       kind = "logs" /\ operations[i].kind # "logs"
  /\ operations' = Append(operations, [node |-> project.node, kind |-> kind, status |-> "queued"])
  /\ UNCHANGED <<project, deployments, attempts, nodes, container, backup, agent, daemon, switches>>

RestartProject == project.status = "running" /\ QueueOperation("restart")
RequestLogs == project.status \in {"running", "deploying", "failed"} /\ QueueOperation("logs")

-----------------------------------------------------------------------------
(* The agent of node n: one thread that polls for an operation, then for a  *)
(* deployment, and works on what it got before it polls again.              *)

Reachable(n) == nodes[n].status # "offline"
Claimed(n) == {i \in DOMAIN operations : operations[i].node = n /\ operations[i].status = "claimed"}
Queued(n) == {i \in DOMAIN operations : operations[i].node = n /\ operations[i].status = "queued"}

\* Aging lets any queued operation go first, except that logs never pass a retirement.
Next1(n) == {i \in Queued(n) : operations[i].kind = "logs" =>
                                 \A j \in Queued(n) : operations[j].kind # "retire"}

\* A retirement of the project's own node, or other work on a node it left, is refused.
Refused(n, i) == (operations[i].kind = "retire") = (project.node = n)

PollOperation(n) ==
  /\ agent[n].pc = "idle" /\ Reachable(n)
  /\ \/ /\ Cardinality(Claimed(n)) >= OperationLimit \/ Queued(n) = {}
        /\ agent' = [agent EXCEPT ![n].pc = "polled"]
        /\ UNCHANGED operations
     \/ /\ Cardinality(Claimed(n)) < OperationLimit
        /\ \E i \in Next1(n) :
             \/ /\ Refused(n, i)
                /\ operations' = [operations EXCEPT ![i].status = "failed"]
                /\ agent' = [agent EXCEPT ![n].pc = "polled"]
             \/ /\ ~Refused(n, i)
                /\ operations' = [operations EXCEPT ![i].status = "claimed"]
                /\ \/ agent' = [agent EXCEPT ![n] = [pc |-> "operate", job |-> i, was |-> None]]
                   \/ UNCHANGED agent   \* the answer is lost
  /\ UNCHANGED <<project, deployments, attempts, nodes, container, backup, daemon, switches>>

\* The work and its report; a report that never arrives leaves the row claimed.
Operate(n) ==
  LET i == agent[n].job IN
  /\ agent[n].pc = "operate"
  /\ container' = IF operations[i].kind = "retire" THEN [container EXCEPT ![n] = None] ELSE container
  /\ \E s \in {"succeeded", "failed", "claimed"} :
       /\ operations[i].kind # "retire" /\ container[n] = None => s # "succeeded"
       /\ ~Reachable(n) => s = "claimed"
       /\ operations' = [operations EXCEPT ![i].status = s]
  /\ agent' = [agent EXCEPT ![n] = Idle]
  /\ UNCHANGED <<project, deployments, attempts, nodes, backup, daemon, switches>>

ClaimDeployment(n) ==
  LET queued == {r \in DOMAIN deployments : deployments[r].node = n /\ deployments[r].status = "queued"}
      Finish(r, s, p) == /\ deployments' = [deployments EXCEPT ![r].status = s]
                         /\ project' = [project EXCEPT !.status = p]
  IN /\ agent[n].pc = "polled" /\ Reachable(n)
     /\ \/ /\ queued = {}
           /\ agent' = [agent EXCEPT ![n] = Idle]
           /\ UNCHANGED <<project, deployments>>
        \/ \E r \in queued :
             /\ \A q \in queued : r <= q
             /\ \/ /\ project.status = "suspended" /\ Finish(r, "failed", "suspended")
                   /\ agent' = [agent EXCEPT ![n] = Idle]
                \/ /\ project.status # "suspended" /\ Finish(r, "failed", "failed")  \* undecryptable environment
                   /\ agent' = [agent EXCEPT ![n] = Idle]
                \/ /\ project.status # "suspended" /\ Finish(r, "claimed", "deploying")
                   /\ \/ agent' = [agent EXCEPT ![n] = [pc |-> "start", job |-> r, was |-> container[n]]]
                      \/ agent' = [agent EXCEPT ![n] = Idle]   \* the answer is lost
     /\ UNCHANGED <<attempts, operations, nodes, container, backup, daemon, switches>>

\* The candidate takes the name of the running container, which is kept as a
\* backup, or removed with its data when the release resets the volume.
StartCandidate(n) ==
  LET r == agent[n].job IN
  /\ agent[n].pc = "start"
  /\ \/ /\ agent' = [agent EXCEPT ![n].pc = "failing"]   \* before anything was touched
        /\ UNCHANGED <<container, backup>>
     \/ /\ backup' = [backup EXCEPT ![n] = IF deployments[r].reset THEN None ELSE container[n]]
        /\ \/ /\ container' = [container EXCEPT ![n] = r]
              /\ agent' = [agent EXCEPT ![n].pc = "started"]
           \/ /\ container' = [container EXCEPT ![n] = None]
              /\ agent' = [agent EXCEPT ![n].pc = "failing"]
  /\ UNCHANGED <<project, deployments, attempts, operations, nodes, daemon, switches>>

-----------------------------------------------------------------------------
(* report_deployment_status: what the control plane does with a report. *)

\* Where the project stands when a release failed: its old placement, if that is up.
Fallback(r, rejected) ==
  LET up == IF MoveOf(r) # {}
            THEN \E i \in MoveOf(r) : nodes[attempts[i].source].status = "active"
            ELSE ~rejected /\ Healthy # {}
  IN IF up THEN "running" ELSE "failed"

ReportAccepted(n, r, s) ==
  /\ Reachable(n)
  /\ IF project.status = "suspended" THEN s = "failed"
     ELSE deployments[r].status \in {"claimed", "running"} \cup (IF s = "healthy" THEN {"healthy"} ELSE {})

ReportEffect(n, r, s, origin) ==
  \/ /\ project.status = "suspended" /\ Reachable(n)
     /\ deployments' = IF deployments[r].status \in {"claimed", "running"}
                       THEN [deployments EXCEPT ![r].status = "failed"] ELSE deployments
     /\ UNCHANGED project
  \/ /\ project.status # "suspended" /\ ReportAccepted(n, r, s)
     /\ LET rejected == s = "healthy" /\ origin = "rejected"
            now == IF rejected THEN "failed" ELSE s
        IN /\ deployments' = [deployments EXCEPT ![r] =
                [deployments[r] EXCEPT !.status = now,
                   !.origin = deployments[r].origin \/ (s = "healthy" /\ origin = "trusted")]]
           /\ project' = [project EXCEPT !.status =
                CASE now = "failed" -> Fallback(r, rejected)
                  [] now = "running" -> "deploying"
                  [] OTHER -> IF MoveOf(r) # {} THEN "deploying" ELSE "running"]
  \/ /\ ~ReportAccepted(n, r, s) /\ (project.status # "suspended" \/ ~Reachable(n))
     /\ UNCHANGED <<project, deployments>>

\* The two reports of activate before the release counts as healthy; a refused or
\* lost answer, or a failed health check, sends the agent into its error path.
ReportRunning(n) ==
  /\ agent[n].pc = "started" /\ deployments[agent[n].job].status # "running"
  /\ ReportEffect(n, agent[n].job, "running", "none")
  /\ \/ ReportAccepted(n, agent[n].job, "running") /\ UNCHANGED agent
     \/ agent' = [agent EXCEPT ![n].pc = "failing"]
  /\ UNCHANGED <<attempts, operations, nodes, container, backup, daemon, switches>>

ReportHealthy(n) ==
  /\ agent[n].pc = "started" /\ deployments[agent[n].job].status = "running"
  /\ \E origin \in {"none", "trusted", "rejected"} : ReportEffect(n, agent[n].job, "healthy", origin)
  /\ \/ /\ ReportAccepted(n, agent[n].job, "healthy")
        /\ backup' = [backup EXCEPT ![n] = None] /\ agent' = [agent EXCEPT ![n] = Idle]
     \/ agent' = [agent EXCEPT ![n].pc = "failing"] /\ UNCHANGED backup
  /\ UNCHANGED <<attempts, operations, nodes, container, daemon, switches>>

HealthCheckFails(n) ==
  /\ agent[n].pc = "started"
  /\ agent' = [agent EXCEPT ![n].pc = "failing"]
  /\ UNCHANGED <<project, deployments, attempts, operations, nodes, container, backup, daemon, switches>>

\* restore_previous removes whatever holds the name and brings the backup back.
RestorePrevious(n) ==
  /\ container' = [container EXCEPT ![n] = backup[n]]
  /\ backup' = [backup EXCEPT ![n] = None]

ReportFailed(n) ==
  /\ agent[n].pc = "failing"
  /\ RestorePrevious(n)
  /\ \/ ReportEffect(n, agent[n].job, "failed", "none")
     \/ UNCHANGED <<project, deployments>>   \* the report is lost
  /\ agent' = [agent EXCEPT ![n] = Idle]
  /\ UNCHANGED <<attempts, operations, nodes, daemon, switches>>

\* A restarted agent takes up nothing: its claimed rows stay claimed.
Crash(n) ==
  /\ agent[n].pc \notin {"idle", "polled"}
  /\ \E c \in {container[n]} \cup (IF agent[n].pc = "start" THEN {None} ELSE {}) :
       container' = [container EXCEPT ![n] = c]
  /\ agent' = [agent EXCEPT ![n] = Idle]
  /\ backup' = [backup EXCEPT ![n] = None]
  /\ UNCHANGED <<project, deployments, attempts, operations, nodes, daemon, switches>>

-----------------------------------------------------------------------------
(* The health daemon: one pass over the nodes, then one over the failovers. *)

Retiring(n) == \E i \in DOMAIN operations : /\ operations[i].node = n /\ operations[i].kind = "retire"
                                            /\ operations[i].status \in {"queued", "claimed"}

\* reconcile_node_health.  A transition waits for the state to have lasted, so it
\* takes an earlier pass that saw the same state.
HealthPass(n) ==
  /\ daemon.pc = "idle" /\ nodes[n].automation
  /\ \E up \in BOOLEAN :
       LET seen == IF up /\ ~Retiring(n) THEN "healthy" ELSE "unhealthy"
           open == nodes[n].status = "active" /\ nodes[n].accepts
           row == [nodes[n] EXCEPT !.health = seen]
       IN \/ nodes' = [nodes EXCEPT ![n] = row]
          \/ /\ seen = nodes[n].health /\ open = (seen = "unhealthy")
             /\ nodes' = [nodes EXCEPT ![n] =
                  [row EXCEPT !.status = IF open THEN "draining" ELSE "active", !.accepts = ~open,
                              !.autoDrained = open]]
  /\ UNCHANGED <<project, deployments, attempts, operations, container, backup, agent, daemon, switches>>

Drained(n) == /\ nodes[n].status = "draining" /\ ~nodes[n].accepts /\ nodes[n].automation
              /\ nodes[n].health = "unhealthy" /\ nodes[n].autoDrained

\* The attempt row a pass commits: a new one, or the one it loaded.
Save(i, row) == attempts' = IF i = None THEN Append(attempts, row) ELSE [attempts EXCEPT ![i] = row]

\* Mutant: a failover is prepared whatever the owner's policy is.
PreparedWithoutPolicy ==
  [source |-> project.node, target |-> None, release |-> None,
   status |-> IF ~project.database /\ Healthy # {} THEN "pending" ELSE "recovery_required"]

\* _prepare_attempt: only a stateless project with a healthy release moves by itself.
Prepared ==
  [source |-> project.node, target |-> None, release |-> None,
   status |-> IF project.policy = "stateless_auto" /\ ~project.database /\ Healthy # {}
              THEN "pending" ELSE "recovery_required"]

FailoverBegin ==
  LET i == AttemptFrom(project.node)
      row == IF i = None THEN Prepared ELSE attempts[i]
  IN /\ daemon.pc = "idle" /\ Drained(project.node) /\ project.status # "suspended"
     /\ i = None => Len(attempts) < MaxMoves
     /\ \/ /\ i = None /\ (row.status # "pending" \/ ActiveDeployment)
           /\ Save(i, row) /\ UNCHANGED daemon
        \/ /\ row.status = "pending" /\ ~ActiveDeployment
           /\ daemon' = [pc |-> "queue", seen |-> project.status, move |-> i, row |-> row]
           /\ UNCHANGED attempts
     /\ UNCHANGED <<project, deployments, operations, nodes, container, backup, agent, switches>>

\* _queue_replacement, after it found no deployment in progress.
FailoverQueue ==
  /\ daemon.pc = "queue" /\ (daemon.move = None => Len(attempts) < MaxMoves)
  /\ \/ /\ Save(daemon.move, daemon.row)   \* no node can take it
        /\ UNCHANGED <<project, deployments>>
     \/ \E t \in Nodes \ {daemon.row.source} :
          /\ Eligible(t) /\ Len(deployments) < MaxReleases
          /\ NewDeployment(t, TRUE)
          /\ Save(daemon.move, [daemon.row EXCEPT !.target = t, !.release = Len(deployments) + 1,
                                                  !.status = "deploying"])
          /\ project' = [project EXCEPT !.status = IF daemon.seen = "deploying" THEN @ ELSE "deploying"]
  /\ daemon' = Pass
  /\ UNCHANGED <<operations, nodes, container, backup, agent, switches>>

\* Mutant: the pass hands over as soon as the replacement has not failed.
FailoverFinalizeEarly ==
  /\ daemon.pc = "idle"
  /\ \E i \in DOMAIN attempts :
       /\ attempts[i].status \in {"deploying", "edge_pending"} /\ project.node # attempts[i].target
       /\ deployments[attempts[i].release].status # "failed"
       /\ daemon' = [pc |-> "edge", seen |-> project.status, move |-> i, row |-> attempts[i]]
  /\ UNCHANGED <<project, attempts, deployments, operations, nodes, container, backup, agent, switches>>

\* _finalize_attempt, up to the calls to the edge.
FailoverFinalize ==
  /\ daemon.pc = "idle"
  /\ \E i \in DOMAIN attempts :
       /\ attempts[i].status \in {"deploying", "edge_pending"} /\ project.node # attempts[i].target
       /\ LET d == deployments[attempts[i].release] IN
          \/ /\ d.status = "failed"
             /\ attempts' = [attempts EXCEPT ![i].status = "failed"]
             /\ project' = [project EXCEPT !.status =
                  IF nodes[attempts[i].source].status = "active" THEN "running" ELSE "failed"]
             /\ UNCHANGED daemon
          \/ /\ d.status = "healthy" /\ d.origin
             /\ daemon' = [pc |-> "edge", seen |-> project.status, move |-> i, row |-> attempts[i]]
             /\ UNCHANGED <<project, attempts>>
  /\ UNCHANGED <<deployments, operations, nodes, container, backup, agent, switches>>

\* The edge answers and the pass commits: cut over, or wait for the edge.  Columns
\* that the pass did not change keep what others committed meanwhile.
Cutover ==
  LET m == daemon.row IN
  /\ project' = [project EXCEPT !.node = m.target,
                                !.status = IF daemon.seen = "running" THEN @ ELSE "running"]
  /\ Save(daemon.move, [m EXCEPT !.status = "completed"])
  /\ IF Retiring(m.source) THEN UNCHANGED operations
     ELSE /\ Len(operations) < MaxOperations
          /\ operations' = Append(operations, [node |-> m.source, kind |-> "retire", status |-> "queued"])

FailoverEdge ==
  /\ daemon.pc = "edge"
  /\ \/ (Edge => container[daemon.row.target] # None) /\ Cutover
     \/ /\ Edge /\ Save(daemon.move, [daemon.row EXCEPT !.status = "edge_pending"])
        /\ UNCHANGED <<project, operations>>
  /\ daemon' = Pass
  /\ UNCHANGED <<deployments, nodes, container, backup, agent, switches>>

FailoverResolve ==
  /\ daemon.pc = "idle"
  /\ \E i \in DOMAIN attempts :
       /\ attempts[i].status \in {"pending", "recovery_required"} /\ attempts[i].release = None
       /\ ~Drained(attempts[i].source)
       /\ attempts' = [attempts EXCEPT ![i].status = "resolved"]
  /\ UNCHANGED <<project, deployments, operations, nodes, container, backup, agent, daemon, switches>>

\* A crash or a failed commit of the pass rolls it back.
FailoverRollback ==
  /\ daemon.pc # "idle" /\ daemon' = Pass
  /\ UNCHANGED <<project, deployments, attempts, operations, nodes, container, backup, agent, switches>>

-----------------------------------------------------------------------------
AgentStep(n) == \/ PollOperation(n) \/ Operate(n) \/ ClaimDeployment(n) \/ StartCandidate(n)
                \/ ReportRunning(n) \/ ReportHealthy(n) \/ HealthCheckFails(n) \/ ReportFailed(n) \/ Crash(n)

Next ==
  \/ QueueDeployment \/ RollbackDeployment \/ Relocate \/ UpdateProject \/ UpdateFailoverPolicy
  \/ AttachDatabase \/ RestartProject \/ RequestLogs
  \/ FailoverBegin \/ FailoverQueue \/ FailoverFinalize \/ FailoverEdge \/ FailoverResolve \/ FailoverRollback
  \/ \E n \in Nodes : UpdateNode(n) \/ HealthPass(n) \/ AgentStep(n)

Spec == Init /\ [][Next]_vars

-----------------------------------------------------------------------------
(* Properties. *)

\* A project that the control plane calls running has a release that its own node
\* reported healthy, however deployments, relocations, suspensions and the daemon's
\* stale writes overtake each other.
RunningHasRelease ==
  project.status = "running" => \E r \in Healthy : deployments[r].node = project.node

\* A project whose owner never opted in to stateless failover is never moved and
\* keeps its /data: no release resets the volume and no operation retires a copy.
DataKeptWithoutOptIn ==
  ~project.consented =>
    /\ \A r \in DOMAIN deployments : ~deployments[r].reset /\ deployments[r].node = project.node
    /\ \A i \in DOMAIN operations : operations[i].kind # "retire"

\* When an activation fails, the node runs again what it ran before it began.
PreviousContainerKept ==
  [][\A n \in Nodes :
       ReportFailed(n) /\ ~deployments[agent[n].job].reset => container'[n] = agent[n].was]_vars
====
