--------------------------- MODULE HostingProofs ---------------------------
(***************************************************************************)
(* Proofs about the hosting control plane: a project called running has a  *)
(* healthy release on its own node, and a project whose owner never opted  *)
(* in to stateless failover is neither moved nor reset, for any number of  *)
(* nodes, releases, failover attempts and operations.  Then about one node *)
(* and its databases: what is placed fits, and the engine does what the    *)
(* rows say, for any number of overlapping requests.  And about builds:    *)
(* only registered bytes are built, for any number of builders and         *)
(* uploads, and no push is forgotten, for any number of deliveries,        *)
(* requests and reports that overlap.                                      *)
(***************************************************************************)
EXTENDS Hosting, FiniteSetTheorems, TLAPS

-----------------------------------------------------------------------------
(* The inductive invariant.                                                *)

\* A failover attempt, as stored or as a pass of the daemon has loaded it: it is for a
\* project that opted in and had a healthy release, and its release is on its target.
RowSound(row) ==
  /\ row.release # None \/ row.status = "pending" => project.consented /\ Healthy # {}
  /\ row.status \in {"deploying", "edge_pending"} => row.release # None
  /\ row.release # None => /\ row.release \in DOMAIN deployments
                           /\ deployments[row.release].node = row.target

AttemptsSound == \A i \in DOMAIN attempts : RowSound(attempts[i])

\* What the daemon holds between its reading and its commit, however stale it is by then.
DaemonSound ==
  /\ daemon.pc # "idle" => RowSound(daemon.row) /\ daemon.move \in DOMAIN attempts \cup {None}
  /\ daemon.pc = "queue" => daemon.row.status = "pending"
  /\ daemon.pc = "edge" => /\ daemon.row.release # None /\ daemon.move # None
                           /\ deployments[daemon.row.release].status = "healthy"

\* An agent works on a row there is.
AgentsSound ==
  \A n \in Nodes :
    /\ agent[n].pc \in {"start", "started", "failing"} => agent[n].job \in DOMAIN deployments
    /\ agent[n].pc = "operate" => agent[n].job \in DOMAIN operations

\* Before the first healthy release all releases are on the project's node; from then on
\* one of them is healthy there.
ReleasesSound ==
  /\ Healthy = {} => \A r \in DOMAIN deployments : deployments[r].node = project.node
  /\ Healthy # {} => \E r \in Healthy : deployments[r].node = project.node
  /\ project.status = "running" => Healthy # {}

\* Stateless failover is a choice that stays on record.
ConsentSound == project.policy = "stateless_auto" => project.consented

HostInv ==
  /\ TypeOK /\ AttemptsSound /\ DaemonSound /\ AgentsSound
  /\ ReleasesSound /\ ConsentSound /\ DataKeptWithoutOptIn

-----------------------------------------------------------------------------
(* Sequences of rows.                                                      *)

LEMMA AppendRow ==
  ASSUME NEW S, NEW s \in Seq(S), NEW e \in S
  PROVE  /\ Append(s, e) \in Seq(S) /\ Len(Append(s, e)) = Len(s) + 1
         /\ DOMAIN s = 1..Len(s) /\ DOMAIN Append(s, e) = 1..(Len(s) + 1)
         /\ DOMAIN Append(s, e) = DOMAIN s \cup {Len(s) + 1}
         /\ \A i \in DOMAIN s : Append(s, e)[i] = s[i]
         /\ Append(s, e)[Len(s) + 1] = e
         /\ Len(s) \in Nat /\ Len(s) + 1 \notin DOMAIN s
OBVIOUS

LEMMA ChangeRow ==
  ASSUME NEW S, NEW s \in Seq(S), NEW i \in DOMAIN s, NEW e \in S
  PROVE  /\ [s EXCEPT ![i] = e] \in Seq(S) /\ Len([s EXCEPT ![i] = e]) = Len(s)
         /\ DOMAIN [s EXCEPT ![i] = e] = DOMAIN s
         /\ \A j \in DOMAIN s : j # i => [s EXCEPT ![i] = e][j] = s[j]
         /\ [s EXCEPT ![i] = e][i] = e
OBVIOUS

-----------------------------------------------------------------------------
(* What every step keeps: rows of releases stay, healthy ones stay healthy, *)
(* consent is not withdrawn.                                                *)

Grows ==
  /\ DOMAIN deployments \subseteq DOMAIN deployments'
  /\ \A r \in DOMAIN deployments :
       /\ deployments'[r].node = deployments[r].node /\ deployments'[r].reset = deployments[r].reset
       /\ deployments[r].status = "healthy" => deployments'[r].status = "healthy"
  /\ project.consented => project'.consented

\* RowSound of a row, in the next state.
RowSoundNext(row) ==
  /\ row.release # None \/ row.status = "pending" => project'.consented /\ Healthy' # {}
  /\ row.status \in {"deploying", "edge_pending"} => row.release # None
  /\ row.release # None => /\ row.release \in DOMAIN deployments'
                           /\ deployments'[row.release].node = row.target

LEMMA HealthyGrows == ASSUME Grows PROVE Healthy \subseteq Healthy'
BY DEF Grows, Healthy

LEMMA RowKept == ASSUME Grows PROVE \A row : RowSound(row) => RowSoundNext(row)
BY HealthyGrows DEF Grows, RowSound, RowSoundNext

LEMMA AttemptsKept ==
  ASSUME Grows, AttemptsSound, UNCHANGED attempts PROVE AttemptsSound'
BY RowKept DEF AttemptsSound, RowSound, RowSoundNext

LEMMA DaemonKept ==
  ASSUME Grows, DaemonSound, UNCHANGED daemon, DOMAIN attempts \subseteq DOMAIN attempts'
  PROVE  DaemonSound'
<1>1. daemon.pc # "idle" => RowSoundNext(daemon.row)
  BY RowKept DEF DaemonSound
<1>2. daemon.pc = "edge" => deployments'[daemon.row.release].status = "healthy"
  BY DEF DaemonSound, RowSound, Grows
<1> QED BY <1>1, <1>2 DEF DaemonSound, RowSound, RowSoundNext

LEMMA DaemonDone == ASSUME daemon' = Pass PROVE DaemonSound'
BY DEF DaemonSound, Pass

\* Agents that go on with the same release, begin nothing, or stay as they are.
LEMMA AgentsKept ==
  ASSUME AgentsSound, DOMAIN deployments \subseteq DOMAIN deployments',
         DOMAIN operations \subseteq DOMAIN operations',
         \A n \in Nodes : \/ agent'[n] = agent[n]
                          \/ agent'[n].pc \in {"idle", "polled"}
                          \/ /\ agent[n].pc \in {"start", "started", "failing"}
                             /\ agent'[n].pc \in {"start", "started", "failing"}
                             /\ agent'[n].job = agent[n].job
  PROVE  AgentsSound'
BY DEF AgentsSound

\* Steps that leave the releases alone.
LEMMA ReleasesSame ==
  ASSUME ReleasesSound, UNCHANGED deployments, project'.node = project.node,
         project'.status = "running" => Healthy # {}
  PROVE  ReleasesSound'
BY DEF ReleasesSound, Healthy

LEMMA DataSame ==
  ASSUME DataKeptWithoutOptIn, Grows, UNCHANGED <<deployments, operations>>, project'.node = project.node,
         project.consented \in BOOLEAN, project'.consented \in BOOLEAN
  PROVE  DataKeptWithoutOptIn'
BY DEF DataKeptWithoutOptIn, Grows

LEMMA GrowsSame ==
  ASSUME UNCHANGED deployments, project.consented => project'.consented PROVE Grows
BY DEF Grows

-----------------------------------------------------------------------------
(* A release that is queued, and the status of one that is reported.       *)

LEMMA ReleaseQueued ==
  ASSUME TypeOK, NEW n \in Nodes, NEW reset \in BOOLEAN, Len(deployments) < MaxReleases,
         NewDeployment(n, reset), project.consented => project'.consented
  PROVE  /\ deployments' \in Seq(Deployments) /\ Len(deployments') <= MaxReleases
         /\ Grows /\ Healthy' = Healthy
         /\ Len(deployments) + 1 \in DOMAIN deployments' /\ Len(deployments) + 1 # None
         /\ Len(deployments) + 1 \in 0..MaxReleases
         /\ deployments'[Len(deployments) + 1].node = n
         /\ \A r \in DOMAIN deployments' :
              \/ r \in DOMAIN deployments /\ deployments'[r] = deployments[r]
              \/ deployments'[r].node = n /\ deployments'[r].reset = reset
<1> DEFINE e == [node |-> n, status |-> "queued", reset |-> reset, origin |-> FALSE]
<1>1. deployments \in Seq(Deployments) /\ e \in Deployments /\ MaxReleases \in Nat
  BY HostingAssumption DEF TypeOK, Deployments, Active
<1>2. deployments' = Append(deployments, e)
  BY DEF NewDeployment
<1> HIDE DEF e
<1>3. /\ deployments' \in Seq(Deployments) /\ Len(deployments') = Len(deployments) + 1
      /\ DOMAIN deployments' = DOMAIN deployments \cup {Len(deployments) + 1}
      /\ \A r \in DOMAIN deployments : deployments'[r] = deployments[r]
      /\ deployments'[Len(deployments) + 1] = e
      /\ Len(deployments) \in Nat
  BY <1>1, <1>2, AppendRow
<1>4. Healthy' = Healthy
  BY <1>3 DEF Healthy, e
<1>5. Grows
  BY <1>3 DEF Grows
<1>6. deployments'[Len(deployments) + 1].node = n /\ deployments'[Len(deployments) + 1].reset = reset
  BY <1>3 DEF e
<1>7. Len(deployments') <= MaxReleases /\ Len(deployments) + 1 # None /\ Len(deployments) + 1 \in 0..MaxReleases
  BY <1>3, <1>1 DEF None
<1> QED BY <1>3, <1>4, <1>5, <1>6, <1>7

\* Row r, which was not healthy, gets status s.
LEMMA StatusReported ==
  ASSUME TypeOK, NEW r \in DOMAIN deployments, NEW e \in Deployments,
         deployments' = [deployments EXCEPT ![r] = e],
         e.node = deployments[r].node, e.reset = deployments[r].reset,
         deployments[r].status # "healthy", project.consented => project'.consented
  PROVE  /\ deployments' \in Seq(Deployments) /\ Len(deployments') <= MaxReleases
         /\ Grows /\ DOMAIN deployments' = DOMAIN deployments
         /\ Healthy' = Healthy \cup (IF e.status = "healthy" THEN {r} ELSE {})
<1>1. deployments \in Seq(Deployments) /\ Len(deployments) <= MaxReleases
  BY DEF TypeOK
<1>2. /\ deployments' \in Seq(Deployments) /\ Len(deployments') = Len(deployments)
      /\ DOMAIN deployments' = DOMAIN deployments
      /\ \A j \in DOMAIN deployments : j # r => deployments'[j] = deployments[j]
      /\ deployments'[r] = e
  BY <1>1, ChangeRow
<1>3. Grows
  BY <1>2 DEF Grows
<1>4. Healthy' = Healthy \cup (IF e.status = "healthy" THEN {r} ELSE {})
  BY <1>2 DEF Healthy
<1> QED BY <1>1, <1>2, <1>3, <1>4

LEMMA ReleasesAfterQueue ==
  ASSUME TypeOK, ReleasesSound, DataKeptWithoutOptIn,
         NEW n \in Nodes, NEW reset \in BOOLEAN, Len(deployments) < MaxReleases,
         NewDeployment(n, reset), project.consented => project'.consented,
         project' \in Projects, project'.node = project.node, UNCHANGED operations,
         n = project.node \/ Healthy # {}, project'.status = "running" => Healthy # {},
         project'.consented \/ (n = project.node /\ ~reset)
  PROVE  ReleasesSound' /\ DataKeptWithoutOptIn'
<1>1. /\ Grows /\ Healthy' = Healthy
      /\ \A r \in DOMAIN deployments' :
           \/ r \in DOMAIN deployments /\ deployments'[r] = deployments[r]
           \/ deployments'[r].node = n /\ deployments'[r].reset = reset
  BY ReleaseQueued
<1>2. Healthy' = {} => \A r \in DOMAIN deployments' : deployments'[r].node = project'.node
  BY <1>1 DEF ReleasesSound
<1>3. Healthy' # {} => \E r \in Healthy' : deployments'[r].node = project'.node
  BY <1>1 DEF ReleasesSound, Grows, Healthy
<1>4. project.consented \in BOOLEAN /\ project'.consented \in BOOLEAN
  BY DEF TypeOK, Projects
<1>5. DataKeptWithoutOptIn'
  BY <1>1, <1>4 DEF DataKeptWithoutOptIn
<1> QED BY <1>1, <1>2, <1>3, <1>5 DEF ReleasesSound

LEMMA ReleasesAfterReport ==
  ASSUME TypeOK, ReleasesSound, DataKeptWithoutOptIn,
         NEW r \in DOMAIN deployments, NEW e \in Deployments,
         deployments' = [deployments EXCEPT ![r] = e],
         e.node = deployments[r].node, e.reset = deployments[r].reset,
         deployments[r].status # "healthy", project' \in Projects,
         project'.consented = project.consented, project'.node = project.node, UNCHANGED operations,
         project'.status = "running" => Healthy # {} \/ e.status = "healthy"
  PROVE  ReleasesSound' /\ DataKeptWithoutOptIn'
<1>1. /\ Grows /\ DOMAIN deployments' = DOMAIN deployments
      /\ Healthy' = Healthy \cup (IF e.status = "healthy" THEN {r} ELSE {})
  BY StatusReported
<1>2. Healthy' = {} => \A q \in DOMAIN deployments' : deployments'[q].node = project'.node
  BY <1>1 DEF ReleasesSound, Grows
<1>3. Healthy' # {} => \E q \in Healthy' : deployments'[q].node = project'.node
  <2>1. CASE Healthy # {}
    BY <2>1, <1>1 DEF ReleasesSound, Grows, Healthy
  <2>2. CASE Healthy = {}
    BY <2>2, <1>1 DEF ReleasesSound, Grows
  <2> QED BY <2>1, <2>2
<1>4. project'.status = "running" => Healthy' # {}
  BY <1>1
<1>5. DataKeptWithoutOptIn'
  BY <1>1 DEF DataKeptWithoutOptIn, Grows
<1> QED BY <1>2, <1>3, <1>4, <1>5 DEF ReleasesSound

-----------------------------------------------------------------------------
(* Requests of the owners.                                                 *)

LEMMA InitInv == Init => HostInv
<1> SUFFICES ASSUME Init PROVE HostInv
  OBVIOUS
<1>1. TypeOK
  BY HostingAssumption DEF Init, TypeOK, Projects, Statuses, NodeRows, AgentStates, Idle, None, Pass
<1>2. AttemptsSound /\ DaemonSound /\ AgentsSound
  BY DEF Init, AttemptsSound, DaemonSound, AgentsSound, Pass, Idle
<1>3. ReleasesSound /\ ConsentSound /\ DataKeptWithoutOptIn
  BY DEF Init, ReleasesSound, ConsentSound, DataKeptWithoutOptIn, Healthy
<1> QED BY <1>1, <1>2, <1>3 DEF HostInv

LEMMA CreateDeploymentInv == ASSUME HostInv, CreateDeployment PROVE HostInv'
<1> USE DEF HostInv
<1>1. project' \in Projects /\ project.node \in Nodes /\ project'.node = project.node
      /\ project'.consented = project.consented /\ project'.policy = project.policy
      /\ project'.status = "deploying"
  BY DEF CreateDeployment, TypeOK, Projects, Statuses
<1>2. NewDeployment(project.node, FALSE) /\ Len(deployments) < MaxReleases
  BY DEF CreateDeployment
<1>3. deployments' \in Seq(Deployments) /\ Len(deployments') <= MaxReleases /\ Grows
  BY <1>1, <1>2, ReleaseQueued
<1>4. UNCHANGED <<attempts, operations, nodes, container, backup, agent, daemon, switches>>
  BY DEF CreateDeployment
<1>5. TypeOK'
  BY <1>1, <1>3, <1>4 DEF TypeOK
<1>6. AttemptsSound' /\ DaemonSound' /\ AgentsSound'
  BY <1>3, <1>4, AttemptsKept, DaemonKept, AgentsKept DEF Grows
<1>7. ReleasesSound' /\ DataKeptWithoutOptIn'
  <2> project'.status # "running"
    BY <1>1
  <2> QED BY <1>1, <1>2, <1>4, ReleasesAfterQueue
<1> QED BY <1>1, <1>5, <1>6, <1>7 DEF ConsentSound

\* Steps that touch neither releases nor attempts nor the daemon, and queue no retirement.
LEMMA QuietInv ==
  ASSUME HostInv, TypeOK', UNCHANGED <<deployments, attempts, daemon>>,
         project'.node = project.node, project.consented => project'.consented,
         project'.policy = "stateless_auto" => project'.consented,
         project'.status = "running" => Healthy # {},
         DOMAIN operations \subseteq DOMAIN operations',
         \A i \in DOMAIN operations' :
           operations'[i].kind = "retire" => \E j \in DOMAIN operations : operations[j].kind = "retire",
         \A n \in Nodes : \/ agent'[n] = agent[n]
                          \/ agent'[n].pc \in {"idle", "polled"}
                          \/ /\ agent[n].pc \in {"start", "started", "failing"}
                             /\ agent'[n].pc \in {"start", "started", "failing"}
                             /\ agent'[n].job = agent[n].job
  PROVE  HostInv'
<1> USE DEF HostInv
<1>1. Grows
  BY GrowsSame
<1>2. AttemptsSound' /\ DaemonSound' /\ AgentsSound'
  BY <1>1, AttemptsKept, DaemonKept, AgentsKept
<1>3. ReleasesSound' /\ ConsentSound'
  BY ReleasesSame DEF ConsentSound
<1>4. project.consented \in BOOLEAN /\ project'.consented \in BOOLEAN
  BY DEF TypeOK, Projects
<1>5. DataKeptWithoutOptIn'
  BY <1>4 DEF DataKeptWithoutOptIn
<1> QED BY <1>2, <1>3, <1>5

LEMMA RelocateInv == ASSUME HostInv, Relocate PROVE HostInv'
<1> USE DEF HostInv
<1> DEFINE old == AttemptFrom(project.node)
           kept == IF old = None THEN attempts ELSE [attempts EXCEPT ![old].status = "superseded"]
<1>1. PICK t \in Nodes \ {project.node} :
        /\ NewDeployment(t, TRUE)
        /\ attempts' = Append(kept, [source |-> project.node, target |-> t,
                                     release |-> Len(deployments) + 1, status |-> "deploying"])
  BY DEF Relocate
<1>2. /\ project' \in Projects /\ project'.node = project.node /\ project'.consented = project.consented
      /\ project'.policy = project.policy /\ project'.status = "deploying"
  BY DEF Relocate, TypeOK, Projects, Statuses
<1>3. /\ project.policy = "stateless_auto" /\ project.consented /\ Healthy # {}
      /\ Len(deployments) < MaxReleases /\ Len(attempts) < MaxMoves
      /\ UNCHANGED <<operations, nodes, container, backup, agent, daemon, switches>>
  BY DEF Relocate, ConsentSound
<1>4. /\ deployments' \in Seq(Deployments) /\ Len(deployments') <= MaxReleases /\ Grows
      /\ Healthy' = Healthy
      /\ Len(deployments) + 1 \in DOMAIN deployments' /\ Len(deployments) + 1 \in 0..MaxReleases
      /\ deployments'[Len(deployments) + 1].node = t
  BY <1>1, <1>2, <1>3, ReleaseQueued
<1>5. attempts \in Seq(Attempts) /\ Len(attempts) \in Nat /\ MaxMoves \in Nat
  BY HostingAssumption DEF TypeOK
<1>6. /\ kept \in Seq(Attempts) /\ Len(kept) = Len(attempts) /\ DOMAIN kept = DOMAIN attempts
      /\ \A i \in DOMAIN kept : RowSound(kept[i])
  <2>1. CASE old = None
    BY <2>1, <1>5 DEF AttemptsSound
  <2>2. CASE old # None
    <3>1. old \in DOMAIN attempts
      BY <2>2 DEF AttemptFrom
    <3>2. attempts[old] \in Attempts
      BY <3>1, <1>5
    <3> DEFINE e == [attempts[old] EXCEPT !.status = "superseded"]
    <3>3. e \in Attempts /\ RowSound(e)
      BY <3>1, <3>2 DEF Attempts, AttemptsSound, RowSound
    <3>4. kept = [attempts EXCEPT ![old] = e]
      BY <2>2
    <3> HIDE DEF e, kept, old
    <3> QED BY <3>1, <3>3, <3>4, <1>5, ChangeRow DEF AttemptsSound
  <2> QED BY <2>1, <2>2
<1> DEFINE new == [source |-> project.node, target |-> t, release |-> Len(deployments) + 1, status |-> "deploying"]
<1>7. new \in Attempts /\ RowSoundNext(new)
  BY <1>2, <1>3, <1>4 DEF Attempts, Moving, RowSoundNext, TypeOK, Projects, None
<1> HIDE DEF new, kept, old
<1>8. /\ attempts' \in Seq(Attempts) /\ Len(attempts') <= MaxMoves
      /\ DOMAIN attempts \subseteq DOMAIN attempts'
      /\ \A i \in DOMAIN attempts' : RowSoundNext(attempts'[i])
  <2>1. attempts' = Append(kept, new)
    BY <1>1 DEF new
  <2>2. /\ attempts' \in Seq(Attempts) /\ Len(attempts') = Len(kept) + 1
        /\ DOMAIN attempts' = DOMAIN kept \cup {Len(kept) + 1}
        /\ \A i \in DOMAIN kept : attempts'[i] = kept[i]
        /\ attempts'[Len(kept) + 1] = new
    BY <2>1, <1>6, <1>7, AppendRow
  <2>3. Len(attempts') <= MaxMoves
    BY <2>2, <1>3, <1>5, <1>6
  <2>4. \A i \in DOMAIN attempts' : RowSoundNext(attempts'[i])
    BY <2>2, <1>4, <1>6, <1>7, RowKept
  <2> QED BY <2>2, <2>3, <2>4, <1>6
<1>9. TypeOK'
  BY <1>2, <1>3, <1>4, <1>8 DEF TypeOK
<1>10. AttemptsSound' /\ DaemonSound' /\ AgentsSound'
  BY <1>3, <1>4, <1>8, DaemonKept, AgentsKept DEF AttemptsSound, RowSound, RowSoundNext, Grows
<1>11. ReleasesSound' /\ DataKeptWithoutOptIn'
  BY <1>1, <1>2, <1>3, ReleasesAfterQueue
<1> QED BY <1>2, <1>9, <1>10, <1>11 DEF ConsentSound

LEMMA UpdateProjectInv == ASSUME HostInv, UpdateProject PROVE HostInv'
<1>1. TypeOK'
  <2>1. switches' \in 0..MaxSwitches
    BY HostingAssumption DEF HostInv, UpdateProject, TypeOK
  <2>2. project' \in Projects
    BY DEF HostInv, UpdateProject, TypeOK, Projects, Statuses
  <2> QED BY <2>1, <2>2 DEF HostInv, UpdateProject, TypeOK
<1>2. /\ UNCHANGED <<deployments, attempts, daemon, operations, agent>>
      /\ project'.node = project.node /\ project'.consented = project.consented
      /\ project'.policy = "stateless_auto" => project'.consented
      /\ project'.status = "running" => Healthy # {}
  BY DEF UpdateProject, HostInv, TypeOK, Projects, ConsentSound
<1> QED BY <1>1, <1>2, QuietInv

LEMMA AttachDatabaseInv == ASSUME HostInv, AttachDatabase PROVE HostInv'
<1>1. TypeOK'
  <2>1. switches' \in 0..MaxSwitches
    BY HostingAssumption DEF HostInv, AttachDatabase, TypeOK
  <2>2. project' \in Projects
    BY DEF HostInv, AttachDatabase, TypeOK, Projects
  <2> QED BY <2>1, <2>2 DEF HostInv, AttachDatabase, TypeOK
<1>2. /\ UNCHANGED <<deployments, attempts, daemon, operations, agent>>
      /\ project'.node = project.node /\ project'.consented = project.consented
      /\ project'.policy = "stateless_auto" => project'.consented
      /\ project'.status = "running" => Healthy # {}
  BY DEF AttachDatabase, HostInv, TypeOK, Projects, ConsentSound, ReleasesSound
<1> QED BY <1>1, <1>2, QuietInv

LEMMA UpdateNodeInv == ASSUME HostInv, NEW n \in Nodes, UpdateNode(n) PROVE HostInv'
<1>1. TypeOK'
  <2>1. switches' \in 0..MaxSwitches
    BY HostingAssumption DEF HostInv, UpdateNode, TypeOK
  <2>2. nodes' \in [Nodes -> NodeRows]
    <3>1. PICK s \in {"active", "draining", "offline"}, a \in BOOLEAN :
            nodes' = [nodes EXCEPT ![n] = [nodes[n] EXCEPT !.status = s, !.accepts = a, !.automation = FALSE,
                                                           !.autoDrained = FALSE]]
      BY DEF UpdateNode, HostInv, TypeOK
    <3>2. nodes[n] \in NodeRows
      BY DEF HostInv, TypeOK
    <3>3. [nodes[n] EXCEPT !.status = s, !.accepts = a, !.automation = FALSE, !.autoDrained = FALSE] \in NodeRows
      BY <3>2 DEF NodeRows
    <3> QED BY <3>1, <3>3 DEF HostInv, TypeOK
  <2> QED BY <2>1, <2>2 DEF HostInv, UpdateNode, TypeOK
<1>2. /\ UNCHANGED <<deployments, attempts, daemon, operations, agent>>
      /\ project'.node = project.node /\ project'.consented = project.consented
      /\ project'.policy = "stateless_auto" => project'.consented
      /\ project'.status = "running" => Healthy # {}
  BY DEF UpdateNode, HostInv, ConsentSound, ReleasesSound
<1> QED BY <1>1, <1>2, QuietInv

\* Open attempts of the old policy are closed; no row gains a release.
LEMMA UpdateFailoverPolicyInv == ASSUME HostInv, UpdateFailoverPolicy PROVE HostInv'
<1> USE DEF HostInv
<1>1. PICK p \in {"manual", "stateless_auto"} :
        /\ project' = [project EXCEPT !.policy = p, !.consented = project.consented \/ p = "stateless_auto"]
        /\ attempts' = IF p = "manual" THEN attempts
                       ELSE [i \in DOMAIN attempts |->
                               IF attempts[i].source = project.node /\ attempts[i].status = "recovery_required"
                               THEN [attempts[i] EXCEPT !.status = "superseded"] ELSE attempts[i]]
  BY DEF UpdateFailoverPolicy, TypeOK, Projects
<1>2. /\ project' \in Projects /\ project'.node = project.node /\ project'.status = project.status
      /\ project.consented => project'.consented
      /\ project'.policy = "stateless_auto" => project'.consented
      /\ project.consented \in BOOLEAN /\ project'.consented \in BOOLEAN
  BY <1>1 DEF TypeOK, Projects, ConsentSound
<1>3. /\ UNCHANGED <<deployments, operations, nodes, container, backup, agent, daemon>>
      /\ switches' \in 0..MaxSwitches
  BY HostingAssumption DEF UpdateFailoverPolicy, TypeOK
<1>4. Grows
  BY <1>2, <1>3, GrowsSame
<1>5. attempts \in Seq(Attempts) /\ DOMAIN attempts = 1..Len(attempts) /\ Len(attempts) \in Nat
  BY DEF TypeOK
<1>6. /\ DOMAIN attempts' = DOMAIN attempts
      /\ \A i \in DOMAIN attempts : attempts'[i] \in {attempts[i], [attempts[i] EXCEPT !.status = "superseded"]}
  BY <1>1
<1>7. \A i \in DOMAIN attempts : attempts'[i] \in Attempts /\ RowSoundNext(attempts'[i])
  <2> SUFFICES ASSUME NEW i \in DOMAIN attempts
               PROVE  attempts'[i] \in Attempts /\ RowSoundNext(attempts'[i])
    OBVIOUS
  <2>1. attempts[i] \in Attempts /\ RowSoundNext(attempts[i])
    BY <1>4, <1>5, RowKept DEF AttemptsSound
  <2>2. /\ [attempts[i] EXCEPT !.status = "superseded"] \in Attempts
        /\ RowSoundNext([attempts[i] EXCEPT !.status = "superseded"])
    BY <2>1 DEF Attempts, RowSoundNext
  <2> QED BY <2>1, <2>2, <1>6
<1>8. attempts' \in Seq(Attempts) /\ Len(attempts') = Len(attempts)
  <2>1. CASE p = "manual"
    BY <2>1, <1>1, <1>5
  <2>2. CASE p # "manual"
    BY <2>2, <1>1, <1>5, <1>6, <1>7
  <2> QED BY <2>1, <2>2
<1>9. TypeOK'
  BY <1>2, <1>3, <1>8 DEF TypeOK
<1>10. AttemptsSound' /\ DaemonSound' /\ AgentsSound'
  BY <1>3, <1>4, <1>6, <1>7, DaemonKept, AgentsKept DEF AttemptsSound, RowSound, RowSoundNext
<1>11. ReleasesSound' /\ DataKeptWithoutOptIn'
  BY <1>2, <1>3, <1>4, ReleasesSame, DataSame DEF ReleasesSound
<1> QED BY <1>2, <1>9, <1>10, <1>11 DEF ConsentSound

LEMMA QueueOperationInv ==
  ASSUME HostInv, NEW what \in {"restart", "logs"}, QueueOperation(what) PROVE HostInv'
<1> DEFINE e == [node |-> project.node, kind |-> what, status |-> "queued"]
<1>1. operations \in Seq(Operations) /\ e \in Operations /\ operations' = Append(operations, e)
  BY DEF HostInv, TypeOK, Projects, Operations, QueueOperation
<1>2. e.kind # "retire" /\ Len(operations) < MaxOperations /\ MaxOperations \in Nat
  BY HostingAssumption DEF QueueOperation
<1> HIDE DEF e
<1>3. /\ operations' \in Seq(Operations) /\ Len(operations') = Len(operations) + 1 /\ Len(operations) \in Nat
      /\ DOMAIN operations' = DOMAIN operations \cup {Len(operations) + 1}
      /\ \A i \in DOMAIN operations : operations'[i] = operations[i]
      /\ operations'[Len(operations) + 1] = e
  BY <1>1, AppendRow
<1>4. UNCHANGED <<project, deployments, attempts, nodes, container, backup, agent, daemon, switches>>
  BY DEF QueueOperation
<1>5. TypeOK'
  BY <1>2, <1>3, <1>4 DEF HostInv, TypeOK
<1>6. \A i \in DOMAIN operations' :
        operations'[i].kind = "retire" => \E j \in DOMAIN operations : operations[j].kind = "retire"
  BY <1>2, <1>3
<1>7. /\ project'.policy = "stateless_auto" => project'.consented
      /\ project'.status = "running" => Healthy # {}
  BY <1>4 DEF HostInv, ConsentSound, ReleasesSound
<1> QED BY <1>3, <1>4, <1>5, <1>6, <1>7, QuietInv

-----------------------------------------------------------------------------
(* The agents.                                                             *)

\* Work on an operation changes its status.
LEMMA OperationStatus ==
  ASSUME TypeOK, NEW i \in DOMAIN operations, NEW s \in {"queued", "claimed", "succeeded", "failed"},
         operations' = [operations EXCEPT ![i].status = s]
  PROVE  /\ operations' \in Seq(Operations) /\ Len(operations') <= MaxOperations
         /\ DOMAIN operations \subseteq DOMAIN operations' /\ DOMAIN operations' = DOMAIN operations
         /\ \A j \in DOMAIN operations' :
              operations'[j].kind = "retire" => \E k \in DOMAIN operations : operations[k].kind = "retire"
<1> DEFINE e == [operations[i] EXCEPT !.status = s]
<1>1. operations \in Seq(Operations) /\ operations[i] \in Operations
  BY DEF TypeOK
<1>2. e \in Operations /\ e.kind = operations[i].kind
  BY <1>1 DEF Operations
<1>3. operations' = [operations EXCEPT ![i] = e]
  OBVIOUS
<1> HIDE DEF e
<1>4. /\ operations' \in Seq(Operations) /\ Len(operations') = Len(operations)
      /\ DOMAIN operations' = DOMAIN operations
      /\ \A j \in DOMAIN operations : j # i => operations'[j] = operations[j]
      /\ operations'[i] = e
  BY <1>1, <1>2, <1>3, ChangeRow
<1>5. Len(operations') <= MaxOperations
  BY <1>4 DEF TypeOK
<1>6. \A j \in DOMAIN operations' : operations'[j].kind = operations[j].kind
  BY <1>2, <1>4
<1> QED BY <1>4, <1>5, <1>6

LEMMA QuietAgent ==
  ASSUME HostInv, TypeOK', NEW n \in Nodes, UNCHANGED <<project, deployments, attempts, daemon>>,
         DOMAIN operations \subseteq DOMAIN operations',
         \A i \in DOMAIN operations' :
           operations'[i].kind = "retire" => \E j \in DOMAIN operations : operations[j].kind = "retire",
         \A m \in Nodes \ {n} : agent'[m] = agent[m],
         \/ agent'[n].pc \in {"idle", "polled"}
         \/ /\ agent[n].pc \in {"start", "started", "failing"}
            /\ agent'[n].pc \in {"start", "started", "failing"}
            /\ agent'[n].job = agent[n].job
  PROVE  HostInv'
<1>1. /\ project'.policy = "stateless_auto" => project'.consented
      /\ project'.status = "running" => Healthy # {}
  BY DEF HostInv, ConsentSound, ReleasesSound
<1> QED BY <1>1, QuietInv

LEMMA HealthPassInv == ASSUME HostInv, NEW n \in Nodes, HealthPass(n) PROVE HostInv'
<1>1. nodes' \in [Nodes -> NodeRows]
  <2>1. nodes[n] \in NodeRows
    BY DEF HostInv, TypeOK
  <2>2. PICK up \in BOOLEAN :
          LET seen == IF up /\ ~Retiring(n) THEN "healthy" ELSE "unhealthy"
              open == nodes[n].status = "active" /\ nodes[n].accepts
              row == [nodes[n] EXCEPT !.health = seen]
          IN \/ nodes' = [nodes EXCEPT ![n] = row]
             \/ nodes' = [nodes EXCEPT ![n] =
                  [row EXCEPT !.status = IF open THEN "draining" ELSE "active", !.accepts = ~open,
                              !.autoDrained = open]]
    BY DEF HealthPass
  <2> DEFINE seen == IF up /\ ~Retiring(n) THEN "healthy" ELSE "unhealthy"
             open == nodes[n].status = "active" /\ nodes[n].accepts
             row == [nodes[n] EXCEPT !.health = seen]
             moved == [row EXCEPT !.status = IF open THEN "draining" ELSE "active", !.accepts = ~open,
                                  !.autoDrained = open]
  <2>3. row \in NodeRows /\ open \in BOOLEAN
    BY <2>1 DEF NodeRows
  <2>4. moved \in NodeRows
    <3> HIDE DEF row, open
    <3> QED BY <2>3 DEF NodeRows
  <2>5. nodes' = [nodes EXCEPT ![n] = row] \/ nodes' = [nodes EXCEPT ![n] = moved]
    BY <2>2
  <2> HIDE DEF row, open, moved
  <2> QED BY <2>3, <2>4, <2>5 DEF HostInv, TypeOK
<1>2. UNCHANGED <<project, deployments, attempts, operations, container, backup, agent, daemon, switches>>
  BY DEF HealthPass
<1>3. TypeOK'
  BY <1>1, <1>2 DEF HostInv, TypeOK
<1>4. /\ project'.policy = "stateless_auto" => project'.consented
      /\ project'.status = "running" => Healthy # {}
  BY <1>2 DEF HostInv, ConsentSound, ReleasesSound
<1> QED BY <1>2, <1>3, <1>4, QuietInv

LEMMA AgentChanges ==
  ASSUME TypeOK, NEW n \in Nodes
  PROVE  /\ Idle \in AgentStates /\ Idle.pc = "idle"
         /\ [agent EXCEPT ![n] = Idle] \in [Nodes -> AgentStates]
         /\ \A pc \in {"polled", "started", "failing"} :
              /\ [agent EXCEPT ![n].pc = pc] \in [Nodes -> AgentStates]
              /\ [agent EXCEPT ![n].pc = pc][n].pc = pc
              /\ [agent EXCEPT ![n].pc = pc][n].job = agent[n].job
         /\ agent[n] \in AgentStates
<1>1. agent \in [Nodes -> AgentStates] /\ agent[n] \in AgentStates
  BY DEF TypeOK
<1>2. Idle \in AgentStates /\ Idle.pc = "idle"
  BY HostingAssumption DEF Idle, AgentStates, None
<1>3. \A pc \in {"polled", "started", "failing"} :
        LET e == [agent[n] EXCEPT !.pc = pc]
        IN  e \in AgentStates /\ e.pc = pc /\ e.job = agent[n].job
  BY <1>1 DEF AgentStates
<1>4. \A e \in AgentStates : [agent EXCEPT ![n] = e] \in [Nodes -> AgentStates] /\ [agent EXCEPT ![n] = e][n] = e
  BY <1>1
<1>5. \A pc : [agent EXCEPT ![n].pc = pc] = [agent EXCEPT ![n] = [agent[n] EXCEPT !.pc = pc]]
  OBVIOUS
<1> QED BY <1>1, <1>2, <1>3, <1>4, <1>5

LEMMA PollOperationInv == ASSUME HostInv, NEW n \in Nodes, PollOperation(n) PROVE HostInv'
<1>1. UNCHANGED <<project, deployments, attempts, nodes, container, backup, daemon, switches>> /\ TypeOK
  BY DEF PollOperation, HostInv
<1>2. CASE agent' = [agent EXCEPT ![n].pc = "polled"] /\ UNCHANGED operations
  <2>1. agent' \in [Nodes -> AgentStates] /\ agent'[n].pc = "polled" /\ \A m \in Nodes \ {n} : agent'[m] = agent[m]
    BY <1>1, <1>2, AgentChanges DEF TypeOK
  <2>2. TypeOK'
    BY <1>1, <1>2, <2>1 DEF TypeOK
  <2> QED BY <1>1, <1>2, <2>1, <2>2, QuietAgent
<1>3. CASE \E i \in Next1(n) : /\ operations' = [operations EXCEPT ![i].status = "failed"]
                               /\ agent' = [agent EXCEPT ![n].pc = "polled"]
  <2>1. PICK i \in DOMAIN operations : operations' = [operations EXCEPT ![i].status = "failed"]
    BY <1>3 DEF Next1, Queued
  <2>2. agent' \in [Nodes -> AgentStates] /\ agent'[n].pc = "polled" /\ \A m \in Nodes \ {n} : agent'[m] = agent[m]
    <3>1. agent' = [agent EXCEPT ![n].pc = "polled"]
      BY <1>3
    <3> QED BY <1>1, <3>1, AgentChanges DEF TypeOK
  <2>3. /\ operations' \in Seq(Operations) /\ Len(operations') <= MaxOperations
        /\ DOMAIN operations \subseteq DOMAIN operations'
        /\ \A j \in DOMAIN operations' :
             operations'[j].kind = "retire" => \E k \in DOMAIN operations : operations[k].kind = "retire"
    BY <1>1, <2>1, OperationStatus
  <2>4. TypeOK'
    BY <1>1, <2>2, <2>3 DEF TypeOK
  <2> QED BY <1>1, <2>2, <2>3, <2>4, QuietAgent
<1>4. CASE \E i \in Next1(n) : /\ operations' = [operations EXCEPT ![i].status = "claimed"]
                               /\ \/ agent' = [agent EXCEPT ![n] = [pc |-> "operate", job |-> i, was |-> None]]
                                  \/ UNCHANGED agent
  <2>1. PICK i \in DOMAIN operations :
          /\ operations' = [operations EXCEPT ![i].status = "claimed"]
          /\ \/ agent' = [agent EXCEPT ![n] = [pc |-> "operate", job |-> i, was |-> None]]
             \/ UNCHANGED agent
    BY <1>4 DEF Next1, Queued
  <2>2. /\ operations' \in Seq(Operations) /\ Len(operations') <= MaxOperations
        /\ DOMAIN operations \subseteq DOMAIN operations' /\ DOMAIN operations' = DOMAIN operations
        /\ \A j \in DOMAIN operations' :
             operations'[j].kind = "retire" => \E k \in DOMAIN operations : operations[k].kind = "retire"
    BY <1>1, <2>1, OperationStatus
  <2> DEFINE e == [pc |-> "operate", job |-> i, was |-> None]
  <2>3. e \in AgentStates
    <3>1. MaxReleases \in Nat /\ MaxOperations \in Nat
      BY HostingAssumption
    <3>2. i \in 1..MaxOperations
      BY <1>1, <3>1 DEF TypeOK
    <3>3. i \in 0..(MaxReleases + MaxOperations) /\ None \in 0..MaxReleases
      BY <3>1, <3>2 DEF None
    <3> QED BY <3>3 DEF AgentStates
  <2>4. /\ agent' \in [Nodes -> AgentStates]
        /\ \A m \in Nodes : agent'[m] = agent[m] \/ agent'[m] = e
    BY <1>1, <2>1, <2>3 DEF TypeOK
  <2>5. TypeOK'
    BY <1>1, <2>2, <2>4 DEF TypeOK
  <2>6. Grows /\ project'.consented = project.consented
    BY <1>1, GrowsSame
  <2>7. AttemptsSound' /\ DaemonSound'
    BY <1>1, <2>6, AttemptsKept, DaemonKept DEF HostInv
  <2>8. AgentsSound'
    BY <1>1, <2>2, <2>4 DEF HostInv, AgentsSound
  <2>9. ReleasesSound' /\ ConsentSound'
    BY <1>1, ReleasesSame DEF HostInv, ConsentSound, ReleasesSound
  <2>10. DataKeptWithoutOptIn'
    BY <1>1, <2>2 DEF HostInv, DataKeptWithoutOptIn
  <2> QED BY <2>5, <2>7, <2>8, <2>9, <2>10 DEF HostInv
<1> QED BY <1>2, <1>3, <1>4 DEF PollOperation

LEMMA OperateInv == ASSUME HostInv, NEW n \in Nodes, Operate(n) PROVE HostInv'
<1> DEFINE i == agent[n].job
<1>1. UNCHANGED <<project, deployments, attempts, nodes, backup, daemon, switches>> /\ TypeOK
  BY DEF Operate, HostInv
<1>2. i \in DOMAIN operations
  BY DEF Operate, HostInv, AgentsSound
<1>3. PICK s \in {"succeeded", "failed", "claimed"} : operations' = [operations EXCEPT ![i].status = s]
  BY DEF Operate
<1>4. agent' \in [Nodes -> AgentStates] /\ agent'[n].pc = "idle" /\ \A m \in Nodes \ {n} : agent'[m] = agent[m]
  BY <1>1, AgentChanges DEF Operate, TypeOK
<1>5. container' \in [Nodes -> 0..MaxReleases]
  BY <1>1, HostingAssumption DEF Operate, TypeOK, None
<1> HIDE DEF i
<1>6. /\ operations' \in Seq(Operations) /\ Len(operations') <= MaxOperations
      /\ DOMAIN operations \subseteq DOMAIN operations'
      /\ \A j \in DOMAIN operations' :
           operations'[j].kind = "retire" => \E k \in DOMAIN operations : operations[k].kind = "retire"
  BY <1>1, <1>2, <1>3, OperationStatus
<1>7. TypeOK'
  BY <1>1, <1>4, <1>5, <1>6 DEF TypeOK
<1> QED BY <1>1, <1>4, <1>6, <1>7, QuietAgent

LEMMA StartCandidateInv == ASSUME HostInv, NEW n \in Nodes, StartCandidate(n) PROVE HostInv'
<1>1. UNCHANGED <<project, deployments, attempts, operations, nodes, daemon, switches>> /\ TypeOK
  BY DEF StartCandidate, HostInv
<1>2. agent[n].pc = "start" /\ agent[n].job \in DOMAIN deployments /\ agent[n].job \in 0..MaxReleases
  BY HostingAssumption DEF StartCandidate, HostInv, AgentsSound, TypeOK
<1>3. PICK pc \in {"started", "failing"} : agent' = [agent EXCEPT ![n].pc = pc]
  BY DEF StartCandidate
<1>4. /\ agent' \in [Nodes -> AgentStates] /\ agent'[n].pc = pc /\ agent'[n].job = agent[n].job
      /\ \A m \in Nodes \ {n} : agent'[m] = agent[m]
  BY <1>1, <1>3, AgentChanges DEF TypeOK
<1>5. container' \in [Nodes -> 0..MaxReleases] /\ backup' \in [Nodes -> 0..MaxReleases]
  <2>1. container \in [Nodes -> 0..MaxReleases] /\ backup \in [Nodes -> 0..MaxReleases] /\ None \in 0..MaxReleases
    BY <1>1, HostingAssumption DEF TypeOK, None
  <2>2. \/ UNCHANGED <<container, backup>>
        \/ \E b \in {None, container[n]}, c \in {None, agent[n].job} :
             backup' = [backup EXCEPT ![n] = b] /\ container' = [container EXCEPT ![n] = c]
    BY DEF StartCandidate
  <2> QED BY <1>2, <2>1, <2>2
<1>6. TypeOK'
  BY <1>1, <1>4, <1>5 DEF TypeOK
<1> QED BY <1>1, <1>2, <1>4, <1>6, QuietAgent

LEMMA HealthCheckFailsInv == ASSUME HostInv, NEW n \in Nodes, HealthCheckFails(n) PROVE HostInv'
<1>1. UNCHANGED <<project, deployments, attempts, operations, nodes, container, backup, daemon, switches>> /\ TypeOK
  BY DEF HealthCheckFails, HostInv
<1>2. /\ agent' \in [Nodes -> AgentStates] /\ agent'[n].pc = "failing" /\ agent'[n].job = agent[n].job
      /\ \A m \in Nodes \ {n} : agent'[m] = agent[m]
      /\ agent[n].pc = "started"
  BY <1>1, AgentChanges DEF HealthCheckFails, TypeOK
<1>3. TypeOK'
  BY <1>1, <1>2 DEF TypeOK
<1> QED BY <1>1, <1>2, <1>3, QuietAgent

LEMMA CrashInv == ASSUME HostInv, NEW n \in Nodes, Crash(n) PROVE HostInv'
<1>1. UNCHANGED <<project, deployments, attempts, operations, nodes, daemon, switches>> /\ TypeOK
  BY DEF Crash, HostInv
<1>2. agent' \in [Nodes -> AgentStates] /\ agent'[n].pc = "idle" /\ \A m \in Nodes \ {n} : agent'[m] = agent[m]
  BY <1>1, AgentChanges DEF Crash, TypeOK
<1>3. container' \in [Nodes -> 0..MaxReleases] /\ backup' \in [Nodes -> 0..MaxReleases]
  <2>1. container \in [Nodes -> 0..MaxReleases] /\ backup \in [Nodes -> 0..MaxReleases] /\ None \in 0..MaxReleases
    BY <1>1, HostingAssumption DEF TypeOK, None
  <2>2. PICK c \in {container[n], None} : container' = [container EXCEPT ![n] = c]
    BY DEF Crash
  <2>3. backup' = [backup EXCEPT ![n] = None]
    BY DEF Crash
  <2> QED BY <2>1, <2>2, <2>3
<1>4. TypeOK'
  BY <1>1, <1>2, <1>3 DEF TypeOK
<1> QED BY <1>1, <1>2, <1>4, QuietAgent

\* A step that changes the status of one release that was not healthy, and with it the
\* project's status and what the agent of the node does next.
LEMMA ReleaseStep ==
  ASSUME HostInv, NEW n \in Nodes, NEW r \in DOMAIN deployments, NEW e \in Deployments,
         deployments' = [deployments EXCEPT ![r] = e],
         e.node = deployments[r].node, e.reset = deployments[r].reset,
         deployments[r].status # "healthy", project' \in Projects,
         project'.consented = project.consented, project'.node = project.node,
         project'.policy = project.policy,
         project'.status = "running" => Healthy # {} \/ e.status = "healthy",
         UNCHANGED <<attempts, operations, nodes, daemon, switches>>,
         container' \in [Nodes -> 0..MaxReleases], backup' \in [Nodes -> 0..MaxReleases],
         agent' \in [Nodes -> AgentStates], \A m \in Nodes \ {n} : agent'[m] = agent[m],
         agent'[n].pc = "operate" => agent'[n].job \in DOMAIN operations,
         agent'[n].pc \in {"start", "started", "failing"} => agent'[n].job \in DOMAIN deployments
  PROVE  HostInv'
<1> USE DEF HostInv
<1>1. /\ deployments' \in Seq(Deployments) /\ Len(deployments') <= MaxReleases
      /\ Grows /\ DOMAIN deployments' = DOMAIN deployments
  BY StatusReported
<1>2. TypeOK'
  BY <1>1 DEF TypeOK
<1>3. AttemptsSound' /\ DaemonSound'
  BY <1>1, AttemptsKept, DaemonKept
<1>4. AgentsSound'
  BY <1>1 DEF AgentsSound
<1>5. ReleasesSound' /\ DataKeptWithoutOptIn'
  BY ReleasesAfterReport
<1> QED BY <1>2, <1>3, <1>4, <1>5 DEF ConsentSound

LEMMA ClaimDeploymentInv == ASSUME HostInv, NEW n \in Nodes, ClaimDeployment(n) PROVE HostInv'
<1> DEFINE queued == {r \in DOMAIN deployments : deployments[r].node = n /\ deployments[r].status = "queued"}
           work(r) == [pc |-> "start", job |-> r, was |-> container[n]]
<1>1. UNCHANGED <<attempts, operations, nodes, container, backup, daemon, switches>> /\ TypeOK
  BY DEF ClaimDeployment, HostInv
<1>2. CASE agent' = [agent EXCEPT ![n] = Idle] /\ UNCHANGED <<project, deployments>>
  <2>1. agent' \in [Nodes -> AgentStates] /\ agent'[n].pc = "idle" /\ \A m \in Nodes \ {n} : agent'[m] = agent[m]
    BY <1>1, <1>2, AgentChanges DEF TypeOK
  <2>2. TypeOK'
    BY <1>1, <1>2, <2>1 DEF TypeOK
  <2> QED BY <1>1, <1>2, <2>1, <2>2, QuietAgent
<1>3. CASE \E r \in queued, s \in {"failed", "claimed"}, p \in {"suspended", "failed", "deploying"} :
             /\ deployments' = [deployments EXCEPT ![r].status = s]
             /\ project' = [project EXCEPT !.status = p]
             /\ agent' \in {[agent EXCEPT ![n] = Idle], [agent EXCEPT ![n] = work(r)]}
  <2>1. PICK r \in queued, s \in {"failed", "claimed"}, p \in {"suspended", "failed", "deploying"} :
             /\ deployments' = [deployments EXCEPT ![r].status = s]
             /\ project' = [project EXCEPT !.status = p]
             /\ agent' \in {[agent EXCEPT ![n] = Idle], [agent EXCEPT ![n] = work(r)]}
    BY <1>3
  <2>2. r \in DOMAIN deployments /\ deployments[r] \in Deployments /\ deployments[r].status = "queued"
    BY <1>1 DEF TypeOK
  <2> DEFINE e == [deployments[r] EXCEPT !.status = s]
  <2>3. /\ e \in Deployments /\ e.node = deployments[r].node /\ e.reset = deployments[r].reset
        /\ deployments' = [deployments EXCEPT ![r] = e]
    BY <2>1, <2>2 DEF Deployments, Active
  <2>4. /\ project' \in Projects /\ project'.consented = project.consented /\ project'.node = project.node
        /\ project'.policy = project.policy /\ project'.status # "running"
    BY <1>1, <2>1 DEF TypeOK, Projects, Statuses
  <2>5. work(r) \in AgentStates
    <3>1. MaxReleases \in Nat /\ MaxOperations \in Nat /\ r \in 1..MaxReleases
      BY <1>1, <2>2, HostingAssumption DEF TypeOK
    <3>2. r \in 0..(MaxReleases + MaxOperations) /\ container[n] \in 0..MaxReleases
      BY <1>1, <3>1 DEF TypeOK
    <3> QED BY <3>2 DEF AgentStates
  <2>6. /\ agent' \in [Nodes -> AgentStates] /\ \A m \in Nodes \ {n} : agent'[m] = agent[m]
        /\ agent'[n].pc = "idle" \/ (agent'[n].pc = "start" /\ agent'[n].job = r)
    <3>1. agent \in [Nodes -> AgentStates] /\ Idle \in AgentStates /\ Idle.pc = "idle"
      BY <1>1, AgentChanges DEF TypeOK
    <3>2. work(r).pc = "start" /\ work(r).job = r
      OBVIOUS
    <3> HIDE DEF work
    <3> QED BY <3>1, <3>2, <2>1, <2>5
  <2>7. container' \in [Nodes -> 0..MaxReleases] /\ backup' \in [Nodes -> 0..MaxReleases]
    BY <1>1 DEF TypeOK
  <2> HIDE DEF e
  <2> QED BY <1>1, <2>2, <2>3, <2>4, <2>6, <2>7, ReleaseStep
<1> QED BY <1>2, <1>3 DEF ClaimDeployment

\* What report_deployment_status leaves behind.
LEMMA ReportEffects ==
  ASSUME HostInv, NEW n \in Nodes, NEW r \in DOMAIN deployments, NEW s \in {"running", "healthy", "failed"},
         NEW origin, ReportEffect(n, r, s, origin), s = "healthy" => deployments[r].status # "healthy"
  PROVE  \/ UNCHANGED <<project, deployments>>
         \/ \E e \in Deployments :
              /\ deployments' = [deployments EXCEPT ![r] = e]
              /\ e.node = deployments[r].node /\ e.reset = deployments[r].reset
              /\ deployments[r].status # "healthy" /\ project' \in Projects
              /\ project'.consented = project.consented /\ project'.node = project.node
              /\ project'.policy = project.policy
              /\ project'.status = "running" => Healthy # {} \/ e.status = "healthy"
<1>1. deployments[r] \in Deployments /\ project \in Projects /\ r # None
  BY DEF HostInv, TypeOK, None
<1>2. MoveOf(r) # {} => Healthy # {}
  BY <1>1 DEF MoveOf, HostInv, AttemptsSound, RowSound
<1>3. CASE project.status = "suspended" /\ Reachable(n) /\ UNCHANGED project
           /\ deployments' = IF deployments[r].status \in {"claimed", "running"}
                             THEN [deployments EXCEPT ![r].status = "failed"] ELSE deployments
  <2>1. CASE deployments[r].status \in {"claimed", "running"}
    <3> DEFINE e == [deployments[r] EXCEPT !.status = "failed"]
    <3>1. /\ e \in Deployments /\ e.node = deployments[r].node /\ e.reset = deployments[r].reset
          /\ deployments' = [deployments EXCEPT ![r] = e]
      BY <1>1, <1>3, <2>1 DEF Deployments
    <3>2. deployments[r].status # "healthy" /\ project'.status # "running"
      BY <1>3, <2>1
    <3> HIDE DEF e
    <3> QED BY <1>1, <1>3, <3>1, <3>2
  <2>2. CASE deployments[r].status \notin {"claimed", "running"}
    BY <1>3, <2>2
  <2> QED BY <2>1, <2>2
<1>4. CASE /\ project.status # "suspended" /\ ReportAccepted(n, r, s)
           /\ LET rejected == s = "healthy" /\ origin = "rejected"
                  now == IF rejected THEN "failed" ELSE s
              IN /\ deployments' = [deployments EXCEPT ![r] =
                      [deployments[r] EXCEPT !.status = now,
                         !.origin = deployments[r].origin \/ (s = "healthy" /\ origin = "trusted")]]
                 /\ project' = [project EXCEPT !.status =
                      CASE now = "failed" -> Fallback(r, rejected)
                        [] now = "running" -> "deploying"
                        [] OTHER -> IF MoveOf(r) # {} THEN "deploying" ELSE "running"]
  <2> DEFINE rejected == s = "healthy" /\ origin = "rejected"
             now == IF rejected THEN "failed" ELSE s
             to == CASE now = "failed" -> Fallback(r, rejected)
                     [] now = "running" -> "deploying"
                     [] OTHER -> IF MoveOf(r) # {} THEN "deploying" ELSE "running"
             e == [deployments[r] EXCEPT !.status = now,
                     !.origin = deployments[r].origin \/ (s = "healthy" /\ origin = "trusted")]
  <2>1. now \in {"running", "healthy", "failed"}
    OBVIOUS
  <2>2. deployments[r].status # "healthy"
    BY <1>4 DEF ReportAccepted
  <2>3. Fallback(r, rejected) \in {"running", "failed"} /\ (Fallback(r, rejected) = "running" => Healthy # {})
    BY <1>2 DEF Fallback
  <2>4. to \in {"running", "failed", "deploying"} /\ (to = "running" => Healthy # {} \/ now = "healthy")
    <3> HIDE DEF rejected, now
    <3>1. CASE now = "failed"
      BY <3>1, <2>3
    <3>2. CASE now = "running"
      BY <3>2
    <3>3. CASE now = "healthy"
      BY <3>3
    <3> QED BY <2>1, <3>1, <3>2, <3>3
  <2>5. deployments' = [deployments EXCEPT ![r] = e] /\ project' = [project EXCEPT !.status = to]
    BY <1>4
  <2> HIDE DEF to, now
  <2>6. e \in Deployments /\ e.node = deployments[r].node /\ e.reset = deployments[r].reset /\ e.status = now
    BY <1>1, <2>1 DEF Deployments, Active
  <2>7. /\ project' \in Projects /\ project'.consented = project.consented /\ project'.node = project.node
        /\ project'.policy = project.policy /\ project'.status = to
    BY <1>1, <2>4, <2>5 DEF Projects, Statuses
  <2> HIDE DEF e
  <2> QED BY <2>2, <2>4, <2>5, <2>6, <2>7
<1> QED BY <1>3, <1>4 DEF ReportEffect

\* A report together with what the agent does after it.
LEMMA ReportStep ==
  ASSUME HostInv, NEW n \in Nodes, NEW r \in DOMAIN deployments,
         \/ UNCHANGED <<project, deployments>>
         \/ \E s \in {"running", "healthy", "failed"}, origin \in {"none", "trusted", "rejected"} :
              /\ ReportEffect(n, r, s, origin)
              /\ s = "healthy" => deployments[r].status # "healthy",
         UNCHANGED <<attempts, operations, nodes, daemon, switches>>,
         container' \in [Nodes -> 0..MaxReleases], backup' \in [Nodes -> 0..MaxReleases],
         agent' \in [Nodes -> AgentStates], \A m \in Nodes \ {n} : agent'[m] = agent[m],
         agent[n].pc \in {"started", "failing"}, agent[n].job = r,
         agent'[n].pc = "idle" \/ (agent'[n].pc \in {"started", "failing"} /\ agent'[n].job = r)
  PROVE  HostInv'
<1>1. CASE UNCHANGED <<project, deployments>>
  <2>1. TypeOK'
    BY <1>1 DEF HostInv, TypeOK
  <2> QED BY <1>1, <2>1, QuietAgent
<1>2. CASE \E e \in Deployments :
              /\ deployments' = [deployments EXCEPT ![r] = e]
              /\ e.node = deployments[r].node /\ e.reset = deployments[r].reset
              /\ deployments[r].status # "healthy" /\ project' \in Projects
              /\ project'.consented = project.consented /\ project'.node = project.node
              /\ project'.policy = project.policy
              /\ project'.status = "running" => Healthy # {} \/ e.status = "healthy"
  <2>1. PICK e \in Deployments :
              /\ deployments' = [deployments EXCEPT ![r] = e]
              /\ e.node = deployments[r].node /\ e.reset = deployments[r].reset
              /\ deployments[r].status # "healthy" /\ project' \in Projects
              /\ project'.consented = project.consented /\ project'.node = project.node
              /\ project'.policy = project.policy
              /\ project'.status = "running" => Healthy # {} \/ e.status = "healthy"
    BY <1>2
  <2>2. /\ agent'[n].pc = "operate" => agent'[n].job \in DOMAIN operations
        /\ agent'[n].pc \in {"start", "started", "failing"} => agent'[n].job \in DOMAIN deployments
    OBVIOUS
  <2> QED BY <2>1, <2>2, ReleaseStep
<1> QED BY <1>1, <1>2, ReportEffects

LEMMA ReportRunningInv == ASSUME HostInv, NEW n \in Nodes, ReportRunning(n) PROVE HostInv'
<1> DEFINE r == agent[n].job
<1>1. TypeOK /\ agent[n].pc = "started" /\ r \in DOMAIN deployments
  BY DEF HostInv, ReportRunning, AgentsSound
<1>2. /\ ReportEffect(n, r, "running", "none")
      /\ UNCHANGED <<attempts, operations, nodes, container, backup, daemon, switches>>
      /\ UNCHANGED agent \/ agent' = [agent EXCEPT ![n].pc = "failing"]
  BY DEF ReportRunning
<1>3. container' \in [Nodes -> 0..MaxReleases] /\ backup' \in [Nodes -> 0..MaxReleases]
  BY <1>1, <1>2 DEF TypeOK
<1>4. /\ agent' \in [Nodes -> AgentStates] /\ \A m \in Nodes \ {n} : agent'[m] = agent[m]
      /\ agent'[n].pc \in {"started", "failing"} /\ agent'[n].job = r
  <2>1. CASE UNCHANGED agent
    BY <2>1, <1>1 DEF TypeOK
  <2>2. CASE agent' = [agent EXCEPT ![n].pc = "failing"]
    BY <2>2, <1>1, AgentChanges DEF TypeOK
  <2> QED BY <2>1, <2>2, <1>2
<1> HIDE DEF r
<1>5. agent[n].job = r
  BY DEF r
<1> QED BY <1>1, <1>2, <1>3, <1>4, <1>5, ReportStep

LEMMA ReportHealthyInv == ASSUME HostInv, NEW n \in Nodes, ReportHealthy(n) PROVE HostInv'
<1> DEFINE r == agent[n].job
<1>1. /\ TypeOK /\ agent[n].pc = "started" /\ r \in DOMAIN deployments /\ deployments[r].status # "healthy"
  BY DEF HostInv, ReportHealthy, AgentsSound
<1>2. /\ \E origin \in {"none", "trusted", "rejected"} : ReportEffect(n, r, "healthy", origin)
      /\ UNCHANGED <<attempts, operations, nodes, container, daemon, switches>>
      /\ backup' = [backup EXCEPT ![n] = None] \/ UNCHANGED backup
      /\ agent' = [agent EXCEPT ![n] = Idle] \/ agent' = [agent EXCEPT ![n].pc = "failing"]
  BY DEF ReportHealthy
<1>3. container' \in [Nodes -> 0..MaxReleases] /\ backup' \in [Nodes -> 0..MaxReleases]
  <2>1. None \in 0..MaxReleases
    BY HostingAssumption DEF None
  <2> QED BY <1>1, <1>2, <2>1 DEF TypeOK
<1>4. /\ agent' \in [Nodes -> AgentStates] /\ \A m \in Nodes \ {n} : agent'[m] = agent[m]
      /\ agent'[n].pc = "idle" \/ (agent'[n].pc = "failing" /\ agent'[n].job = r)
  <2>1. CASE agent' = [agent EXCEPT ![n] = Idle]
    BY <2>1, <1>1, AgentChanges DEF TypeOK
  <2>2. CASE agent' = [agent EXCEPT ![n].pc = "failing"]
    BY <2>2, <1>1, AgentChanges DEF TypeOK
  <2> QED BY <2>1, <2>2, <1>2
<1> HIDE DEF r
<1>5. agent[n].job = r
  BY DEF r
<1> QED BY <1>1, <1>2, <1>3, <1>4, <1>5, ReportStep

LEMMA ReportFailedInv == ASSUME HostInv, NEW n \in Nodes, ReportFailed(n) PROVE HostInv'
<1> DEFINE r == agent[n].job
<1>1. /\ TypeOK /\ agent[n].pc = "failing" /\ r \in DOMAIN deployments
  BY DEF HostInv, ReportFailed, AgentsSound
<1>2. /\ ReportEffect(n, r, "failed", "none") \/ UNCHANGED <<project, deployments>>
      /\ UNCHANGED <<attempts, operations, nodes, daemon, switches>>
      /\ agent' = [agent EXCEPT ![n] = Idle]
      /\ container' = [container EXCEPT ![n] = backup[n]] /\ backup' = [backup EXCEPT ![n] = None]
  BY DEF ReportFailed, RestorePrevious
<1>3. container' \in [Nodes -> 0..MaxReleases] /\ backup' \in [Nodes -> 0..MaxReleases]
  <2>1. None \in 0..MaxReleases
    BY HostingAssumption DEF None
  <2> QED BY <1>1, <1>2, <2>1 DEF TypeOK
<1>4. agent' \in [Nodes -> AgentStates] /\ agent'[n].pc = "idle" /\ \A m \in Nodes \ {n} : agent'[m] = agent[m]
  BY <1>1, <1>2, AgentChanges DEF TypeOK
<1> HIDE DEF r
<1>5. agent[n].job = r
  BY DEF r
<1> QED BY <1>1, <1>2, <1>3, <1>4, <1>5, ReportStep

-----------------------------------------------------------------------------
(* The failover pass.                                                      *)

\* Save keeps the table sound when the row it writes is.
LEMMA RowSaved ==
  ASSUME TypeOK, AttemptsSound, Grows, NEW i \in DOMAIN attempts \cup {None}, NEW row \in Attempts,
         i = None => Len(attempts) < MaxMoves, Save(i, row), RowSoundNext(row)
  PROVE  /\ attempts' \in Seq(Attempts) /\ Len(attempts') <= MaxMoves
         /\ DOMAIN attempts \subseteq DOMAIN attempts' /\ AttemptsSound'
<1>1. attempts \in Seq(Attempts) /\ Len(attempts) <= MaxMoves /\ Len(attempts) \in Nat /\ MaxMoves \in Nat
  BY HostingAssumption DEF TypeOK
<1>2. \A j \in DOMAIN attempts : RowSoundNext(attempts[j])
  BY RowKept DEF AttemptsSound
<1>3. CASE i = None
  <2>1. attempts' = Append(attempts, row)
    BY <1>3 DEF Save
  <2>2. /\ attempts' \in Seq(Attempts) /\ Len(attempts') = Len(attempts) + 1
        /\ DOMAIN attempts' = DOMAIN attempts \cup {Len(attempts) + 1}
        /\ \A j \in DOMAIN attempts : attempts'[j] = attempts[j]
        /\ attempts'[Len(attempts) + 1] = row
    BY <1>1, <2>1, AppendRow
  <2>3. \A j \in DOMAIN attempts' : RowSoundNext(attempts'[j])
    BY <1>2, <2>2
  <2>4. Len(attempts') <= MaxMoves
    BY <1>1, <1>3, <2>2
  <2> QED BY <2>2, <2>3, <2>4 DEF AttemptsSound, RowSound, RowSoundNext
<1>4. CASE i # None
  <2>1. attempts' = [attempts EXCEPT ![i] = row] /\ i \in DOMAIN attempts
    BY <1>4 DEF Save
  <2>2. /\ attempts' \in Seq(Attempts) /\ Len(attempts') = Len(attempts)
        /\ DOMAIN attempts' = DOMAIN attempts
        /\ \A j \in DOMAIN attempts : j # i => attempts'[j] = attempts[j]
        /\ attempts'[i] = row
    BY <1>1, <2>1, ChangeRow
  <2>3. \A j \in DOMAIN attempts' : RowSoundNext(attempts'[j])
    BY <1>2, <2>2
  <2> QED BY <1>1, <2>2, <2>3 DEF AttemptsSound, RowSound, RowSoundNext
<1> QED BY <1>3, <1>4

\* A row of which only the status changes, to one that promises no release.
LEMMA StatusOfAttempt ==
  ASSUME NEW row \in Attempts, RowSound(row), Grows,
         NEW s \in {"completed", "failed", "edge_pending", "resolved"}, s = "edge_pending" => row.release # None
  PROVE  [row EXCEPT !.status = s] \in Attempts /\ RowSoundNext([row EXCEPT !.status = s])
<1>1. RowSoundNext(row)
  BY RowKept
<1> QED BY <1>1 DEF Attempts, Moving, RowSoundNext

LEMMA DaemonTyped ==
  ASSUME TypeOK, daemon.pc # "idle"
  PROVE  /\ daemon.row \in Attempts /\ daemon.move \in 0..MaxMoves /\ daemon.seen \in Statuses
         /\ daemon.pc \in {"queue", "edge"}
BY DEF TypeOK, Pass

LEMMA FailoverBeginInv == ASSUME HostInv, FailoverBegin PROVE HostInv'
<1> DEFINE i == AttemptFrom(project.node)
           row == IF i = None THEN Prepared ELSE attempts[i]
<1>1. /\ UNCHANGED <<project, deployments, operations, nodes, container, backup, agent, switches>>
      /\ TypeOK /\ AttemptsSound /\ (i = None => Len(attempts) < MaxMoves)
  BY DEF FailoverBegin, HostInv
<1>2. Grows
  BY <1>1, GrowsSame
<1>3. i \in DOMAIN attempts \cup {None}
  BY DEF AttemptFrom
<1>4. row \in Attempts /\ RowSound(row)
  <2>1. CASE i = None
    <3>1. Prepared \in Attempts
      BY <1>1, HostingAssumption DEF Prepared, Attempts, Moving, TypeOK, Projects, None
    <3>2. RowSound(Prepared)
      BY DEF Prepared, RowSound, HostInv, ConsentSound, None
    <3> QED BY <2>1, <3>1, <3>2
  <2>2. CASE i # None
    BY <2>2, <1>1, <1>3 DEF TypeOK, AttemptsSound
  <2> QED BY <2>1, <2>2
<1>5. RowSoundNext(row)
  BY <1>2, <1>4, RowKept
<1>6. CASE Save(i, row) /\ UNCHANGED daemon
  <2>1. /\ attempts' \in Seq(Attempts) /\ Len(attempts') <= MaxMoves
        /\ DOMAIN attempts \subseteq DOMAIN attempts' /\ AttemptsSound'
    <3> HIDE DEF row, i
    <3> QED BY <1>1, <1>2, <1>3, <1>4, <1>5, <1>6, RowSaved
  <2>2. TypeOK' /\ DaemonSound' /\ AgentsSound'
    BY <1>1, <1>2, <1>6, <2>1, DaemonKept, AgentsKept DEF HostInv, TypeOK
  <2>3. ReleasesSound' /\ DataKeptWithoutOptIn' /\ ConsentSound'
    BY <1>1 DEF HostInv, ReleasesSound, DataKeptWithoutOptIn, ConsentSound, Healthy
  <2> QED BY <2>1, <2>2, <2>3 DEF HostInv
<1>7. CASE /\ row.status = "pending" /\ UNCHANGED attempts
           /\ daemon' = [pc |-> "queue", seen |-> project.status, move |-> i, row |-> row]
  <2> HIDE DEF row
  <2>1. i \in 0..MaxMoves
    BY <1>1, <1>3, HostingAssumption DEF TypeOK, None
  <2>2. TypeOK'
    BY <1>1, <1>4, <1>7, <2>1 DEF TypeOK, Projects
  <2>3. DaemonSound'
    BY <1>1, <1>3, <1>5, <1>7 DEF DaemonSound, RowSound, RowSoundNext
  <2>4. AttemptsSound' /\ AgentsSound'
    BY <1>1, <1>2, <1>7, AttemptsKept, AgentsKept DEF HostInv
  <2>5. ReleasesSound' /\ DataKeptWithoutOptIn' /\ ConsentSound'
    BY <1>1 DEF HostInv, ReleasesSound, DataKeptWithoutOptIn, ConsentSound, Healthy
  <2> QED BY <2>2, <2>3, <2>4, <2>5 DEF HostInv
<1> QED BY <1>6, <1>7 DEF FailoverBegin

\* A replacement goes on a node of its own only for a project that opted in.
LEMMA FailoverQueueInv == ASSUME HostInv, FailoverQueue PROVE HostInv'
<1>1. /\ TypeOK /\ AttemptsSound /\ daemon.pc = "queue" /\ (daemon.move = None => Len(attempts) < MaxMoves)
      /\ UNCHANGED <<operations, nodes, container, backup, agent, switches>> /\ daemon' = Pass
  BY DEF FailoverQueue, HostInv
<1>2. /\ daemon.row \in Attempts /\ RowSound(daemon.row) /\ daemon.row.status = "pending"
      /\ daemon.move \in DOMAIN attempts \cup {None}
  BY <1>1, DaemonTyped DEF HostInv, DaemonSound
<1>3. project.consented /\ Healthy # {}
  BY <1>2 DEF RowSound
<1>4. DaemonSound'
  BY <1>1, DaemonDone
<1>5. CASE Save(daemon.move, daemon.row) /\ UNCHANGED <<project, deployments>>
  <2>1. Grows
    BY <1>5, GrowsSame
  <2>2. RowSoundNext(daemon.row)
    BY <1>2, <2>1, RowKept
  <2>3. /\ attempts' \in Seq(Attempts) /\ Len(attempts') <= MaxMoves /\ AttemptsSound'
    BY <1>1, <1>2, <1>5, <2>1, <2>2, RowSaved
  <2>4. TypeOK'
    BY <1>1, <1>5, <2>3 DEF TypeOK
  <2>5. AgentsSound'
    BY <1>1, <1>5, AgentsKept DEF HostInv
  <2>6. ReleasesSound' /\ DataKeptWithoutOptIn' /\ ConsentSound'
    BY <1>1, <1>5 DEF HostInv, ReleasesSound, DataKeptWithoutOptIn, ConsentSound, Healthy
  <2> QED BY <1>4, <2>3, <2>4, <2>5, <2>6 DEF HostInv
<1>6. CASE \E t \in Nodes \ {daemon.row.source} :
          /\ Eligible(t) /\ Len(deployments) < MaxReleases
          /\ NewDeployment(t, TRUE)
          /\ Save(daemon.move, [daemon.row EXCEPT !.target = t, !.release = Len(deployments) + 1,
                                                  !.status = "deploying"])
          /\ project' = [project EXCEPT !.status = IF daemon.seen = "deploying" THEN project.status ELSE "deploying"]
  <2>1. PICK t \in Nodes :
          /\ Len(deployments) < MaxReleases /\ NewDeployment(t, TRUE)
          /\ Save(daemon.move, [daemon.row EXCEPT !.target = t, !.release = Len(deployments) + 1,
                                                  !.status = "deploying"])
          /\ project' = [project EXCEPT !.status = IF daemon.seen = "deploying" THEN project.status ELSE "deploying"]
    BY <1>6
  <2>2. /\ project' \in Projects /\ project'.node = project.node /\ project'.consented = project.consented
        /\ project'.policy = project.policy
    BY <1>1, <2>1 DEF TypeOK, Projects, Statuses
  <2>3. /\ deployments' \in Seq(Deployments) /\ Len(deployments') <= MaxReleases
        /\ Grows /\ Healthy' = Healthy
        /\ Len(deployments) + 1 \in DOMAIN deployments' /\ Len(deployments) + 1 # None
        /\ Len(deployments) + 1 \in 0..MaxReleases
        /\ deployments'[Len(deployments) + 1].node = t
    BY <1>1, <2>1, <2>2, ReleaseQueued
  <2> DEFINE row == [daemon.row EXCEPT !.target = t, !.release = Len(deployments) + 1, !.status = "deploying"]
  <2>4. row \in Attempts /\ RowSoundNext(row)
    BY <1>2, <1>3, <2>2, <2>3 DEF Attempts, Moving, RowSoundNext
  <2>5. Save(daemon.move, row)
    BY <2>1
  <2> HIDE DEF row
  <2>6. /\ attempts' \in Seq(Attempts) /\ Len(attempts') <= MaxMoves /\ AttemptsSound'
    BY <1>1, <1>2, <2>3, <2>4, <2>5, RowSaved
  <2>7. TypeOK'
    BY <1>1, <2>2, <2>3, <2>6 DEF TypeOK
  <2>8. AgentsSound'
    BY <1>1, <2>3, AgentsKept DEF HostInv, Grows
  <2>9. ReleasesSound' /\ DataKeptWithoutOptIn'
    BY <1>1, <1>3, <2>1, <2>2, ReleasesAfterQueue DEF HostInv
  <2>10. ConsentSound'
    BY <1>3, <2>2 DEF ConsentSound
  <2> QED BY <1>4, <2>6, <2>7, <2>8, <2>9, <2>10 DEF HostInv
<1> QED BY <1>5, <1>6 DEF FailoverQueue

LEMMA FailoverFinalizeInv == ASSUME HostInv, FailoverFinalize PROVE HostInv'
<1>1. /\ TypeOK /\ AttemptsSound /\ daemon.pc = "idle"
      /\ UNCHANGED <<deployments, operations, nodes, container, backup, agent, switches>>
  BY DEF FailoverFinalize, HostInv
<1>2. PICK i \in DOMAIN attempts :
        /\ attempts[i].status \in {"deploying", "edge_pending"}
        /\ LET d == deployments[attempts[i].release] IN
           \/ /\ attempts' = [attempts EXCEPT ![i].status = "failed"]
              /\ project' = [project EXCEPT !.status =
                   IF nodes[attempts[i].source].status = "active" THEN "running" ELSE "failed"]
              /\ UNCHANGED daemon
           \/ /\ d.status = "healthy" /\ d.origin
              /\ daemon' = [pc |-> "edge", seen |-> project.status, move |-> i, row |-> attempts[i]]
              /\ UNCHANGED <<project, attempts>>
  BY DEF FailoverFinalize
<1>3. attempts[i] \in Attempts /\ RowSound(attempts[i]) /\ attempts[i].release # None
  BY <1>1, <1>2 DEF TypeOK, AttemptsSound, RowSound
<1>4. project.consented /\ Healthy # {}
  BY <1>3 DEF RowSound
<1>5. CASE /\ attempts' = [attempts EXCEPT ![i].status = "failed"]
           /\ project' = [project EXCEPT !.status =
                   IF nodes[attempts[i].source].status = "active" THEN "running" ELSE "failed"]
           /\ UNCHANGED daemon
  <2>1. /\ project' \in Projects /\ project'.node = project.node /\ project'.consented = project.consented
        /\ project'.policy = project.policy
    BY <1>1, <1>5 DEF TypeOK, Projects, Statuses
  <2>2. Grows
    BY <1>1, <2>1, GrowsSame
  <2> DEFINE row == [attempts[i] EXCEPT !.status = "failed"]
  <2>3. row \in Attempts /\ RowSoundNext(row)
    BY <1>3, <2>2, StatusOfAttempt
  <2>4. Save(i, row)
    BY <1>1, <1>5 DEF Save, None, TypeOK
  <2>5. i # None
    BY <1>1 DEF None, TypeOK
  <2> HIDE DEF row
  <2>6. /\ attempts' \in Seq(Attempts) /\ Len(attempts') <= MaxMoves
        /\ DOMAIN attempts \subseteq DOMAIN attempts' /\ AttemptsSound'
    BY <1>1, <2>2, <2>3, <2>4, <2>5, RowSaved
  <2>7. TypeOK'
    BY <1>1, <1>5, <2>1, <2>6 DEF TypeOK
  <2>8. DaemonSound' /\ AgentsSound'
    BY <1>1, <1>5, <2>2, <2>6, DaemonKept, AgentsKept DEF HostInv
  <2>9. ReleasesSound'
    BY <1>1, <1>4, <2>1, ReleasesSame DEF HostInv
  <2>10. DataKeptWithoutOptIn' /\ ConsentSound'
    BY <1>4, <2>1 DEF DataKeptWithoutOptIn, ConsentSound
  <2> QED BY <2>6, <2>7, <2>8, <2>9, <2>10 DEF HostInv
<1>6. CASE /\ deployments[attempts[i].release].status = "healthy"
           /\ daemon' = [pc |-> "edge", seen |-> project.status, move |-> i, row |-> attempts[i]]
           /\ UNCHANGED <<project, attempts>>
  <2>1. Grows
    BY <1>1, <1>6, GrowsSame
  <2>2. i \in 0..MaxMoves /\ i # None
    BY <1>1, HostingAssumption DEF TypeOK, None
  <2>3. TypeOK'
    BY <1>1, <1>3, <1>6, <2>2 DEF TypeOK, Projects
  <2>4. RowSoundNext(attempts[i])
    BY <1>3, <2>1, RowKept
  <2>5. DaemonSound'
    BY <1>1, <1>3, <1>6, <2>2, <2>4 DEF DaemonSound, RowSound, RowSoundNext
  <2>6. AttemptsSound' /\ AgentsSound'
    BY <1>1, <1>6, <2>1, AttemptsKept, AgentsKept DEF HostInv
  <2>7. ReleasesSound' /\ DataKeptWithoutOptIn' /\ ConsentSound'
    BY <1>1, <1>6 DEF HostInv, ReleasesSound, DataKeptWithoutOptIn, ConsentSound, Healthy
  <2> QED BY <2>3, <2>5, <2>6, <2>7 DEF HostInv
<1> QED BY <1>2, <1>5, <1>6

\* The project goes to the target of the attempt, where its release is healthy.
LEMMA FailoverEdgeInv == ASSUME HostInv, FailoverEdge PROVE HostInv'
<1> DEFINE m == daemon.row
<1>1. /\ TypeOK /\ AttemptsSound /\ daemon.pc = "edge" /\ daemon' = Pass
      /\ UNCHANGED <<deployments, nodes, container, backup, agent, switches>>
  BY DEF FailoverEdge, HostInv
<1>2. /\ m \in Attempts /\ RowSound(m) /\ m.release # None
      /\ daemon.move \in DOMAIN attempts /\ daemon.move # None
      /\ deployments[m.release].status = "healthy"
  BY <1>1, DaemonTyped DEF HostInv, DaemonSound
<1>3. /\ project.consented /\ m.release \in Healthy /\ deployments[m.release].node = m.target
      /\ m.target \in Nodes
  <2> HIDE DEF m
  <2>1. /\ project.consented /\ m.release \in DOMAIN deployments
        /\ deployments[m.release].node = m.target
    BY <1>2 DEF RowSound
  <2>2. deployments[m.release] \in Deployments
    BY <1>1, <2>1 DEF TypeOK
  <2>3. m.release \in Healthy
    BY <1>2, <2>1 DEF Healthy
  <2> QED BY <2>1, <2>2, <2>3 DEF Deployments
<1>4. DaemonSound'
  BY <1>1, DaemonDone
<1> HIDE DEF m
<1>5. CASE Cutover
  <2>1. /\ project' = [project EXCEPT !.node = m.target,
                                      !.status = IF daemon.seen = "running" THEN project.status ELSE "running"]
        /\ Save(daemon.move, [m EXCEPT !.status = "completed"])
        /\ \/ UNCHANGED operations
           \/ /\ Len(operations) < MaxOperations
              /\ operations' = Append(operations, [node |-> m.source, kind |-> "retire", status |-> "queued"])
    BY <1>5 DEF Cutover, m
  <2>2. /\ project' \in Projects /\ project'.node = m.target /\ project'.consented = project.consented
        /\ project'.policy = project.policy
    BY <1>1, <1>3, <2>1 DEF TypeOK, Projects, Statuses
  <2>3. Grows
    BY <1>1, <2>2, GrowsSame
  <2>4. [m EXCEPT !.status = "completed"] \in Attempts /\ RowSoundNext([m EXCEPT !.status = "completed"])
    BY <1>2, <2>3, StatusOfAttempt
  <2>5. attempts' \in Seq(Attempts) /\ Len(attempts') <= MaxMoves /\ AttemptsSound'
    BY <1>1, <1>2, <2>1, <2>3, <2>4, RowSaved
  <2>6. /\ operations' \in Seq(Operations) /\ Len(operations') <= MaxOperations
        /\ DOMAIN operations \subseteq DOMAIN operations'
    <3>1. CASE UNCHANGED operations
      BY <1>1, <3>1 DEF TypeOK
    <3>2. CASE /\ Len(operations) < MaxOperations
               /\ operations' = Append(operations, [node |-> m.source, kind |-> "retire", status |-> "queued"])
      <4> DEFINE e == [node |-> m.source, kind |-> "retire", status |-> "queued"]
      <4>1. operations \in Seq(Operations) /\ e \in Operations /\ MaxOperations \in Nat
        BY <1>1, <1>2, HostingAssumption DEF TypeOK, Operations, Attempts
      <4> HIDE DEF e
      <4>2. operations' = Append(operations, e)
        BY <3>2 DEF e
      <4>3. /\ operations' \in Seq(Operations) /\ Len(operations') = Len(operations) + 1
            /\ Len(operations) \in Nat /\ DOMAIN operations \subseteq DOMAIN operations'
        BY <4>1, <4>2, AppendRow
      <4> QED BY <3>2, <4>1, <4>3
    <3> QED BY <3>1, <3>2, <2>1
  <2>7. TypeOK'
    BY <1>1, <2>2, <2>5, <2>6 DEF TypeOK
  <2>8. AgentsSound'
    BY <1>1, <2>6, AgentsKept DEF HostInv
  <2>9. ReleasesSound'
    BY <1>1, <1>3, <2>2 DEF ReleasesSound, Healthy
  <2>10. DataKeptWithoutOptIn' /\ ConsentSound'
    BY <1>3, <2>2 DEF DataKeptWithoutOptIn, ConsentSound
  <2> QED BY <1>4, <2>5, <2>7, <2>8, <2>9, <2>10 DEF HostInv
<1>6. CASE Save(daemon.move, [m EXCEPT !.status = "edge_pending"]) /\ UNCHANGED <<project, operations>>
  <2>1. Grows
    BY <1>1, <1>6, GrowsSame
  <2>2. [m EXCEPT !.status = "edge_pending"] \in Attempts /\ RowSoundNext([m EXCEPT !.status = "edge_pending"])
    BY <1>2, <2>1, StatusOfAttempt
  <2>3. attempts' \in Seq(Attempts) /\ Len(attempts') <= MaxMoves /\ AttemptsSound'
    BY <1>1, <1>2, <1>6, <2>1, <2>2, RowSaved
  <2>4. TypeOK'
    BY <1>1, <1>6, <2>3 DEF TypeOK
  <2>5. AgentsSound'
    BY <1>1, <1>6, AgentsKept DEF HostInv
  <2>6. ReleasesSound' /\ DataKeptWithoutOptIn' /\ ConsentSound'
    BY <1>1, <1>6 DEF HostInv, ReleasesSound, DataKeptWithoutOptIn, ConsentSound, Healthy
  <2> QED BY <1>4, <2>3, <2>4, <2>5, <2>6 DEF HostInv
<1> QED BY <1>5, <1>6 DEF FailoverEdge, m

LEMMA FailoverResolveInv == ASSUME HostInv, FailoverResolve PROVE HostInv'
<1>1. /\ TypeOK /\ AttemptsSound
      /\ UNCHANGED <<project, deployments, operations, nodes, container, backup, agent, daemon, switches>>
  BY DEF FailoverResolve, HostInv
<1>2. PICK i \in DOMAIN attempts : attempts' = [attempts EXCEPT ![i].status = "resolved"]
  BY DEF FailoverResolve
<1>3. Grows
  BY <1>1, GrowsSame
<1>4. attempts[i] \in Attempts /\ RowSound(attempts[i]) /\ i # None
  BY <1>1 DEF TypeOK, AttemptsSound, None
<1> DEFINE row == [attempts[i] EXCEPT !.status = "resolved"]
<1>5. row \in Attempts /\ RowSoundNext(row)
  BY <1>3, <1>4, StatusOfAttempt
<1>6. Save(i, row)
  BY <1>2, <1>4 DEF Save
<1> HIDE DEF row
<1>7. /\ attempts' \in Seq(Attempts) /\ Len(attempts') <= MaxMoves
      /\ DOMAIN attempts \subseteq DOMAIN attempts' /\ AttemptsSound'
  BY <1>1, <1>3, <1>4, <1>5, <1>6, RowSaved
<1>8. TypeOK' /\ DaemonSound' /\ AgentsSound'
  BY <1>1, <1>3, <1>7, DaemonKept, AgentsKept DEF HostInv, TypeOK
<1>9. ReleasesSound' /\ DataKeptWithoutOptIn' /\ ConsentSound'
  BY <1>1 DEF HostInv, ReleasesSound, DataKeptWithoutOptIn, ConsentSound, Healthy
<1> QED BY <1>7, <1>8, <1>9 DEF HostInv

LEMMA FailoverRollbackInv == ASSUME HostInv, FailoverRollback PROVE HostInv'
<1>1. /\ UNCHANGED <<project, deployments, attempts, operations, nodes, container, backup, agent, switches>>
      /\ daemon' = Pass
  BY DEF FailoverRollback
<1>2. Grows
  BY <1>1, GrowsSame
<1>3. TypeOK'
  BY <1>1 DEF HostInv, TypeOK
<1>4. AttemptsSound' /\ DaemonSound' /\ AgentsSound'
  BY <1>1, <1>2, AttemptsKept, DaemonDone, AgentsKept DEF HostInv
<1>5. ReleasesSound' /\ DataKeptWithoutOptIn' /\ ConsentSound'
  BY <1>1 DEF HostInv, ReleasesSound, DataKeptWithoutOptIn, ConsentSound, Healthy
<1> QED BY <1>3, <1>4, <1>5 DEF HostInv

-----------------------------------------------------------------------------
(* The theorems.                                                           *)

LEMMA StepInv == HostInv /\ [Next]_vars => HostInv'
<1> SUFFICES ASSUME HostInv, [Next]_vars PROVE HostInv'
  OBVIOUS
<1>1. CASE UNCHANGED vars
  <2>1. UNCHANGED <<deployments, attempts, operations, daemon, agent, project>> /\ TypeOK'
    BY <1>1 DEF vars, HostInv, TypeOK
  <2>2. /\ project'.policy = "stateless_auto" => project'.consented
        /\ project'.status = "running" => Healthy # {}
    BY <2>1 DEF HostInv, ConsentSound, ReleasesSound
  <2> QED BY <2>1, <2>2, QuietInv
<1>2. CASE QueueDeployment \/ RollbackDeployment
  BY <1>2, CreateDeploymentInv DEF QueueDeployment, RollbackDeployment
<1>3. CASE Relocate \/ UpdateProject \/ UpdateFailoverPolicy \/ AttachDatabase
  BY <1>3, RelocateInv, UpdateProjectInv, UpdateFailoverPolicyInv, AttachDatabaseInv
<1>4. CASE RestartProject \/ RequestLogs
  BY <1>4, QueueOperationInv DEF RestartProject, RequestLogs
<1>5. CASE FailoverBegin \/ FailoverQueue \/ FailoverFinalize
  BY <1>5, FailoverBeginInv, FailoverQueueInv, FailoverFinalizeInv
<1>6. CASE FailoverEdge \/ FailoverResolve \/ FailoverRollback
  BY <1>6, FailoverEdgeInv, FailoverResolveInv, FailoverRollbackInv
<1>7. CASE \E n \in Nodes : UpdateNode(n) \/ HealthPass(n)
  BY <1>7, UpdateNodeInv, HealthPassInv
<1>8. CASE \E n \in Nodes : AgentStep(n)
  BY <1>8, PollOperationInv, OperateInv, ClaimDeploymentInv, StartCandidateInv, ReportRunningInv,
     ReportHealthyInv, HealthCheckFailsInv, ReportFailedInv, CrashInv DEF AgentStep
<1> QED BY <1>1, <1>2, <1>3, <1>4, <1>5, <1>6, <1>7, <1>8 DEF Next

\* The rows of releases, attempts and operations, the daemon's loaded copies and the
\* agents' jobs stay sound, for any number of nodes, releases, attempts and operations.
THEOREM Invariance == Spec => []HostInv
BY InitInv, StepInv, PTL DEF Spec

\* A project that the control plane calls running has a release that its own node reported
\* healthy, whatever reports, relocations and stale writes of the daemon overtake each other
\* (report_deployment_status, _finalize_attempt).
THEOREM RunningSound == Spec => []RunningHasRelease
<1>1. HostInv => RunningHasRelease
  BY DEF HostInv, ReleasesSound, RunningHasRelease
<1> QED BY <1>1, Invariance, PTL

\* A project whose owner never opted in to stateless failover is never moved, reset or
\* retired, although the daemon commits rows that it loaded before (_prepare_attempt,
\* _queue_replacement, request_project_relocation).
THEOREM DataKept == Spec => []DataKeptWithoutOptIn
<1>1. HostInv => DataKeptWithoutOptIn
  BY DEF HostInv
<1> QED BY <1>1, Invariance, PTL

-----------------------------------------------------------------------------
(* HostingDatabases: one node, its capacity and its databases.             *)

\* Everything that can be placed on the node.
Items == Tenants \cup Reservations \cup Databases

\* What is assumed of the constants.
NodeAssumption ==
  /\ IsFiniteSet(Items) /\ Capacities \subseteq Nat /\ Capacities # {} /\ MaxBackups \in Nat
  /\ Tenants \cap Databases = {} /\ Reservations \cap Databases = {}

Requests ==
  {D!Idle}
  \cup [at : {"placing"}, kind : {"project", "database", "reservation", "failover"},
        items : SUBSET Items, last : Items, blind : {0, 1}]
  \cup [at : {"node"}, capacity : Capacities]

RowStates ==
  [status : {"none", "queued", "deleting", "working", "ready", "suspended", "failed"},
   op : {"none", "provision", "rotate", "suspend", "resume", "delete"}, stored : Nat, pending : Nat]

Jobs == {D!Idle} \cup [at : {"database"}, db : Databases, ok : BOOLEAN] \cup [at : {"backup"}, i : 1..MaxBackups]

BackupRows ==
  [db : Databases \cup {"none"}, op : {"none", "backup", "restore"},
   status : {"none", "queued", "claimed", "succeeded", "failed"}]

NodeTyped ==
  /\ NodeAssumption
  /\ capacity \in Capacities /\ drift \in Nat
  /\ thread \in [Threads -> Requests]
  /\ placement \in [Tenants -> {"absent", "elsewhere", "waiting", "here", "incoming", "suspended"}]
  /\ reservation \in [Reservations -> {"none", "active", "released", "expired"}]
  /\ db \in [Databases -> RowStates] /\ dbAgent \in Jobs
  /\ backups \in [1..MaxBackups -> BackupRows]

\* One placement at a time, of databases that are not there yet, and it fits.
PlacingSound ==
  \A t \in Threads : thread[t].at = "placing" =>
    /\ \A u \in Threads \ {t} : thread[u].at # "placing"
    /\ \A d \in thread[t].items \cap Databases : db[d].status = "none"
    /\ Cardinality(D!Committed \cup thread[t].items) <= capacity + drift + thread[t].blind

\* The row whose operation the agent runs is counted.
AgentWorks == dbAgent.at = "database" => db[dbAgent.db].status = "working"

NodeInv == NodeTyped /\ PlacingSound /\ AgentWorks /\ D!PlacementFits

-----------------------------------------------------------------------------
(* Counting.                                                               *)

LEMMA Plus == ASSUME NEW a \in Nat, NEW b \in Nat PROVE a + b \in Nat
OBVIOUS

LEMMA Counting ==
  ASSUME NEW S, NEW T, IsFiniteSet(T), S \subseteq T
  PROVE  /\ IsFiniteSet(S) /\ Cardinality(S) \in Nat /\ Cardinality(T) \in Nat
         /\ Cardinality(S) <= Cardinality(T)
BY FS_Subset, FS_CardinalityType

LEMMA CountingOneMore ==
  ASSUME NEW S, NEW x, IsFiniteSet(S)
  PROVE  /\ IsFiniteSet(S \cup {x}) /\ Cardinality(S \cup {x}) \in Nat /\ Cardinality(S) \in Nat
         /\ Cardinality(S \cup {x}) <= Cardinality(S) + 1
<1>1. /\ IsFiniteSet(S \cup {x})
      /\ Cardinality(S \cup {x}) = IF x \in S THEN Cardinality(S) ELSE Cardinality(S) + 1
  BY FS_AddElement
<1>2. Cardinality(S) \in Nat
  BY FS_CardinalityType
<1> QED BY <1>1, <1>2

LEMMA SameCardinality == ASSUME NEW S PROVE D!Cardinality(S) = Cardinality(S)
BY DEF D!Cardinality, Cardinality

LEMMA SameFinite == ASSUME NEW S, D!IsFiniteSet(S) PROVE IsFiniteSet(S)
BY DEF D!IsFiniteSet, IsFiniteSet

LEMMA Assumed == ASSUME D!HostingDatabasesAssumption PROVE NodeAssumption
<1>1. IsFiniteSet(Items)
  BY SameFinite DEF D!HostingDatabasesAssumption, Items
<1> QED BY <1>1 DEF D!HostingDatabasesAssumption, NodeAssumption

LEMMA CommittedFinite ==
  ASSUME NodeTyped
  PROVE  D!Committed \subseteq Items /\ IsFiniteSet(Items) /\ IsFiniteSet(D!Committed)
BY FS_Subset DEF NodeTyped, NodeAssumption, D!Committed, Items

LEMMA Numbers == ASSUME NodeTyped PROVE capacity \in Nat /\ drift \in Nat
BY DEF NodeTyped, NodeAssumption

LEMMA Threaded ==
  ASSUME NodeTyped, NEW t \in Threads, thread[t].at = "placing"
  PROVE  /\ thread[t].items \subseteq Items /\ thread[t].last \in Items /\ thread[t].blind \in {0, 1}
         /\ thread[t].kind \in {"project", "database", "reservation", "failover"}
BY DEF NodeTyped, Requests, D!Idle

\* A step that places nothing: what the node holds grows by at most the allowance that the
\* history variable drift records.
LEMMA NoPlacing ==
  ASSUME NodeInv, NodeTyped', NEW x, D!Committed' \subseteq D!Committed \cup {x},
         capacity' + drift' >= capacity + drift,
         D!Committed' \subseteq D!Committed \/ capacity' + drift' >= capacity + drift + 1,
         \A t \in Threads : thread'[t].at = "placing" => thread'[t] = thread[t],
         \A d \in Databases : db[d].status = "none" => db'[d].status = "none",
         AgentWorks'
  PROVE  NodeInv'
<1> DEFINE room == capacity + drift
           more == capacity' + drift'
<1>1. /\ room \in Nat /\ more \in Nat /\ more >= room
      /\ D!Committed' \subseteq D!Committed \/ more >= room + 1
  <2>1. capacity \in Nat /\ drift \in Nat
    BY Numbers DEF NodeInv
  <2>2. capacity' \in Nat /\ drift' \in Nat
    BY DEF NodeTyped, NodeAssumption
  <2>3. room \in Nat /\ more \in Nat
    BY ONLY <2>1, <2>2, Plus
  <2>4. more >= room
    OBVIOUS
  <2>5. D!Committed' \subseteq D!Committed \/ more >= room + 1
    OBVIOUS
  <2> QED BY <2>3, <2>4, <2>5
<1>2. D!Committed \subseteq Items /\ D!Committed' \subseteq Items /\ IsFiniteSet(Items)
  BY CommittedFinite DEF NodeInv, D!Committed, Items
<1> HIDE DEF room, more
<1>3. ASSUME NEW I, I \subseteq Items, NEW b \in Nat, Cardinality(D!Committed \cup I) <= room + b
      PROVE  Cardinality(D!Committed' \cup I) <= more + b
  <2> DEFINE S == D!Committed \cup I
             T == D!Committed' \cup I
  <2>1. S \subseteq Items /\ T \subseteq Items /\ T \subseteq S \cup {x}
    BY <1>2, <1>3
  <2>2. D!Committed' \subseteq D!Committed => T \subseteq S
    OBVIOUS
  <2>3. Cardinality(S) <= room + b
    BY <1>3
  <2> HIDE DEF S, T
  <2>4. IsFiniteSet(S) /\ Cardinality(S) \in Nat
    BY <1>2, <2>1, Counting
  <2>5. CASE D!Committed' \subseteq D!Committed
    <3>1. Cardinality(T) \in Nat /\ Cardinality(T) <= Cardinality(S)
      BY <2>2, <2>4, <2>5, Counting
    <3>2. Cardinality(T) <= more + b
      BY <1>1, <1>3, <2>3, <2>4, <3>1
    <3> QED BY <3>2 DEF T
  <2>6. CASE more >= room + 1
    <3>1. /\ IsFiniteSet(S \cup {x}) /\ Cardinality(S \cup {x}) <= Cardinality(S) + 1
          /\ Cardinality(S \cup {x}) \in Nat
      BY <2>4, CountingOneMore
    <3>2. Cardinality(T) \in Nat /\ Cardinality(T) <= Cardinality(S \cup {x})
      BY <2>1, <3>1, Counting
    <3>3. Cardinality(T) <= more + b
      BY <1>1, <1>3, <2>3, <2>4, <2>6, <3>1, <3>2
    <3> QED BY <3>3 DEF T
  <2> QED BY <1>1, <2>5, <2>6
<1>4. D!PlacementFits'
  <2>1. Cardinality(D!Committed) <= room + 0 /\ D!Committed \cup {} = D!Committed /\ D!Committed' \cup {} = D!Committed'
    BY <1>1, SameCardinality DEF NodeInv, D!PlacementFits, room
  <2>2. Cardinality(D!Committed' \cup {}) <= more + 0
    BY <1>3, <2>1
  <2> QED BY <1>1, <2>1, <2>2, SameCardinality DEF D!PlacementFits, more
<1>5. PlacingSound'
  <2> SUFFICES ASSUME NEW t \in Threads, thread'[t].at = "placing"
               PROVE  /\ \A u \in Threads \ {t} : thread'[u].at # "placing"
                      /\ \A d \in thread'[t].items \cap Databases : db'[d].status = "none"
                      /\ Cardinality(D!Committed' \cup thread'[t].items) <= more + thread'[t].blind
    BY DEF PlacingSound, more
  <2>1. thread'[t] = thread[t] /\ thread[t].at = "placing"
    OBVIOUS
  <2>2. thread[t].items \subseteq Items /\ thread[t].blind \in Nat
    BY <2>1, Threaded DEF NodeInv
  <2>3. Cardinality(D!Committed \cup thread[t].items) <= room + thread[t].blind
    BY <2>1 DEF NodeInv, PlacingSound, room
  <2>4. Cardinality(D!Committed' \cup thread[t].items) <= more + thread[t].blind
    BY <1>3, <2>2, <2>3
  <2>5. \A u \in Threads \ {t} : thread'[u].at # "placing"
    BY <2>1 DEF NodeInv, PlacingSound
  <2>6. \A d \in thread'[t].items \cap Databases : db'[d].status = "none"
    BY <2>1 DEF NodeInv, PlacingSound
  <2> QED BY <2>1, <2>4, <2>5, <2>6
<1> QED BY <1>4, <1>5 DEF NodeInv
-----------------------------------------------------------------------------
(* Every step keeps the types.                                             *)

LEMMA PlaceBeginTyped ==
  ASSUME NodeTyped, NEW t \in Threads, NEW item \in Items,
         NEW what \in {"project", "database", "reservation", "failover"}, D!PlaceBegin(t, what, item)
  PROVE  NodeTyped'
<1>1. [at |-> "placing", kind |-> what, items |-> {item}, last |-> item, blind |-> 0] \in Requests
  BY DEF Requests
<1> HIDE DEF Requests
<1> QED BY <1>1 DEF NodeTyped, D!PlaceBegin, D!placed

LEMMA PlaceMoreTyped ==
  ASSUME NodeTyped, NEW t \in Threads, thread[t].at = "placing", NEW x \in Items, NEW y \in Items, NEW b \in {0, 1},
         thread' = [thread EXCEPT ![t].items = @ \cup {x}, ![t].last = y, ![t].blind = b],
         UNCHANGED <<capacity, drift, placement, reservation, db, dbAgent, backups>>
  PROVE  NodeTyped'
<1> DEFINE r == [thread[t] EXCEPT !.items = @ \cup {x}, !.last = y, !.blind = b]
<1>1. r \in Requests
  BY DEF NodeTyped, Requests, D!Idle
<1>2. thread' = [thread EXCEPT ![t] = r]
  BY DEF NodeTyped
<1> HIDE DEF r, Requests
<1>3. thread' \in [Threads -> Requests]
  BY ONLY <1>1, <1>2, NodeTyped DEF NodeTyped
<1> QED BY ONLY <1>3, NodeTyped, UNCHANGED <<capacity, drift, placement, reservation, db, dbAgent, backups>> DEF NodeTyped

LEMMA RowTyped ==
  ASSUME NEW row \in RowStates, NEW s \in {"none", "queued", "deleting", "working", "ready", "suspended", "failed"},
         NEW o \in {"none", "provision", "rotate", "suspend", "resume", "delete"}, NEW n \in Nat, NEW m \in Nat
  PROVE  /\ [row EXCEPT !.status = s] \in RowStates
         /\ [row EXCEPT !.op = o, !.status = s, !.pending = m] \in RowStates
         /\ [status |-> s, op |-> o, stored |-> n, pending |-> m] \in RowStates
         /\ row.stored \in Nat /\ row.pending \in Nat /\ row.stored + 1 \in Nat
<1>1. row.stored \in Nat /\ row.pending \in Nat
  BY DEF RowStates
<1>2. [row EXCEPT !.status = s] \in RowStates /\ [row EXCEPT !.op = o, !.status = s, !.pending = m] \in RowStates
  BY DEF RowStates
<1>3. [status |-> s, op |-> o, stored |-> n, pending |-> m] \in RowStates
  BY DEF RowStates
<1> QED BY <1>1, <1>2, <1>3

LEMMA QueueTyped ==
  ASSUME NodeTyped, NEW d \in Databases, NEW op \in {"rotate", "suspend", "resume", "delete"}, D!QueueOperation(d, op)
  PROVE  NodeTyped'
<1> DEFINE m == IF op = "rotate" THEN db[d].stored + 1 ELSE db[d].pending
           s == IF op = "delete" THEN "deleting" ELSE "queued"
           row == [db[d] EXCEPT !.op = op, !.status = s, !.pending = m]
<1>1. db[d] \in RowStates
  BY DEF NodeTyped
<1>2. m \in Nat /\ s \in {"queued", "deleting"}
  BY <1>1, RowTyped
<1>3. row \in RowStates
  BY <1>1, <1>2, RowTyped
<1>4. db' = [db EXCEPT ![d] = row]
  BY DEF D!QueueOperation, NodeTyped, RowStates
<1> HIDE DEF row, m, s, RowStates
<1>5. db' \in [Databases -> RowStates]
  BY ONLY <1>3, <1>4, NodeTyped DEF NodeTyped
<1>6. UNCHANGED <<capacity, drift, thread, placement, reservation, dbAgent, backups>>
  BY DEF D!QueueOperation, D!DatabaseRequest, D!placed
<1> QED BY ONLY <1>5, <1>6, NodeTyped DEF NodeTyped

LEMMA NodeTypedNext == ASSUME NodeTyped, [D!Next]_(D!vars) PROVE NodeTyped'
<1> HIDE DEF RowStates, Requests
<1>0. \A d \in Databases : db[d] \in RowStates
  BY DEF NodeTyped
<1>1. ASSUME NEW t \in Threads PROVE thread[t] \in Requests /\ D!Idle \in Requests
  BY DEF NodeTyped, Requests
<1>2. ASSUME NEW t \in Threads, NEW p \in Tenants, D!CreateProject(t, p) \/ D!FailoverBegin(t, p)
      PROVE  NodeTyped'
  BY <1>2, PlaceBeginTyped DEF D!CreateProject, D!FailoverBegin, Items
<1>3. ASSUME NEW t \in Threads, NEW d \in Databases, D!CreateDatabase(t, d) PROVE NodeTyped'
  BY <1>3, PlaceBeginTyped DEF D!CreateDatabase, Items
<1>4. ASSUME NEW t \in Threads, NEW r \in Reservations, D!Reserve(t, r) PROVE NodeTyped'
  BY <1>4, PlaceBeginTyped DEF D!Reserve, Items
<1>5. ASSUME NEW t \in Threads, NEW p \in Tenants, D!FailoverNext(t, p) PROVE NodeTyped'
  <2> DEFINE flushed == IF placement[p] = "elsewhere" THEN thread[t].items ELSE thread[t].items \ {thread[t].last}
             b == IF flushed = thread[t].items THEN 0 ELSE 1
  <2>1. thread' = [thread EXCEPT ![t].items = @ \cup {p}, ![t].last = p, ![t].blind = b]
    BY <1>5 DEF D!FailoverNext
  <2>2. b \in {0, 1} /\ p \in Items
    BY DEF Items
  <2>3. thread[t].at = "placing" /\ UNCHANGED <<capacity, drift, placement, reservation, db, dbAgent, backups>>
    BY <1>5 DEF D!FailoverNext, D!placed
  <2> HIDE DEF b
  <2> QED BY <2>1, <2>2, <2>3, PlaceMoreTyped
<1>6. ASSUME NEW t \in Threads, NEW d \in Databases, D!ProvisionDatabase(t, d) PROVE NodeTyped'
  <2>1. thread[t].at = "placing" /\ thread' = [thread EXCEPT ![t].items = @ \cup {d}]
    BY <1>6 DEF D!ProvisionDatabase
  <2> DEFINE r == [thread[t] EXCEPT !.items = @ \cup {d}]
  <2>2. r \in Requests
    BY <1>1, <2>1 DEF Requests, D!Idle, Items
  <2>3. thread' = [thread EXCEPT ![t] = r]
    BY <2>1 DEF NodeTyped
  <2> HIDE DEF r
  <2> QED BY <1>6, <2>2, <2>3 DEF NodeTyped, D!ProvisionDatabase, D!placed
<1>7. ASSUME NEW t \in Threads, NEW c \in Capacities, D!UpdateNodeBegin(t, c) PROVE NodeTyped'
  <2>1. [at |-> "node", capacity |-> c] \in Requests
    BY DEF Requests
  <2> QED BY <1>7, <2>1 DEF NodeTyped, D!UpdateNodeBegin, D!placed
<1>8. ASSUME NEW t \in Threads, D!PlaceCommit(t) PROVE NodeTyped'
  <2>1. thread[t].blind \in Nat
    BY <1>8, Threaded DEF D!PlaceCommit
  <2>2. [status |-> "queued", op |-> "provision", stored |-> 1, pending |-> 0] \in RowStates
    BY DEF RowStates
  <2>3. drift' \in Nat
    BY <1>8, <2>1, Numbers DEF D!PlaceCommit
  <2>4. thread' \in [Threads -> Requests]
    BY <1>1, <1>8 DEF D!PlaceCommit, NodeTyped
  <2>5. db' \in [Databases -> RowStates]
    BY <1>0, <1>8, <2>2 DEF D!PlaceCommit
  <2> QED BY <1>8, <2>3, <2>4, <2>5 DEF NodeTyped, D!PlaceCommit
<1>9. ASSUME NEW t \in Threads, D!PlaceAbort(t) PROVE NodeTyped'
  BY <1>1, <1>9 DEF NodeTyped, D!PlaceAbort, D!placed
<1>10. ASSUME NEW t \in Threads, D!UpdateNodeCommit(t) PROVE NodeTyped'
  <2>1. thread[t].capacity \in Capacities
    BY <1>1, <1>10 DEF D!UpdateNodeCommit, Requests, D!Idle
  <2>2. drift' \in Nat
    <3>1. capacity \in Nat /\ drift \in Nat /\ thread[t].capacity \in Nat
      BY <2>1, Numbers DEF NodeTyped, NodeAssumption
    <3>2. capacity' = thread[t].capacity /\ drift' = drift + (IF capacity > capacity' THEN capacity - capacity' ELSE 0)
      BY <1>10 DEF D!UpdateNodeCommit
    <3>3. (IF capacity > capacity' THEN capacity - capacity' ELSE 0) \in Nat
      BY ONLY <3>1, <3>2
    <3> QED BY ONLY <3>1, <3>2, <3>3, Plus
  <2> QED BY <1>1, <1>10, <2>1, <2>2 DEF NodeTyped, D!UpdateNodeCommit
<1>11. ASSUME NEW p \in Tenants, NEW ok \in BOOLEAN, NEW s \in {"here", "suspended"},
              D!AttemptWaits(p) \/ D!AttemptEnds(p, ok) \/ D!UpdateProject(p, s)
       PROVE  NodeTyped'
  BY <1>11 DEF NodeTyped, D!AttemptWaits, D!AttemptEnds, D!UpdateProject
<1>12. ASSUME NEW r \in Reservations, NEW s \in {"released", "expired"}, D!EndReservation(r, s) PROVE NodeTyped'
  BY <1>12 DEF NodeTyped, D!EndReservation
<1>13. ASSUME NEW d \in Databases, D!RotatePassword(d) \/ D!SuspendDatabase(d) \/ D!ResumeDatabase(d) \/ D!DeleteDatabase(d)
       PROVE  NodeTyped'
  BY <1>13, QueueTyped DEF D!RotatePassword, D!SuspendDatabase, D!ResumeDatabase, D!DeleteDatabase
<1>14. ASSUME NEW d \in Databases, D!QueueDatabaseBackup(d) \/ D!QueueDatabaseRestore(d) PROVE NodeTyped'
  <2>1. PICK op \in {"backup", "restore"} : D!QueueBackup(d, op)
    BY <1>14 DEF D!QueueDatabaseBackup, D!QueueDatabaseRestore
  <2>2. [db |-> d, op |-> op, status |-> "queued"] \in BackupRows
    BY DEF BackupRows
  <2> HIDE DEF BackupRows
  <2>3. backups' \in [1..MaxBackups -> BackupRows]
    BY <2>1, <2>2 DEF NodeTyped, D!QueueBackup
  <2> QED BY <2>1, <2>3 DEF NodeTyped, D!QueueBackup, D!DatabaseRequest, D!placed
<1>15. ASSUME NEW d \in Databases, NEW ok \in BOOLEAN, NEW changed \in BOOLEAN, D!ClaimDatabase(d, ok, changed)
       PROVE  NodeTyped'
  <2>1. db' \in [Databases -> RowStates]
    <3>1. [db[d] EXCEPT !.status = "working"] \in RowStates
      BY <1>0 DEF RowStates
    <3>2. db' = [db EXCEPT ![d] = [db[d] EXCEPT !.status = "working"]]
      BY <1>15 DEF D!ClaimDatabase, NodeTyped
    <3> QED BY <1>0, <3>1, <3>2 DEF NodeTyped
  <2>2. dbAgent' \in Jobs
    BY <1>15 DEF D!ClaimDatabase, Jobs
  <2> QED BY <1>15, <2>1, <2>2 DEF NodeTyped, D!ClaimDatabase, D!placed
<1>16. ASSUME D!ReportDatabase PROVE NodeTyped'
  <2>1. dbAgent.db \in Databases /\ dbAgent' \in Jobs
    BY <1>16 DEF D!ReportDatabase, NodeTyped, Jobs, D!Idle
  <2>2. D!NoRow \in RowStates /\ db[dbAgent.db].stored \in Nat /\ db[dbAgent.db].pending \in Nat
    BY <1>0, <2>1 DEF RowStates, D!NoRow
  <2>3. \A s \in {"suspended", "ready"}, n \in Nat :
          [status |-> s, op |-> "none", stored |-> n, pending |-> 0] \in RowStates
    BY DEF RowStates
  <2>4. db' \in [Databases -> RowStates]
    BY <1>0, <1>16, <2>1, <2>2, <2>3 DEF D!ReportDatabase, NodeTyped
  <2>5. backups' \in [1..MaxBackups -> BackupRows]
    BY <1>16 DEF D!ReportDatabase, NodeTyped, BackupRows, D!NoBackup
  <2> QED BY <1>16, <2>1, <2>4, <2>5 DEF NodeTyped, D!ReportDatabase, D!placed
<1>17. ASSUME D!ReportDatabaseFailed PROVE NodeTyped'
  <2>1. dbAgent.db \in Databases /\ dbAgent' \in Jobs
    BY <1>17 DEF D!ReportDatabaseFailed, NodeTyped, Jobs, D!Idle
  <2> DEFINE row == [db[dbAgent.db] EXCEPT !.status = "failed", !.op = "none", !.pending = 0]
  <2>2. row \in RowStates
    BY <1>0, <2>1 DEF RowStates
  <2>3. db' = [db EXCEPT ![dbAgent.db] = row]
    BY <1>17, <2>1 DEF D!ReportDatabaseFailed, NodeTyped, RowStates
  <2> HIDE DEF row
  <2> QED BY <1>0, <1>17, <2>1, <2>2, <2>3 DEF NodeTyped, D!ReportDatabaseFailed, D!placed
<1>18. ASSUME NEW ok \in BOOLEAN, D!ClaimBackup \/ D!AgentLost \/ D!ReportBackup(ok) PROVE NodeTyped'
  <2>1. UNCHANGED <<capacity, drift, thread, placement, reservation, db>>
    BY <1>18 DEF D!ClaimBackup, D!AgentLost, D!ReportBackup, D!placed
  <2>2. backups' \in [1..MaxBackups -> BackupRows] /\ dbAgent' \in Jobs
    <3>1. CASE D!ClaimBackup
      BY <3>1 DEF D!ClaimBackup, NodeTyped, BackupRows, Jobs
    <3>2. CASE D!AgentLost
      BY <3>2 DEF D!AgentLost, NodeTyped, Jobs
    <3>3. CASE D!ReportBackup(ok)
      <4>1. dbAgent.i \in 1..MaxBackups /\ backups[dbAgent.i] \in BackupRows
        BY <3>3 DEF D!ReportBackup, NodeTyped, Jobs, D!Idle
      <4>2. \A s \in {"succeeded", "failed"} : [backups[dbAgent.i] EXCEPT !.status = s] \in BackupRows
        BY <4>1 DEF BackupRows
      <4> QED BY <3>3, <4>1, <4>2 DEF D!ReportBackup, NodeTyped, Jobs
    <3> QED BY <1>18, <3>1, <3>2, <3>3
  <2> QED BY <2>1, <2>2 DEF NodeTyped
<1>19. CASE UNCHANGED D!vars
  BY <1>19 DEF NodeTyped, D!vars
<1> QED BY <1>2, <1>3, <1>4, <1>5, <1>6, <1>7, <1>8, <1>9, <1>10, <1>11, <1>12, <1>13, <1>14, <1>15, <1>16,
           <1>17, <1>18, <1>19 DEF D!Next
-----------------------------------------------------------------------------
(* Placements fit.                                                         *)

\* A step of a placement: what is placed or to be placed is within the capacity, and the
\* tables are as before.
LEMMA PlacingGoesOn ==
  ASSUME NodeInv, NodeTyped', NEW t \in Threads, \A u \in Threads \ {t} : thread[u].at # "placing",
         UNCHANGED <<capacity, drift, placement, reservation, db, dbAgent>>,
         \A u \in Threads \ {t} : thread'[u] = thread[u],
         \A d \in thread'[t].items \cap Databases : db[d].status = "none",
         Cardinality(D!Committed \cup thread'[t].items) <= capacity + drift + thread'[t].blind
  PROVE  NodeInv'
<1>1. D!Committed' = D!Committed
  BY DEF D!Committed
<1>2. D!PlacementFits' /\ AgentWorks'
  BY <1>1 DEF NodeInv, D!PlacementFits, AgentWorks
<1>3. PlacingSound'
  BY <1>1 DEF PlacingSound
<1> QED BY <1>2, <1>3 DEF NodeInv

\* One more in a set of which there was room for one more.
LEMMA OneMoreFits ==
  ASSUME NEW S, IsFiniteSet(S), NEW c \in Nat, Cardinality(S) < c, NEW x, NEW T, T \subseteq S \cup {x}
  PROVE  IsFiniteSet(T) /\ Cardinality(T) \in Nat /\ Cardinality(T) <= c
<1>1. /\ IsFiniteSet(S \cup {x}) /\ Cardinality(S \cup {x}) \in Nat /\ Cardinality(S) \in Nat
      /\ Cardinality(S \cup {x}) <= Cardinality(S) + 1
  BY CountingOneMore
<1>2. IsFiniteSet(T) /\ Cardinality(T) \in Nat /\ Cardinality(T) <= Cardinality(S \cup {x})
  BY <1>1, Counting
<1> QED BY <1>1, <1>2

LEMMA PlaceBeginFits ==
  ASSUME NodeInv, NodeTyped', NEW t \in Threads, NEW item \in Items, NEW what, D!PlaceBegin(t, what, item),
         item \in Databases => db[item].status = "none"
  PROVE  NodeInv'
<1> DEFINE r == [at |-> "placing", kind |-> what, items |-> {item}, last |-> item, blind |-> 0]
<1>1. thread'[t] = r /\ \A u \in Threads \ {t} : thread'[u] = thread[u]
  BY DEF D!PlaceBegin, NodeInv, NodeTyped
<1>2. r.items = {item} /\ r.blind = 0
  OBVIOUS
<1> HIDE DEF r
<1>3. \A u \in Threads \ {t} : thread[u].at # "placing"
  BY DEF D!PlaceBegin, D!NodeLocked
<1>4. capacity \in Nat /\ drift \in Nat
  BY Numbers DEF NodeInv
<1>5. Cardinality(D!Committed) < capacity
  <2>1. D!Committed \cup {} = D!Committed
    OBVIOUS
  <2> QED BY <2>1, SameCardinality DEF D!PlaceBegin, D!Room
<1>6. Cardinality(D!Committed \cup {item}) \in Nat /\ Cardinality(D!Committed \cup {item}) <= capacity
  <2>1. IsFiniteSet(D!Committed)
    BY CommittedFinite DEF NodeInv
  <2> QED BY <1>4, <1>5, <2>1, OneMoreFits
<1>7. Cardinality(D!Committed \cup thread'[t].items) <= capacity + drift + thread'[t].blind
  <2>1. Cardinality(D!Committed \cup {item}) <= capacity + drift + 0
    BY ONLY <1>4, <1>6
  <2> QED BY <1>1, <1>2, <2>1
<1>8. UNCHANGED <<capacity, drift, placement, reservation, db, dbAgent>>
  BY DEF D!PlaceBegin, D!placed
<1>9. \A d \in thread'[t].items \cap Databases : db[d].status = "none"
  BY <1>1, <1>2
<1> QED BY <1>1, <1>3, <1>7, <1>8, <1>9, PlacingGoesOn

LEMMA ProvisionFits ==
  ASSUME NodeInv, NodeTyped', NEW t \in Threads, NEW d \in Databases, D!ProvisionDatabase(t, d)
  PROVE  NodeInv'
<1> DEFINE I == thread[t].items
<1>1. thread[t].at = "placing" /\ UNCHANGED <<capacity, drift, placement, reservation, db, dbAgent>>
  BY DEF D!ProvisionDatabase, D!placed
<1>2. I \subseteq Items /\ thread[t].blind \in Nat
  BY <1>1, Threaded DEF NodeInv
<1>3. /\ thread'[t].items = I \cup {d} /\ thread'[t].blind = thread[t].blind
      /\ \A u \in Threads \ {t} : thread'[u] = thread[u]
  BY <1>1, Threaded DEF D!ProvisionDatabase, NodeInv, NodeTyped, Requests, D!Idle
<1>4. capacity \in Nat /\ drift \in Nat
  BY Numbers DEF NodeInv
<1>5. Cardinality(D!Committed \cup I) < capacity /\ IsFiniteSet(D!Committed \cup I)
  <2>1. D!Committed \cup I \subseteq Items /\ IsFiniteSet(Items)
    BY <1>2, CommittedFinite DEF NodeInv
  <2>2. Cardinality(D!Committed \cup I) < capacity
    BY SameCardinality DEF D!ProvisionDatabase, D!Room
  <2> QED BY <2>1, <2>2, FS_Subset
<1>6. Cardinality(D!Committed \cup (I \cup {d})) \in Nat /\ Cardinality(D!Committed \cup (I \cup {d})) <= capacity
  <2>1. D!Committed \cup (I \cup {d}) \subseteq (D!Committed \cup I) \cup {d}
    OBVIOUS
  <2> QED BY <1>4, <1>5, <2>1, OneMoreFits
<1>7. Cardinality(D!Committed \cup thread'[t].items) <= capacity + drift + thread'[t].blind
  <2>1. Cardinality(D!Committed \cup (I \cup {d})) <= capacity + drift + thread[t].blind
    BY ONLY <1>2, <1>4, <1>6
  <2> QED BY <1>3, <2>1
<1>8. /\ \A u \in Threads \ {t} : thread[u].at # "placing"
      /\ \A e \in thread'[t].items \cap Databases : db[e].status = "none"
  BY <1>1, <1>3 DEF NodeInv, PlacingSound, D!ProvisionDatabase
<1> QED BY <1>1, <1>3, <1>7, <1>8, PlacingGoesOn

LEMMA FailoverNextFits ==
  ASSUME NodeInv, NodeTyped', NEW t \in Threads, NEW p \in Tenants, D!FailoverNext(t, p)
  PROVE  NodeInv'
<1> DEFINE I == thread[t].items
           last == thread[t].last
           flushed == IF placement[p] = "elsewhere" THEN I ELSE I \ {last}
           b == IF flushed = I THEN 0 ELSE 1
           S == D!Committed \cup flushed
           T == D!Committed \cup (I \cup {p})
<1>1. thread[t].at = "placing" /\ UNCHANGED <<capacity, drift, placement, reservation, db, dbAgent>>
  BY DEF D!FailoverNext, D!placed
<1>2. I \subseteq Items
  BY <1>1, Threaded DEF NodeInv
<1>3. /\ thread'[t].items = I \cup {p} /\ thread'[t].blind = b
      /\ \A u \in Threads \ {t} : thread'[u] = thread[u]
  BY <1>1, Threaded DEF D!FailoverNext, NodeInv, NodeTyped, Requests, D!Idle
<1>4. capacity \in Nat /\ drift \in Nat
  BY Numbers DEF NodeInv
<1>5. Cardinality(S) < capacity /\ IsFiniteSet(S)
  <2>1. S \subseteq Items /\ IsFiniteSet(Items)
    BY <1>2, CommittedFinite DEF NodeInv
  <2>2. Cardinality(S) < capacity
    BY SameCardinality DEF D!FailoverNext, D!Room
  <2> QED BY <2>1, <2>2, FS_Subset
<1>6. Cardinality(T) <= capacity + drift + b
  <2>1. CASE flushed = I
    <3>1. T \subseteq S \cup {p} /\ b = 0
      BY <2>1
    <3> HIDE DEF S, T, b
    <3>2. Cardinality(T) \in Nat /\ Cardinality(T) <= capacity
      BY <1>4, <1>5, <3>1, OneMoreFits
    <3> QED BY ONLY <1>4, <3>1, <3>2
  <2>2. CASE flushed # I
    <3> DEFINE U == S \cup {last}
    <3>1. T \subseteq U \cup {p} /\ b = 1
      BY <2>2
    <3>2. U \subseteq S \cup {last}
      OBVIOUS
    <3> HIDE DEF S, T, U, b
    <3>3. IsFiniteSet(U) /\ Cardinality(U) \in Nat /\ Cardinality(U) <= capacity
      BY <1>4, <1>5, <3>2, OneMoreFits
    <3>4. Cardinality(U) < capacity + 1 /\ capacity + 1 \in Nat
      BY ONLY <1>4, <3>3
    <3>5. Cardinality(T) \in Nat /\ Cardinality(T) <= capacity + 1
      BY <3>1, <3>3, <3>4, OneMoreFits
    <3> QED BY ONLY <1>4, <3>1, <3>5
  <2> QED BY <2>1, <2>2
<1>7. Cardinality(D!Committed \cup thread'[t].items) <= capacity + drift + thread'[t].blind
  BY <1>3, <1>6
<1>8. /\ \A u \in Threads \ {t} : thread[u].at # "placing"
      /\ \A e \in thread'[t].items \cap Databases : db[e].status = "none"
  BY <1>1, <1>3 DEF NodeInv, NodeTyped, NodeAssumption, PlacingSound
<1> QED BY <1>1, <1>3, <1>7, <1>8, PlacingGoesOn

LEMMA PlaceCommitFits ==
  ASSUME NodeInv, NodeTyped', NEW t \in Threads, D!PlaceCommit(t)
  PROVE  NodeInv'
<1> DEFINE I == thread[t].items
<1>1. thread[t].at = "placing" /\ capacity' = capacity /\ drift' = drift + thread[t].blind /\ dbAgent' = dbAgent
  BY DEF D!PlaceCommit
<1>2. I \subseteq Items /\ thread[t].blind \in Nat
  BY <1>1, Threaded DEF NodeInv
<1>3. D!Committed' \subseteq D!Committed \cup I
  BY DEF D!PlaceCommit, D!Committed
<1>4. capacity \in Nat /\ drift \in Nat
  BY Numbers DEF NodeInv
<1>5. D!PlacementFits'
  <2>1. D!Committed \cup I \subseteq Items /\ IsFiniteSet(Items)
    BY <1>2, CommittedFinite DEF NodeInv
  <2>2. IsFiniteSet(D!Committed \cup I)
    BY <2>1, FS_Subset
  <2>3. Cardinality(D!Committed') <= Cardinality(D!Committed \cup I) /\ Cardinality(D!Committed') \in Nat
        /\ Cardinality(D!Committed \cup I) \in Nat
    BY <1>3, <2>2, Counting
  <2>4. Cardinality(D!Committed \cup I) <= capacity + drift + thread[t].blind
    BY <1>1 DEF NodeInv, PlacingSound
  <2>5. Cardinality(D!Committed') <= capacity + (drift + thread[t].blind)
    BY ONLY <1>2, <1>4, <2>3, <2>4
  <2> QED BY <1>1, <2>5, SameCardinality DEF D!PlacementFits
<1>6. PlacingSound'
  <2>1. \A u \in Threads : thread'[u].at # "placing"
    BY <1>1 DEF NodeInv, NodeTyped, PlacingSound, D!PlaceCommit, D!Idle
  <2> QED BY <2>1 DEF PlacingSound
<1>7. AgentWorks'
  <2> SUFFICES ASSUME dbAgent.at = "database" PROVE db'[dbAgent.db].status = "working"
    BY <1>1 DEF AgentWorks
  <2>1. dbAgent.db \in Databases /\ db[dbAgent.db].status = "working"
    BY DEF NodeInv, NodeTyped, Jobs, D!Idle, AgentWorks
  <2>2. dbAgent.db \notin I
    BY <1>1, <2>1 DEF NodeInv, PlacingSound
  <2> QED BY <2>1, <2>2 DEF D!PlaceCommit
<1> QED BY <1>5, <1>6, <1>7 DEF NodeInv
\* The steps that place nothing: a request of the owner or a report of the agent may take a
\* unit without a look at the capacity, and drift counts each of them.
LEMMA OwnerFits ==
  ASSUME NodeInv, NodeTyped', NEW p \in Tenants,
         \/ D!AttemptWaits(p) \/ (\E ok \in BOOLEAN : D!AttemptEnds(p, ok))
         \/ \E s \in {"here", "suspended"} : D!UpdateProject(p, s)
  PROVE  NodeInv'
<1>1. UNCHANGED <<capacity, reservation, db, dbAgent, thread>>
  BY DEF D!AttemptWaits, D!AttemptEnds, D!UpdateProject
<1>2. capacity \in Nat /\ drift \in Nat
  BY Numbers DEF NodeInv
<1>3. AgentWorks'
  BY <1>1 DEF NodeInv, AgentWorks
<1>4. CASE D!Committed' \subseteq D!Committed /\ drift' = drift
  <2>1. capacity' + drift' >= capacity + drift
    BY ONLY <1>1, <1>2, <1>4
  <2> QED BY <1>1, <1>3, <1>4, <2>1, NoPlacing
<1>5. CASE D!Committed' \subseteq D!Committed \cup {p} /\ drift' = drift + 1
  <2>1. capacity' + drift' >= capacity + drift /\ capacity' + drift' >= capacity + drift + 1
    BY ONLY <1>1, <1>2, <1>5
  <2> QED BY <1>1, <1>3, <1>5, <2>1, NoPlacing
<1>6. placement \in [Tenants -> {"absent", "elsewhere", "waiting", "here", "incoming", "suspended"}]
  BY DEF NodeInv, NodeTyped
<1>7. CASE D!AttemptWaits(p) \/ \E ok \in BOOLEAN : D!AttemptEnds(p, ok)
  BY <1>4, <1>6, <1>7 DEF D!AttemptWaits, D!AttemptEnds, D!Committed
<1>8. CASE D!UpdateProject(p, "here")
  BY <1>5, <1>6, <1>8 DEF D!UpdateProject, D!Committed
<1>9. CASE D!UpdateProject(p, "suspended")
  BY <1>4, <1>6, <1>9 DEF D!UpdateProject, D!Committed
<1> QED BY <1>7, <1>8, <1>9

LEMMA Reduction ==
  ASSUME NEW c \in Nat, NEW d \in Nat, NEW e \in Nat
  PROVE  e + (d + (IF c > e THEN c - e ELSE 0)) >= c + d
<1>1. CASE c > e
  BY <1>1
<1>2. CASE ~(c > e)
  BY <1>2
<1> QED BY <1>1, <1>2

LEMMA RequestsFit ==
  ASSUME NodeInv, NodeTyped', NEW t \in Threads,
         D!PlaceAbort(t) \/ D!UpdateNodeCommit(t) \/ \E c \in Capacities : D!UpdateNodeBegin(t, c)
  PROVE  NodeInv'
<1>1. UNCHANGED <<placement, reservation, db, dbAgent>>
  BY DEF D!PlaceAbort, D!UpdateNodeCommit, D!UpdateNodeBegin, D!placed
<1>2. capacity \in Nat /\ drift \in Nat
  BY Numbers DEF NodeInv
<1>3. AgentWorks' /\ D!Committed' = D!Committed
  BY <1>1 DEF NodeInv, AgentWorks, D!Committed
<1>4. \A u \in Threads : thread'[u].at = "placing" => thread'[u] = thread[u]
  BY DEF D!PlaceAbort, D!UpdateNodeCommit, D!UpdateNodeBegin, NodeInv, NodeTyped, D!Idle
<1>5. capacity' + drift' >= capacity + drift
  <2>1. CASE D!PlaceAbort(t) \/ \E c \in Capacities : D!UpdateNodeBegin(t, c)
    <3>1. capacity' = capacity /\ drift' = drift
      BY <2>1 DEF D!PlaceAbort, D!UpdateNodeBegin, D!placed
    <3> QED BY ONLY <1>2, <3>1
  <2>2. CASE D!UpdateNodeCommit(t)
    <3>1. drift' = drift + (IF capacity > capacity' THEN capacity - capacity' ELSE 0)
      BY <2>2 DEF D!UpdateNodeCommit
    <3>2. capacity' \in Nat
      BY DEF NodeTyped, NodeAssumption
    <3>3. capacity' + (drift + (IF capacity > capacity' THEN capacity - capacity' ELSE 0)) >= capacity + drift
      BY ONLY <1>2, <3>2, Reduction
    <3> QED BY ONLY <3>1, <3>3
  <2> QED BY <2>1, <2>2
<1> QED BY <1>1, <1>3, <1>4, <1>5, NoPlacing

LEMMA ReservationsFit ==
  ASSUME NodeInv, NodeTyped', NEW r \in Reservations, NEW s \in {"released", "expired"}, D!EndReservation(r, s)
  PROVE  NodeInv'
<1>1. UNCHANGED <<capacity, placement, db, dbAgent, thread, drift>>
  BY DEF D!EndReservation
<1>2. AgentWorks' /\ D!Committed' \subseteq D!Committed
  BY <1>1 DEF NodeInv, NodeTyped, AgentWorks, D!Committed, D!EndReservation
<1>3. capacity' + drift' >= capacity + drift
  <2>1. capacity \in Nat /\ drift \in Nat
    BY Numbers DEF NodeInv
  <2> QED BY ONLY <1>1, <2>1
<1> QED BY <1>1, <1>2, <1>3, NoPlacing

\* A step that changes the row of one database and nothing else that is counted.
LEMMA DatabaseFits ==
  ASSUME NodeInv, NodeTyped', NEW d \in Databases,
         UNCHANGED <<capacity, placement, reservation, thread>>, AgentWorks',
         \A e \in Databases \ {d} : db'[e] = db[e], db[d].status # "none",
         \/ drift' = drift /\ (db'[d].status \in {"none", "deleting"} \/ db[d].status # "deleting")
         \/ drift' = drift + 1
  PROVE  NodeInv'
<1>1. capacity \in Nat /\ drift \in Nat
  BY Numbers DEF NodeInv
<1>2. D!Committed' \subseteq D!Committed \cup {d}
  BY DEF D!Committed
<1>3. drift' = drift => D!Committed' \subseteq D!Committed
  <2> SUFFICES ASSUME drift' = drift PROVE D!Committed' \subseteq D!Committed
    OBVIOUS
  <2>1. db'[d].status \in {"none", "deleting"} \/ db[d].status # "deleting"
    BY ONLY <1>1, drift' = drift,
         \/ drift' = drift /\ (db'[d].status \in {"none", "deleting"} \/ db[d].status # "deleting")
         \/ drift' = drift + 1
  <2> QED BY <2>1 DEF D!Committed
<1>4. capacity' + drift' >= capacity + drift /\ (drift' = drift \/ capacity' + drift' >= capacity + drift + 1)
  <2>1. capacity' = capacity /\ (drift' = drift \/ drift' = drift + 1)
    OBVIOUS
  <2> QED BY ONLY <1>1, <2>1
<1>5. \A e \in Databases : db[e].status = "none" => db'[e].status = "none"
  OBVIOUS
<1> QED BY <1>2, <1>3, <1>4, <1>5, NoPlacing

LEMMA OperationsFit ==
  ASSUME NodeInv, NodeTyped', NEW d \in Databases,
         D!RotatePassword(d) \/ D!SuspendDatabase(d) \/ D!ResumeDatabase(d) \/ D!DeleteDatabase(d)
  PROVE  NodeInv'
<1>1. PICK op \in {"rotate", "suspend", "resume", "delete"} :
        D!QueueOperation(d, op) /\ db[d].status \in {"ready", "suspended", "failed"}
  BY DEF D!RotatePassword, D!SuspendDatabase, D!ResumeDatabase, D!DeleteDatabase
<1>2. /\ UNCHANGED <<capacity, placement, reservation, thread, dbAgent>> /\ drift' = drift
      /\ \A e \in Databases \ {d} : db'[e] = db[e]
  BY <1>1 DEF D!QueueOperation, D!DatabaseRequest, D!placed, NodeInv, NodeTyped
<1>3. AgentWorks'
  BY <1>1, <1>2 DEF NodeInv, NodeTyped, AgentWorks, Jobs, D!Idle
<1> QED BY <1>1, <1>2, <1>3, DatabaseFits

LEMMA ClaimFits ==
  ASSUME NodeInv, NodeTyped', NEW d \in Databases, NEW ok \in BOOLEAN, NEW changed \in BOOLEAN,
         D!ClaimDatabase(d, ok, changed)
  PROVE  NodeInv'
<1>1. /\ UNCHANGED <<capacity, placement, reservation, thread>>
      /\ \A e \in Databases \ {d} : db'[e] = db[e]
      /\ db[d].status \in {"queued", "deleting"} /\ db'[d].status = "working"
      /\ drift' = IF db[d].status = "deleting" THEN drift + 1 ELSE drift
      /\ dbAgent' = [at |-> "database", db |-> d, ok |-> ok]
  BY DEF D!ClaimDatabase, D!Waiting, D!placed, NodeInv, NodeTyped, RowStates
<1>2. AgentWorks'
  BY <1>1 DEF AgentWorks
<1> QED BY <1>1, <1>2, DatabaseFits

LEMMA ReportFits ==
  ASSUME NodeInv, NodeTyped', D!ReportDatabase \/ D!ReportDatabaseFailed
  PROVE  NodeInv'
<1> DEFINE d == dbAgent.db
<1>1. d \in Databases /\ db[d].status = "working"
  BY DEF D!ReportDatabase, D!ReportDatabaseFailed, NodeInv, NodeTyped, Jobs, D!Idle, AgentWorks
<1>2. /\ UNCHANGED <<capacity, placement, reservation, thread>> /\ drift' = drift /\ dbAgent' = D!Idle
      /\ \A e \in Databases \ {d} : db'[e] = db[e]
  BY DEF D!ReportDatabase, D!ReportDatabaseFailed, D!placed, NodeInv, NodeTyped
<1>3. AgentWorks'
  BY <1>2 DEF AgentWorks, D!Idle
<1> HIDE DEF d
<1> QED BY <1>1, <1>2, <1>3, DatabaseFits

LEMMA OthersFit ==
  ASSUME NodeInv, NodeTyped', UNCHANGED <<capacity, placement, reservation, thread, drift, db>>,
         dbAgent' = dbAgent \/ dbAgent'.at # "database"
  PROVE  NodeInv'
<1>1. D!Committed' = D!Committed /\ AgentWorks'
  BY DEF D!Committed, NodeInv, AgentWorks
<1> QED BY <1>1 DEF NodeInv, D!PlacementFits, PlacingSound

LEMMA NodeInvNext == ASSUME NodeInv, [D!Next]_(D!vars) PROVE NodeInv'
<1>1. NodeTyped'
  BY NodeTypedNext DEF NodeInv
<1>2. ASSUME NEW t \in Threads, NEW p \in Tenants, D!CreateProject(t, p) \/ D!FailoverBegin(t, p)
      PROVE  NodeInv'
  <2>1. p \in Items /\ p \notin Databases
    BY DEF NodeInv, NodeTyped, NodeAssumption, Items
  <2> QED BY <1>1, <1>2, <2>1, PlaceBeginFits DEF D!CreateProject, D!FailoverBegin
<1>3. ASSUME NEW t \in Threads, NEW d \in Databases, D!CreateDatabase(t, d) PROVE NodeInv'
  BY <1>1, <1>3, PlaceBeginFits DEF D!CreateDatabase, Items
<1>4. ASSUME NEW t \in Threads, NEW r \in Reservations, D!Reserve(t, r) PROVE NodeInv'
  <2>1. r \in Items /\ r \notin Databases
    BY DEF NodeInv, NodeTyped, NodeAssumption, Items
  <2> QED BY <1>1, <1>4, <2>1, PlaceBeginFits DEF D!Reserve
<1>5. ASSUME NEW t \in Threads, NEW p \in Tenants, D!FailoverNext(t, p) PROVE NodeInv'
  BY <1>1, <1>5, FailoverNextFits
<1>6. ASSUME NEW t \in Threads, NEW d \in Databases, D!ProvisionDatabase(t, d) PROVE NodeInv'
  BY <1>1, <1>6, ProvisionFits
<1>7. ASSUME NEW t \in Threads, D!PlaceCommit(t) PROVE NodeInv'
  BY <1>1, <1>7, PlaceCommitFits
<1>8. ASSUME NEW t \in Threads, D!PlaceAbort(t) \/ D!UpdateNodeCommit(t) \/ \E c \in Capacities : D!UpdateNodeBegin(t, c)
      PROVE  NodeInv'
  BY <1>1, <1>8, RequestsFit
<1>9. ASSUME NEW p \in Tenants, \/ D!AttemptWaits(p) \/ (\E ok \in BOOLEAN : D!AttemptEnds(p, ok))
                                \/ \E s \in {"here", "suspended"} : D!UpdateProject(p, s)
      PROVE  NodeInv'
  BY <1>1, <1>9, OwnerFits
<1>10. ASSUME NEW r \in Reservations, NEW s \in {"released", "expired"}, D!EndReservation(r, s) PROVE NodeInv'
  BY <1>1, <1>10, ReservationsFit
<1>11. ASSUME NEW d \in Databases, D!RotatePassword(d) \/ D!SuspendDatabase(d) \/ D!ResumeDatabase(d) \/ D!DeleteDatabase(d)
       PROVE  NodeInv'
  BY <1>1, <1>11, OperationsFit
<1>12. ASSUME NEW d \in Databases, NEW ok \in BOOLEAN, NEW changed \in BOOLEAN, D!ClaimDatabase(d, ok, changed)
       PROVE  NodeInv'
  BY <1>1, <1>12, ClaimFits
<1>13. CASE D!ReportDatabase \/ D!ReportDatabaseFailed
  BY <1>1, <1>13, ReportFits
<1>14. ASSUME NEW d \in Databases, D!QueueDatabaseBackup(d) \/ D!QueueDatabaseRestore(d) PROVE NodeInv'
  BY <1>1, <1>14, OthersFit DEF D!QueueDatabaseBackup, D!QueueDatabaseRestore, D!QueueBackup, D!DatabaseRequest, D!placed
<1>15. ASSUME NEW ok \in BOOLEAN, D!ClaimBackup \/ D!AgentLost \/ D!ReportBackup(ok) PROVE NodeInv'
  BY <1>1, <1>15, OthersFit DEF D!ClaimBackup, D!AgentLost, D!ReportBackup, D!placed, D!Idle
<1>16. CASE UNCHANGED D!vars
  BY <1>1, <1>16, OthersFit DEF D!vars
<1> QED BY <1>2, <1>3, <1>4, <1>5, <1>6, <1>7, <1>8, <1>9, <1>10, <1>11, <1>12, <1>13, <1>14, <1>15, <1>16 DEF D!Next

LEMMA NodeInvInit == ASSUME D!HostingDatabasesAssumption, D!Init PROVE NodeInv
<1>1. NodeTyped
  <2>1. D!NoRow \in RowStates /\ D!NoBackup \in BackupRows /\ D!Idle \in Requests /\ D!Idle \in Jobs
    BY DEF D!NoRow, RowStates, D!NoBackup, BackupRows, Requests, Jobs
  <2> HIDE DEF RowStates, BackupRows, Requests, Jobs
  <2> QED BY <2>1, Assumed DEF D!Init, NodeTyped
<1>2. D!Committed = {}
  BY DEF D!Init, D!Committed, D!NoRow
<1>3. D!PlacementFits
  <2>1. Cardinality(D!Committed) = 0
    BY <1>2, FS_EmptySet
  <2> QED BY <1>1, <2>1, Numbers, SameCardinality DEF D!PlacementFits
<1>4. PlacingSound /\ AgentWorks
  BY DEF D!Init, D!Idle, PlacingSound, AgentWorks
<1> QED BY <1>1, <1>3, <1>4 DEF NodeInv

\* The node never holds more than its capacity and what the code lets in without a look at
\* it: however many placements, reservations, failover passes and capacity changes overlap,
\* no two share the last free unit (rank_nodes, reserve_capacity, node_commitments).
THEOREM PlacementsFit == D!Spec => []PlacementFits
<1>0. D!Init => NodeInv
  BY HostingNodeAssumption, NodeInvInit
<1>1. NodeInv => PlacementFits
  BY DEF NodeInv, PlacementFits
<1> QED BY <1>0, <1>1, NodeInvNext, PTL DEF D!Spec

-----------------------------------------------------------------------------
(* The engine does what the rows say.                                      *)

\* A login role that is let in, and one that is kept out.
Opened(password) == [exists |-> TRUE, login |-> TRUE, password |-> password]
Closed(password) == [exists |-> TRUE, login |-> FALSE, password |-> password]

\* The engine is ready for the operation that waits.
QueuedSound ==
  \A d \in Databases :
    /\ db[d].status = "queued" =>
         \/ db[d].op = "provision"
         \/ db[d].op \in {"rotate", "suspend"} /\ role[d] = Opened(db[d].stored)
         \/ db[d].op = "resume" /\ role[d] = Closed(db[d].stored)
    /\ db[d].status = "deleting" => db[d].op = "delete"

\* What the agent did and has yet to report.
DoneSound ==
  dbAgent.at = "database" =>
    LET row == db[dbAgent.db] IN
    /\ row.op # "none"
    /\ dbAgent.ok =>
         /\ row.op \in {"provision", "resume"} => role[dbAgent.db] = Opened(row.stored)
         /\ row.op = "rotate" => role[dbAgent.db] = Opened(row.pending)
         /\ row.op = "suspend" => role[dbAgent.db] = Closed(row.stored)
         /\ row.op = "delete" => role[dbAgent.db] = D!NoRole

\* What is known of the roles themselves.
RoleTyped == role \in [Databases -> [exists : BOOLEAN, login : BOOLEAN, password : Nat]]

EngineInv == NodeInv /\ RoleTyped /\ QueuedSound /\ DoneSound /\ D!EngineMatches

\* A step that changes no role and makes no row ready, suspended or gone.
LEMMA EngineRests ==
  ASSUME EngineInv, NodeInv', role' = role, dbAgent' = dbAgent \/ dbAgent' = D!Idle,
         \A d \in Databases : db'[d] = db[d] \/ db'[d].status \in {"queued", "deleting", "failed"},
         dbAgent.at = "database" => db'[dbAgent.db] = db[dbAgent.db] \/ dbAgent' = D!Idle,
         QueuedSound',
         \A d \in Databases : db'[d].status = "ready" /\ env'.db = d => env' = env,
         dbAgent'.at = "backup" => backups'[dbAgent'.i] = backups[dbAgent'.i]
  PROVE  EngineInv'
<1>1. DoneSound'
  BY DEF EngineInv, DoneSound, D!Idle
<1>2. D!EngineMatches'
  <2> SUFFICES ASSUME NEW d \in Databases
      PROVE  /\ db'[d].status = "ready" =>
                  /\ role[d] = [exists |-> TRUE, login |-> TRUE, password |-> db'[d].stored]
                  /\ env'.db = d => env'.password = db'[d].stored
             /\ db'[d].status = "suspended" => role[d] = [exists |-> TRUE, login |-> FALSE, password |-> db'[d].stored]
             /\ db'[d].status = "none" => role[d] = D!NoRole
             /\ dbAgent'.at = "backup" /\ backups'[dbAgent'.i].db = d /\ backups'[dbAgent'.i].op = "restore" => ~role[d].login
    BY DEF D!EngineMatches
  <2>1. dbAgent'.at = "backup" => dbAgent' = dbAgent
    BY DEF D!Idle
  <2>2. ASSUME dbAgent'.at = "backup", backups'[dbAgent'.i].db = d, backups'[dbAgent'.i].op = "restore"
        PROVE  ~role[d].login
    <3>1. dbAgent.at = "backup" /\ backups[dbAgent.i].db = d /\ backups[dbAgent.i].op = "restore"
      BY <2>1, <2>2
    <3> QED BY <3>1 DEF EngineInv, D!EngineMatches
  <2>3. CASE db'[d] = db[d]
    <3>1. env'.db = d /\ db'[d].status = "ready" => env'.password = db[d].stored
      BY <2>3 DEF EngineInv, D!EngineMatches
    <3>2. /\ db[d].status = "ready" => role[d] = [exists |-> TRUE, login |-> TRUE, password |-> db[d].stored]
          /\ db[d].status = "suspended" => role[d] = [exists |-> TRUE, login |-> FALSE, password |-> db[d].stored]
          /\ db[d].status = "none" => role[d] = D!NoRole
      BY DEF EngineInv, D!EngineMatches
    <3> QED BY <2>3, <2>2, <3>1, <3>2
  <2>4. CASE db'[d].status \in {"queued", "deleting", "failed"}
    BY <2>4, <2>2
  <2> QED BY <2>3, <2>4
<1>3. RoleTyped'
  BY DEF EngineInv, RoleTyped
<1> QED BY <1>1, <1>2, <1>3 DEF EngineInv

\* The steps that place nothing in the database table.
LEMMA EngineUntouched ==
  ASSUME EngineInv, NodeInv', UNCHANGED <<db, role, env, dbAgent, backups>>
  PROVE  EngineInv'
BY DEF EngineInv, RoleTyped, QueuedSound, DoneSound, D!EngineMatches

LEMMA CommitKeepsEngine ==
  ASSUME EngineInv, NodeInv', NEW t \in Threads, D!PlaceCommit(t)
  PROVE  EngineInv'
<1> DEFINE I == thread[t].items
<1>1. thread[t].at = "placing" /\ UNCHANGED <<role, dbAgent, backups>>
  BY DEF D!PlaceCommit
<1>2. \A d \in I \cap Databases : db[d].status = "none" /\ db'[d].status = "queued" /\ db'[d].op = "provision"
  BY <1>1 DEF EngineInv, NodeInv, PlacingSound, D!PlaceCommit
<1>3. \A d \in Databases \ I : db'[d] = db[d]
  BY DEF D!PlaceCommit
<1>4. QueuedSound'
  BY <1>1, <1>2, <1>3 DEF EngineInv, QueuedSound
<1>5. dbAgent.at = "database" => db'[dbAgent.db] = db[dbAgent.db]
  BY <1>1, <1>2, <1>3 DEF EngineInv, NodeInv, NodeTyped, AgentWorks, Jobs, D!Idle
<1>6. ASSUME NEW d \in Databases, db'[d].status = "ready", env'.db = d PROVE env' = env
  <2>1. d \notin I
    BY <1>2, <1>6
  <2>2. CASE thread[t].kind = "project" /\ I \cap Databases # {}
    <3>1. env'.db = CHOOSE e \in I : e \in Databases
      BY <2>2 DEF D!PlaceCommit
    <3>2. (CHOOSE e \in I : e \in Databases) \in I
      BY <2>2
    <3> QED BY <1>6, <2>1, <3>1, <3>2
  <2>3. CASE ~(thread[t].kind = "project" /\ I \cap Databases # {})
    BY <2>3 DEF D!PlaceCommit
  <2> QED BY <2>2, <2>3
<1> QED BY <1>1, <1>2, <1>3, <1>4, <1>5, <1>6, EngineRests

LEMMA QueueKeepsEngine ==
  ASSUME EngineInv, NodeInv', NEW d \in Databases,
         D!RotatePassword(d) \/ D!SuspendDatabase(d) \/ D!ResumeDatabase(d) \/ D!DeleteDatabase(d)
  PROVE  EngineInv'
<1>1. PICK op \in {"rotate", "suspend", "resume", "delete"} :
        /\ D!QueueOperation(d, op) /\ db[d].status \in {"ready", "suspended", "failed"}
        /\ op \in {"rotate", "suspend"} => db[d].status = "ready"
        /\ op = "resume" => db[d].status = "suspended"
  BY DEF D!RotatePassword, D!SuspendDatabase, D!ResumeDatabase, D!DeleteDatabase
<1>2. /\ UNCHANGED <<role, dbAgent, backups, env>> /\ \A e \in Databases \ {d} : db'[e] = db[e]
      /\ db'[d].op = op /\ db'[d].status = IF op = "delete" THEN "deleting" ELSE "queued"
      /\ db'[d].stored = db[d].stored
  BY <1>1 DEF D!QueueOperation, D!DatabaseRequest, EngineInv, NodeInv, NodeTyped, RowStates
<1>3. QueuedSound'
  BY <1>1, <1>2 DEF EngineInv, QueuedSound, D!EngineMatches, Opened, Closed
<1>4. dbAgent.at = "database" => db'[dbAgent.db] = db[dbAgent.db]
  BY <1>1, <1>2 DEF EngineInv, NodeInv, NodeTyped, AgentWorks, Jobs, D!Idle
<1> QED BY <1>2, <1>3, <1>4, EngineRests

LEMMA BackupKeepsEngine ==
  ASSUME EngineInv, NodeInv', NEW d \in Databases, D!QueueDatabaseBackup(d) \/ D!QueueDatabaseRestore(d)
  PROVE  EngineInv'
<1>1. PICK op \in {"backup", "restore"} : D!QueueBackup(d, op) /\ (op = "restore" => db[d].status = "suspended")
  BY DEF D!QueueDatabaseBackup, D!QueueDatabaseRestore
<1>2. UNCHANGED <<role, dbAgent, env, db>>
  BY <1>1 DEF D!QueueBackup, D!DatabaseRequest
<1>3. PICK i \in 1..MaxBackups : backups' = [backups EXCEPT ![i] = [db |-> d, op |-> op, status |-> "queued"]]
  BY <1>1 DEF D!QueueBackup, EngineInv, NodeInv, NodeTyped
<1>4. RoleTyped' /\ QueuedSound' /\ DoneSound'
  BY <1>2 DEF EngineInv, RoleTyped, QueuedSound, DoneSound
<1>5. op = "restore" => ~role[d].login
  <2>1. op = "restore" => role[d] = [exists |-> TRUE, login |-> FALSE, password |-> db[d].stored]
    BY <1>1 DEF EngineInv, D!EngineMatches
  <2> QED BY <2>1
<1>6. dbAgent.at = "backup" => dbAgent.i \in 1..MaxBackups
  BY DEF EngineInv, NodeInv, NodeTyped, Jobs, D!Idle
<1>7. ASSUME NEW e \in Databases, dbAgent.at = "backup", backups'[dbAgent.i].db = e, backups'[dbAgent.i].op = "restore"
      PROVE  ~role[e].login
  <2>1. CASE dbAgent.i = i
    BY <1>3, <1>5, <1>7, <2>1 DEF EngineInv, NodeInv, NodeTyped
  <2>2. CASE dbAgent.i # i
    BY <1>3, <1>6, <1>7, <2>2 DEF EngineInv, NodeInv, NodeTyped, D!EngineMatches
  <2> QED BY <2>1, <2>2
<1>8. D!EngineMatches'
  BY <1>2, <1>7 DEF EngineInv, D!EngineMatches
<1> QED BY <1>4, <1>8 DEF EngineInv

LEMMA ClaimKeepsEngine ==
  ASSUME EngineInv, NodeInv', NEW d \in Databases, NEW ok \in BOOLEAN, NEW changed \in BOOLEAN,
         D!ClaimDatabase(d, ok, changed)
  PROVE  EngineInv'
<1>1. /\ \A e \in Databases \ {d} : db'[e] = db[e] /\ role'[e] = role[e]
      /\ db[d].status \in {"queued", "deleting"} /\ db'[d] = [db[d] EXCEPT !.status = "working"]
      /\ dbAgent' = [at |-> "database", db |-> d, ok |-> ok] /\ env' = env
      /\ ok => role'[d] = D!Operated(d)
      /\ role' = role \/ role' = [role EXCEPT ![d] = D!Operated(d)]
  BY DEF D!ClaimDatabase, D!Waiting, EngineInv, NodeInv, NodeTyped, RoleTyped
<1>2. db'[d].op = db[d].op /\ db'[d].stored = db[d].stored /\ db'[d].pending = db[d].pending /\ db'[d].status = "working"
  BY <1>1 DEF EngineInv, NodeInv, NodeTyped, RowStates
<1>3. \/ db[d].op = "provision"
      \/ db[d].op \in {"rotate", "suspend"} /\ role[d] = Opened(db[d].stored)
      \/ db[d].op = "resume" /\ role[d] = Closed(db[d].stored)
      \/ db[d].op = "delete"
  BY <1>1 DEF EngineInv, QueuedSound
<1>4. /\ db[d].op \in {"provision", "resume"} => D!Operated(d) = Opened(db[d].stored)
      /\ db[d].op = "rotate" => D!Operated(d) = Opened(db[d].pending)
      /\ db[d].op = "suspend" => D!Operated(d) = Closed(db[d].stored)
      /\ db[d].op = "delete" => D!Operated(d) = D!NoRole
  <2>1. CASE db[d].op = "provision"
    BY <2>1 DEF D!Operated, Opened
  <2>0. role[d] = Opened(db[d].stored) \/ role[d] = Closed(db[d].stored) =>
          role[d].exists = TRUE /\ role[d].password = db[d].stored
    BY DEF Opened, Closed
  <2>2. CASE db[d].op = "rotate"
    BY <1>3, <2>0, <2>2 DEF D!Operated, Opened
  <2>3. CASE db[d].op = "suspend"
    BY <1>3, <2>0, <2>3 DEF D!Operated, Closed
  <2>4. CASE db[d].op = "resume"
    BY <1>3, <2>0, <2>4 DEF D!Operated, Opened
  <2>5. CASE db[d].op = "delete"
    BY <2>5 DEF D!Operated
  <2> QED BY <1>3, <2>1, <2>2, <2>3, <2>4, <2>5
<1>0. dbAgent'.at = "database" /\ dbAgent'.db = d /\ dbAgent'.ok = ok
  BY <1>1
<1>5. DoneSound'
  <2>1. db'[d].op # "none"
    BY <1>2, <1>3
  <2>2. ASSUME ok PROVE /\ db'[d].op \in {"provision", "resume"} => role'[d] = Opened(db'[d].stored)
                        /\ db'[d].op = "rotate" => role'[d] = Opened(db'[d].pending)
                        /\ db'[d].op = "suspend" => role'[d] = Closed(db'[d].stored)
                        /\ db'[d].op = "delete" => role'[d] = D!NoRole
    BY <1>1, <1>2, <1>4, <2>2
  <2> QED BY <1>0, <2>1, <2>2 DEF DoneSound
<1>6. QueuedSound'
  <2> SUFFICES ASSUME NEW e \in Databases
               PROVE  /\ db'[e].status = "queued" =>
                           \/ db'[e].op = "provision"
                           \/ db'[e].op \in {"rotate", "suspend"} /\ role'[e] = Opened(db'[e].stored)
                           \/ db'[e].op = "resume" /\ role'[e] = Closed(db'[e].stored)
                      /\ db'[e].status = "deleting" => db'[e].op = "delete"
    BY DEF QueuedSound
  <2>1. CASE e = d
    BY <1>2, <2>1
  <2>2. CASE e # d
    BY <1>1, <2>2 DEF EngineInv, QueuedSound
  <2> QED BY <2>1, <2>2
<1>7. D!EngineMatches'
  <2> SUFFICES ASSUME NEW e \in Databases
      PROVE  /\ db'[e].status = "ready" =>
                  /\ role'[e] = [exists |-> TRUE, login |-> TRUE, password |-> db'[e].stored]
                  /\ env'.db = e => env'.password = db'[e].stored
             /\ db'[e].status = "suspended" => role'[e] = [exists |-> TRUE, login |-> FALSE, password |-> db'[e].stored]
             /\ db'[e].status = "none" => role'[e] = D!NoRole
             /\ dbAgent'.at # "backup"
    BY DEF D!EngineMatches
  <2>1. CASE e = d
    BY <1>0, <1>2, <2>1
  <2>2. CASE e # d
    <3>1. db'[e] = db[e] /\ role'[e] = role[e] /\ env' = env
      BY <1>1, <2>2
    <3> QED BY <1>0, <3>1 DEF EngineInv, D!EngineMatches
  <2> QED BY <2>1, <2>2
<1>8. RoleTyped'
  <2>1. db[d].stored \in Nat /\ db[d].pending \in Nat
    BY DEF EngineInv, NodeInv, NodeTyped, RowStates
  <2>2. D!Operated(d) \in {Opened(db[d].stored), Opened(db[d].pending), Closed(db[d].stored), D!NoRole}
    BY <1>3, <1>4
  <2>3. \A n \in Nat : Opened(n) \in [exists : BOOLEAN, login : BOOLEAN, password : Nat]
                       /\ Closed(n) \in [exists : BOOLEAN, login : BOOLEAN, password : Nat]
    BY DEF Opened, Closed
  <2>4. D!NoRole \in [exists : BOOLEAN, login : BOOLEAN, password : Nat]
    BY DEF D!NoRole
  <2>5. D!Operated(d) \in [exists : BOOLEAN, login : BOOLEAN, password : Nat]
    BY <2>1, <2>2, <2>3, <2>4
  <2> QED BY <1>1, <2>5 DEF EngineInv, RoleTyped
<1> QED BY <1>5, <1>6, <1>7, <1>8 DEF EngineInv

LEMMA ReportKeepsEngine ==
  ASSUME EngineInv, NodeInv', D!ReportDatabase
  PROVE  EngineInv'
<1> DEFINE d == dbAgent.db
           row == db[d]
           stored == IF row.op = "rotate" THEN row.pending ELSE row.stored
<1>1. d \in Databases /\ dbAgent.at = "database" /\ dbAgent.ok /\ row.op # "none" /\ role' = role /\ dbAgent' = D!Idle
  BY DEF D!ReportDatabase, EngineInv, NodeInv, NodeTyped, Jobs, D!Idle, DoneSound
<1>2. \A e \in Databases \ {d} : db'[e] = db[e]
  BY DEF D!ReportDatabase, EngineInv, NodeInv, NodeTyped
<1>3. RoleTyped' /\ QueuedSound' /\ DoneSound'
  <2>1. db'[d].status \in {"none", "suspended", "ready"}
    BY <1>1 DEF D!ReportDatabase, EngineInv, NodeInv, NodeTyped, D!NoRow
  <2> QED BY <1>1, <1>2, <2>1 DEF EngineInv, RoleTyped, QueuedSound, DoneSound, D!Idle
<1>4. CASE row.op = "delete"
  <2>1. db'[d].status = "none" /\ role[d] = D!NoRole /\ env' = env
    BY <1>1, <1>4 DEF D!ReportDatabase, EngineInv, NodeInv, NodeTyped, D!NoRow, DoneSound
  <2>2. D!EngineMatches'
    BY <1>1, <1>2, <2>1 DEF EngineInv, D!EngineMatches, D!Idle
  <2> QED BY <1>3, <2>2 DEF EngineInv
<1>5. CASE row.op = "suspend"
  <2>1. db'[d].status = "suspended" /\ db'[d].stored = row.stored /\ role[d] = Closed(row.stored) /\ env' = env
    BY <1>1, <1>5 DEF D!ReportDatabase, EngineInv, NodeInv, NodeTyped, DoneSound
  <2>2. D!EngineMatches'
    BY <1>1, <1>2, <2>1 DEF EngineInv, D!EngineMatches, D!Idle, Closed
  <2> QED BY <1>3, <2>2 DEF EngineInv
<1>6. CASE row.op \in {"provision", "rotate", "resume"}
  <2>1. db'[d].status = "ready" /\ db'[d].stored = stored /\ env' = [db |-> d, password |-> stored]
    BY <1>1, <1>6 DEF D!ReportDatabase, EngineInv, NodeInv, NodeTyped
  <2>2. role[d] = Opened(stored)
    BY <1>1, <1>6 DEF EngineInv, DoneSound
  <2> HIDE DEF stored
  <2>3. D!EngineMatches'
    BY <1>1, <1>2, <2>1, <2>2 DEF EngineInv, D!EngineMatches, D!Idle, Opened
  <2> QED BY <1>3, <2>3 DEF EngineInv
<1>7. row.op \in {"none", "provision", "rotate", "suspend", "resume", "delete"}
  BY <1>1 DEF EngineInv, NodeInv, NodeTyped, RowStates
<1> QED BY <1>1, <1>4, <1>5, <1>6, <1>7

LEMMA FailureKeepsEngine ==
  ASSUME EngineInv, NodeInv', D!ReportDatabaseFailed
  PROVE  EngineInv'
<1>1. dbAgent.db \in Databases /\ dbAgent' = D!Idle /\ UNCHANGED <<role, env, backups>>
  BY DEF D!ReportDatabaseFailed, EngineInv, NodeInv, NodeTyped, Jobs, D!Idle
<1>2. db'[dbAgent.db].status = "failed" /\ \A e \in Databases \ {dbAgent.db} : db'[e] = db[e]
  BY <1>1 DEF D!ReportDatabaseFailed, EngineInv, NodeInv, NodeTyped, RowStates
<1>3. QueuedSound'
  BY <1>1, <1>2 DEF EngineInv, QueuedSound
<1> QED BY <1>1, <1>2, <1>3, EngineRests DEF D!Idle

LEMMA AgentKeepsEngine ==
  ASSUME EngineInv, NodeInv', NEW ok \in BOOLEAN, D!ClaimBackup \/ D!AgentLost \/ D!ReportBackup(ok)
  PROVE  EngineInv'
<1>1. UNCHANGED <<db, role, env>>
  BY DEF D!ClaimBackup, D!AgentLost, D!ReportBackup
<1>2. QueuedSound'
  BY <1>1 DEF EngineInv, QueuedSound
<1>3. CASE dbAgent' = D!Idle
  BY <1>1, <1>2, <1>3, EngineRests DEF D!Idle
<1>4. CASE dbAgent' # D!Idle
  <2>1. PICK i \in 1..MaxBackups :
          /\ backups[i].op = "backup" \/ db[backups[i].db].status = "suspended"
          /\ dbAgent' = [at |-> "backup", i |-> i]
          /\ backups' = [backups EXCEPT ![i].status = "claimed"]
    BY <1>4 DEF D!ClaimBackup, D!AgentLost, D!ReportBackup, EngineInv, NodeInv, NodeTyped, D!RestoreAllowed
  <2>2. backups'[i].op = backups[i].op /\ backups'[i].db = backups[i].db
    BY <2>1 DEF EngineInv, NodeInv, NodeTyped, BackupRows
  <2>3. DoneSound'
    BY <2>1 DEF DoneSound
  <2>4. D!EngineMatches'
    BY <1>1, <2>1, <2>2 DEF EngineInv, D!EngineMatches
  <2> QED BY <1>1, <1>2, <2>3, <2>4 DEF EngineInv, RoleTyped
<1> QED BY <1>3, <1>4

LEMMA EngineInvNext == ASSUME EngineInv, [D!Next]_(D!vars) PROVE EngineInv'
<1>1. NodeInv'
  BY NodeInvNext DEF EngineInv
<1>2. ASSUME NEW t \in Threads, NEW item, NEW what, D!PlaceBegin(t, what, item) PROVE EngineInv'
  BY <1>1, <1>2, EngineUntouched DEF D!PlaceBegin
<1>3. ASSUME NEW t \in Threads, NEW p \in Tenants,
             D!CreateProject(t, p) \/ D!FailoverBegin(t, p) \/ D!FailoverNext(t, p)
      PROVE  EngineInv'
  <2>1. CASE D!FailoverNext(t, p)
    BY <1>1, <2>1, EngineUntouched DEF D!FailoverNext
  <2> QED BY <1>2, <1>3, <2>1 DEF D!CreateProject, D!FailoverBegin
<1>4. ASSUME NEW t \in Threads, NEW d \in Databases, D!CreateDatabase(t, d) \/ D!ProvisionDatabase(t, d)
      PROVE  EngineInv'
  <2>1. CASE D!ProvisionDatabase(t, d)
    BY <1>1, <2>1, EngineUntouched DEF D!ProvisionDatabase
  <2> QED BY <1>2, <1>4, <2>1 DEF D!CreateDatabase
<1>5. ASSUME NEW t \in Threads, NEW r \in Reservations, D!Reserve(t, r) PROVE EngineInv'
  BY <1>2, <1>5 DEF D!Reserve
<1>6. ASSUME NEW t \in Threads, D!PlaceAbort(t) \/ D!UpdateNodeCommit(t) \/ \E c \in Capacities : D!UpdateNodeBegin(t, c)
      PROVE  EngineInv'
  BY <1>1, <1>6, EngineUntouched DEF D!PlaceAbort, D!UpdateNodeCommit, D!UpdateNodeBegin
<1>7. ASSUME NEW t \in Threads, D!PlaceCommit(t) PROVE EngineInv'
  BY <1>1, <1>7, CommitKeepsEngine
<1>8. ASSUME NEW p \in Tenants, \/ D!AttemptWaits(p) \/ (\E ok \in BOOLEAN : D!AttemptEnds(p, ok))
                                \/ \E s \in {"here", "suspended"} : D!UpdateProject(p, s)
      PROVE  EngineInv'
  BY <1>1, <1>8, EngineUntouched DEF D!AttemptWaits, D!AttemptEnds, D!UpdateProject
<1>9. ASSUME NEW r \in Reservations, NEW s \in {"released", "expired"}, D!EndReservation(r, s) PROVE EngineInv'
  BY <1>1, <1>9, EngineUntouched DEF D!EndReservation
<1>10. ASSUME NEW d \in Databases, D!RotatePassword(d) \/ D!SuspendDatabase(d) \/ D!ResumeDatabase(d) \/ D!DeleteDatabase(d)
       PROVE  EngineInv'
  BY <1>1, <1>10, QueueKeepsEngine
<1>11. ASSUME NEW d \in Databases, D!QueueDatabaseBackup(d) \/ D!QueueDatabaseRestore(d) PROVE EngineInv'
  BY <1>1, <1>11, BackupKeepsEngine
<1>12. ASSUME NEW d \in Databases, NEW ok \in BOOLEAN, NEW changed \in BOOLEAN, D!ClaimDatabase(d, ok, changed)
       PROVE  EngineInv'
  BY <1>1, <1>12, ClaimKeepsEngine
<1>13. CASE D!ReportDatabase
  BY <1>1, <1>13, ReportKeepsEngine
<1>14. CASE D!ReportDatabaseFailed
  BY <1>1, <1>14, FailureKeepsEngine
<1>15. ASSUME NEW ok \in BOOLEAN, D!ClaimBackup \/ D!AgentLost \/ D!ReportBackup(ok) PROVE EngineInv'
  BY <1>1, <1>15, AgentKeepsEngine
<1>16. CASE UNCHANGED D!vars
  BY <1>1, <1>16, EngineUntouched DEF D!vars
<1> QED BY <1>3, <1>4, <1>5, <1>6, <1>7, <1>8, <1>9, <1>10, <1>11, <1>12, <1>13, <1>14, <1>15, <1>16 DEF D!Next

LEMMA EngineInvInit == ASSUME D!HostingDatabasesAssumption, D!Init PROVE EngineInv
<1>1. RoleTyped
  BY DEF D!Init, RoleTyped, D!NoRole
<1>2. QueuedSound /\ DoneSound
  BY DEF D!Init, QueuedSound, DoneSound, D!NoRow, D!Idle
<1>3. D!EngineMatches
  BY DEF D!Init, D!EngineMatches, D!NoRow, D!Idle
<1> QED BY <1>1, <1>2, <1>3, NodeInvInit DEF EngineInv

\* The engine does what the rows say, whatever commands fail and reports are lost: a ready
\* database lets its role in with the stored password, a suspended one and one being restored
\* keep it out, a deleted one has none (report_database_operation, claim_database_backup).
THEOREM EngineSound == D!Spec => []EngineMatches
<1>0. D!Init => EngineInv
  BY HostingNodeAssumption, EngineInvInit
<1>1. EngineInv => EngineMatches
  BY DEF EngineInv, EngineMatches
<1> QED BY <1>0, <1>1, EngineInvNext, PTL DEF D!Spec

-----------------------------------------------------------------------------
(* HostingBuilds: the bytes that a build gets to see.                      *)

Registered == kind = "zip" /\ registered # 0

BuildStatuses == {"queued", "claimed", "building", "succeeded", "failed"}
SourceStatuses == {"ready", "uploading", "building", "failed"}
BuildRows == [status : BuildStatuses, content : {0, registered}]
SourceRows == [status : SourceStatuses, sha : {registered}, ticket : Nat]
PutStates ==
  [at : {"idle", "fail", "unlink"}, locks : {{}}]
  \cup [at : {"stream"}, locks : {{}}, content : Contents, expected : {registered}]
  \cup [at : {"complete"}, locks : {{}}, content : {registered}, expected : {registered}]

\* With a registered checksum, the control plane asks for it, an upload that has passed the check
\* has those bytes, and so have the store and the builds.
BytesInv ==
  Registered =>
    /\ source \in SourceRows /\ buildRequests \in Nat
    /\ put \in [Uploads -> PutStates]
    /\ archive \in {0, registered}
    /\ builds \in Seq(BuildRows)

LEMMA BuildQueued ==
  ASSUME NEW b \in Seq(BuildRows)
  PROVE  Append(b, Build!NewBuild) \in Seq(BuildRows)
BY DEF BuildRows, BuildStatuses, Build!NewBuild

LEMMA BuildStatus ==
  ASSUME NEW b \in Seq(BuildRows), NEW i, NEW s \in BuildStatuses
  PROVE  [b EXCEPT ![i].status = s] \in Seq(BuildRows)
<1>1. CASE i \in DOMAIN b
  <2>1. b[i] \in BuildRows
    BY <1>1
  <2>2. [b[i] EXCEPT !.status = s] \in BuildRows
    BY <2>1 DEF BuildRows
  <2> DEFINE x == [b[i] EXCEPT !.status = s]
  <2>3. [b EXCEPT ![i].status = s] = [b EXCEPT ![i] = x]
    BY <1>1
  <2> HIDE DEF x, BuildRows
  <2> QED BY <1>1, <2>2, <2>3 DEF x
<1>2. CASE i \notin DOMAIN b
  <2>1. [b EXCEPT ![i].status = s] = b
    BY <1>2
  <2> QED BY <2>1
<1> QED BY <1>1, <1>2

LEMMA BuildContent ==
  ASSUME NEW b \in Seq(BuildRows), NEW i, NEW c \in {0, registered}
  PROVE  [b EXCEPT ![i].content = c] \in Seq(BuildRows)
<1>1. CASE i \in DOMAIN b
  <2>1. b[i] \in BuildRows
    BY <1>1
  <2> DEFINE x == [b[i] EXCEPT !.content = c]
  <2>2. x \in BuildRows
    BY <2>1 DEF BuildRows
  <2>3. [b EXCEPT ![i].content = c] = [b EXCEPT ![i] = x]
    BY <1>1
  <2> HIDE DEF x, BuildRows
  <2> QED BY <1>1, <2>2, <2>3 DEF x
<1>2. CASE i \notin DOMAIN b
  <2>1. [b EXCEPT ![i].content = c] = b
    BY <1>2
  <2> QED BY <2>1
<1> QED BY <1>1, <1>2

LEMMA SourceStatus ==
  ASSUME NEW x \in SourceRows, NEW s \in SourceStatuses
  PROVE  [x EXCEPT !.status = s] \in SourceRows
BY DEF SourceRows

LEMMA BytesInvInit == Build!Init => BytesInv
<1> SUFFICES ASSUME Build!Init, Registered PROVE BytesInv
  BY DEF BytesInv
<1>1. source \in SourceRows /\ buildRequests \in Nat /\ archive = 0
  BY DEF Build!Init, Registered, SourceRows, SourceStatuses
<1>2. put \in [Uploads -> PutStates]
  BY DEF Build!Init, Build!Idle, PutStates
<1>3. builds \in Seq(BuildRows)
  BY DEF Build!Init
<1> QED BY <1>1, <1>2, <1>3 DEF BytesInv

\* The builders.
LEMMA BuilderKeepsBytes ==
  ASSUME BytesInv, Registered, NEW w \in Builders, Build!BuilderStep(w)
  PROVE  BytesInv'
<1>1. /\ UNCHANGED <<kind, registered, archive, put, buildRequests>> /\ BuildRows' = BuildRows
      /\ SourceRows' = SourceRows /\ PutStates' = PutStates
  BY DEF Build!BuilderStep, Build!ClaimSelect, Build!CheckoutGit, Build!VerifyZip, Build!UnpackZip, Build!BuildFails,
     Build!ReportSucceeded, Build!BuilderStops, Build!ClaimCommit, Build!ReportBuilding, Build!ReportCommit,
     Build!ReportFailed, Build!fixed, Build!zipVars, BuildRows, SourceRows, PutStates
<1>2. source \in SourceRows /\ builds \in Seq(BuildRows) /\ archive \in {0, registered}
  BY DEF BytesInv
<1> DEFINE i == builder[w].build
<1>3. source' \in SourceRows
  <2>1. source' = source \/ \E s \in SourceStatuses : source' = [source EXCEPT !.status = s]
    BY DEF Build!BuilderStep, Build!ClaimSelect, Build!CheckoutGit, Build!VerifyZip, Build!UnpackZip, Build!BuildFails,
       Build!ReportSucceeded, Build!BuilderStops, Build!ClaimCommit, Build!ReportBuilding, Build!ReportCommit,
       Build!ReportFailed, SourceStatuses
  <2> QED BY <1>2, <2>1, SourceStatus
<1>4. builds' \in Seq(BuildRows)
  <2>1. CASE \E lost \in BOOLEAN : Build!ReportCommit(w, lost)
    <3> DEFINE done == [builds EXCEPT ![i].status = "succeeded"]
    <3>1. builds' \in {done, Append(done, Build!NewBuild)}
      BY <2>1 DEF Build!ReportCommit
    <3>2. done \in Seq(BuildRows)
      BY <1>2, BuildStatus DEF BuildStatuses
    <3> HIDE DEF done
    <3> QED BY <3>1, <3>2, BuildQueued
  <2>2. CASE Build!UnpackZip(w)
    BY <1>2, <2>2, BuildContent DEF Build!UnpackZip
  <2>3. CASE Build!CheckoutGit(w)
    BY <2>3 DEF Build!CheckoutGit, Registered
  <2>4. CASE ~(\E lost \in BOOLEAN : Build!ReportCommit(w, lost)) /\ ~Build!UnpackZip(w) /\ ~Build!CheckoutGit(w)
    <3>1. builds' = builds \/ \E s \in BuildStatuses : builds' = [builds EXCEPT ![i].status = s]
      BY <2>4 DEF Build!BuilderStep, Build!ClaimSelect, Build!VerifyZip, Build!BuildFails, Build!ReportSucceeded,
         Build!BuilderStops, Build!ClaimCommit, Build!ReportBuilding, Build!ReportFailed, BuildStatuses
    <3>2. \A s \in BuildStatuses : [builds EXCEPT ![i].status = s] \in Seq(BuildRows)
      BY <1>2, BuildStatus
    <3> HIDE DEF i
    <3> QED BY <1>2, <3>1, <3>2
  <2> QED BY <2>1, <2>2, <2>3, <2>4
<1> QED BY <1>1, <1>3, <1>4 DEF BytesInv

\* The upload service.
LEMMA UploadKeepsBytes ==
  ASSUME BytesInv, Registered, NEW u \in Uploads, Build!UploadStep(u)
  PROVE  BytesInv'
<1>1. /\ UNCHANGED <<kind, registered, builds, buildRequests>> /\ BuildRows' = BuildRows
      /\ SourceRows' = SourceRows /\ PutStates' = PutStates
  BY DEF Build!UploadStep, Build!Authorize, Build!Promote, Build!Reject, Build!Unlink, Build!Complete, Build!Fail,
     Build!fixed, BuildRows, SourceRows, PutStates
<1>2. source \in SourceRows /\ put \in [Uploads -> PutStates] /\ archive \in {0, registered} /\ registered # 0
  BY DEF BytesInv, Registered
<1>3. ASSUME NEW s \in PutStates, put' = [put EXCEPT ![u] = s] PROVE put' \in [Uploads -> PutStates]
  BY <1>2, <1>3
<1>4. \A at \in {"fail", "unlink"} : [at |-> at, locks |-> {}] \in PutStates
  BY DEF PutStates
<1>5. Build!Idle \in PutStates
  BY DEF Build!Idle, PutStates
<1>6. ASSUME NEW c \in Contents, Build!Authorize(u, c) PROVE BytesInv'
  <2>1. [at |-> "stream", locks |-> {}, content |-> c, expected |-> source.sha] \in PutStates
    BY <1>2 DEF SourceRows, PutStates
  <2> QED BY <1>1, <1>2, <1>3, <1>6, <2>1 DEF Build!Authorize, Build!PutGoes, BytesInv
<1>7. CASE Build!Promote(u)
  <2>1. put[u] \in [at : {"stream"}, locks : {{}}, content : Contents, expected : {registered}]
    BY <1>2, <1>7 DEF Build!Promote, PutStates
  <2>2. put[u].content = registered
    BY <1>2, <1>7, <2>1 DEF Build!Promote, Build!Matches
  <2>3. [put[u] EXCEPT !.at = "complete"] \in PutStates
    BY <2>1, <2>2 DEF PutStates
  <2> QED BY <1>1, <1>2, <1>3, <1>7, <2>2, <2>3 DEF Build!Promote, Build!PutGoes, BytesInv
<1>8. CASE Build!Reject(u) \/ Build!Unlink(u)
  <2>1. archive' \in {0, registered} /\ source' = source
    BY <1>2, <1>8 DEF Build!Reject, Build!Unlink
  <2> QED BY <1>1, <1>2, <1>3, <1>4, <1>8, <2>1 DEF Build!Reject, Build!Unlink, Build!Cleanup, Build!PutGoes, BytesInv
<1>9. ASSUME NEW reached \in BOOLEAN, NEW answered \in BOOLEAN, Build!Complete(u, reached, answered) PROVE BytesInv'
  <2>1. put[u].content = registered
    BY <1>2, <1>9 DEF Build!Complete, PutStates
  <2>2. [status |-> "ready", sha |-> put[u].content, ticket |-> 0] \in SourceRows
    BY <2>1 DEF SourceRows, SourceStatuses
  <2>3. source' \in SourceRows /\ archive' = archive
    BY <1>2, <1>9, <2>2 DEF Build!Complete
  <2>4. put' \in [Uploads -> PutStates]
    BY <1>3, <1>4, <1>5, <1>9 DEF Build!Complete, Build!Cleanup, Build!PutGoes
  <2> QED BY <1>1, <1>2, <2>3, <2>4 DEF BytesInv
<1>10. ASSUME NEW lost \in BOOLEAN, Build!Fail(u, lost) PROVE BytesInv'
  <2>1. [source EXCEPT !.status = "failed", !.ticket = 0] \in SourceRows
    BY <1>2 DEF SourceRows, SourceStatuses
  <2>2. source' \in SourceRows /\ archive' = archive
    BY <1>2, <1>10, <2>1 DEF Build!Fail
  <2> QED BY <1>1, <1>2, <1>3, <1>5, <1>10, <2>2 DEF Build!Fail, Build!PutGoes, BytesInv
<1> QED BY <1>6, <1>7, <1>8, <1>9, <1>10 DEF Build!UploadStep

LEMMA BytesInvNext == ASSUME BytesInv, [Build!Next]_(Build!buildVars) PROVE BytesInv'
<1>1. UNCHANGED <<kind, registered>>
  BY DEF Build!Next, Build!BuilderStep, Build!UploadStep, Build!ClaimSelect, Build!CheckoutGit, Build!VerifyZip,
     Build!UnpackZip, Build!BuildFails, Build!ReportSucceeded, Build!BuilderStops, Build!ClaimCommit,
     Build!ReportBuilding, Build!ReportCommit, Build!ReportFailed, Build!Authorize, Build!Promote, Build!Reject,
     Build!Unlink, Build!Complete, Build!Fail, Build!QueueBegin, Build!QueueCommit, Build!RevokeSourceCredential,
     Build!CreateUploadTicket, Build!SetWebhook, Build!Push, Build!HookCommit, Build!HookBegin,
     Build!AuthorizeExpired, Build!UploadServiceStops, Build!fixed, Build!buildVars
<1> SUFFICES ASSUME Registered PROVE BytesInv'
  BY <1>1 DEF BytesInv, Registered
<1>2. BuildRows' = BuildRows /\ SourceRows' = SourceRows /\ PutStates' = PutStates
  BY <1>1 DEF BuildRows, SourceRows, PutStates
<1>3. /\ source \in SourceRows /\ buildRequests \in Nat /\ put \in [Uploads -> PutStates]
      /\ archive \in {0, registered} /\ builds \in Seq(BuildRows)
  BY DEF BytesInv
<1>4. ASSUME source' \in SourceRows, buildRequests' \in Nat, put' \in [Uploads -> PutStates], archive' = archive,
             builds' \in Seq(BuildRows)
      PROVE  BytesInv'
  BY <1>1, <1>2, <1>3, <1>4 DEF BytesInv
<1>5. ASSUME \/ Build!QueueBegin \/ Build!RevokeSourceCredential \/ Build!Push \/ UNCHANGED Build!buildVars
             \/ \E status \in {"active", "disabled"} : Build!SetWebhook(status)
             \/ \E k \in 2..MaxPushes : Build!HookBegin(k)
      PROVE  BytesInv'
  BY <1>3, <1>4, <1>5 DEF Build!QueueBegin, Build!RevokeSourceCredential, Build!Push, Build!SetWebhook, Build!HookBegin,
     Build!Request, Build!zipVars, Build!buildVars
<1>6. CASE Build!QueueCommit \/ Build!HookCommit
  BY <1>3, <1>4, <1>6, BuildQueued DEF Build!QueueCommit, Build!HookCommit, Build!zipVars
<1>7. CASE Build!CreateUploadTicket
  <2>1. buildRequests' \in Nat
    BY <1>3, <1>7 DEF Build!CreateUploadTicket, Build!Request
  <2>2. [source EXCEPT !.status = "uploading", !.ticket = buildRequests'] \in SourceRows
    BY <1>3, <2>1 DEF SourceRows, SourceStatuses
  <2> QED BY <1>3, <1>4, <1>7, <2>1, <2>2 DEF Build!CreateUploadTicket, Build!zipVars
<1>8. CASE Build!AuthorizeExpired
  <2>1. [source EXCEPT !.status = "failed", !.ticket = 0] \in SourceRows
    BY <1>3 DEF SourceRows, SourceStatuses
  <2> QED BY <1>3, <1>4, <1>8, <2>1 DEF Build!AuthorizeExpired, Build!zipVars
<1>9. CASE Build!UploadServiceStops
  <2>1. Build!Idle \in PutStates
    BY DEF Build!Idle, PutStates
  <2> QED BY <1>3, <1>4, <1>9, <2>1 DEF Build!UploadServiceStops
<1> QED BY <1>5, <1>6, <1>7, <1>8, <1>9, BuilderKeepsBytes, UploadKeepsBytes DEF Build!Next

\* When the owner registered a checksum, no build gets to see other bytes, with any number of
\* builders and of uploads that overlap, are refused or die (do_PUT, complete_upload,
\* materialize_verified_zip).
THEOREM RegisteredBytesBuilt == Build!Spec => []OnlyRegisteredBuilt
<1>1. ASSUME BytesInv PROVE OnlyRegisteredBuilt
  <2> SUFFICES ASSUME Registered, NEW i \in DOMAIN builds PROVE builds[i].content \in {0, registered}
    BY DEF Registered, OnlyRegisteredBuilt, Build!OnlyRegisteredBuilt
  <2>1. builds[i] \in BuildRows
    BY <1>1 DEF BytesInv
  <2> QED BY <2>1 DEF BuildRows
<1> QED BY <1>1, BytesInvInit, BytesInvNext, PTL DEF Build!Spec

-----------------------------------------------------------------------------
(* HostingBuilds: no push is forgotten.                                    *)

GitBuilds == [status : {"queued", "claimed", "building", "succeeded", "failed"}, content : Nat]

GitTyped ==
  /\ source \in [status : {"ready", "building", "failed"}, sha : {0}, ticket : {0}]
  /\ builds \in Seq(GitBuilds)
  /\ head \in Nat \ {0} /\ announced \in 0..head /\ built \in Nat /\ hook.pending \in BOOLEAN
  /\ hooking # Build!NoDelivery => hooking.push \in 1..head /\ hooking.queue \in BOOLEAN
  /\ DOMAIN builder = Builders /\ put = [u \in Uploads |-> Build!Idle]

\* A builder has the rows it has locked, then one row, for itself; what it reports it has checked out.
BuilderSound(w) ==
  LET r == builder[w] IN
  /\ r.at \in {"idle", "claim", "start", "checkout", "report", "commit", "failing"}
  /\ r.at = "idle" => r = Build!Idle
  /\ r.at # "claim" => r.locks = {}
  /\ r.at = "claim" => /\ r.build \in r.locks /\ r.locks \subseteq DOMAIN builds /\ r.usable \in BOOLEAN
                       /\ \A i \in r.locks : builds[i].status = "queued"
  /\ r.at \notin {"idle", "claim"} => r.build \in DOMAIN builds
  /\ r.at = "start" => builds[r.build].status = "claimed"
  /\ r.at \in {"checkout", "report", "commit"} => builds[r.build].status = "building"
  /\ r.at \in {"report", "commit"} => builds[r.build].content # 0
  /\ r.at = "failing" => builds[r.build].status \in {"building", "succeeded"}
  /\ r.at = "commit" => r.hook \in BOOLEAN /\ r.queue \in BOOLEAN /\ (r.queue => r.hook)

BuildersExclusive ==
  \A v, w \in Builders : v # w =>
    /\ builder[v].locks \cap builder[w].locks = {}
    /\ builder[v].at \notin {"idle", "claim"} /\ builder[w].at \notin {"idle", "claim"} =>
         builder[v].build # builder[w].build

\* The lock of the webhook has one holder.
HookHeld ==
  \A w \in Builders : builder[w].at = "commit" /\ builder[w].hook =>
    /\ hooking = Build!NoDelivery
    /\ \A v \in Builders \ {w} : builder[v].at = "commit" => ~builder[v].hook

\* Build i has not checked out anything, or has push k.
Has(i, k) == builds[i].content = 0 \/ builds[i].content >= k

\* The builds under way have every push taken, unless one is remembered ...
Owed == announced > built /\ ~hook.pending
BuildsFresh == Owed => \A i \in DOMAIN builds : Build!InProgress(builds[i]) => Has(i, announced)

\* ... and so have those of a request that will queue a build and forget that one is pending.
DeliveryFresh ==
  hooking # Build!NoDelivery /\ hooking.queue =>
    \A i \in DOMAIN builds : Build!InProgress(builds[i]) => Has(i, announced) /\ Has(i, hooking.push)
ReportFresh ==
  \A w \in Builders : builder[w].at = "commit" /\ builder[w].queue =>
    \A i \in DOMAIN builds \ {builder[w].build} : Build!InProgress(builds[i]) => Has(i, announced)

\* A source is building while a claimed build will set it ready again or has stopped.
AtWork(i) == builds[i].status \in {"claimed", "building"}
SourceBusy ==
  source.status = "building" =>
    \E i \in DOMAIN builds :
      /\ AtWork(i)
      /\ \A w \in Builders : builder[w].at = "commit" /\ builder[w].build = i => builder[w].loaded # "ready"

\* A push that is in no image and not remembered has a build at work, or a queued one that no claim
\* is about to give up.
GivenUp(i) == \E w \in Builders : builder[w].at = "claim" /\ ~builder[w].usable /\ builder[w].build = i
BuildOwed ==
  Owed => \/ source.status = "failed" \/ credential = "revoked"
          \/ \E i \in DOMAIN builds : AtWork(i)
          \/ \E i \in DOMAIN builds : builds[i].status = "queued" /\ ~GivenUp(i)

GitInv ==
  /\ GitTyped /\ (\A w \in Builders : BuilderSound(w)) /\ BuildersExclusive /\ HookHeld
  /\ BuildsFresh /\ DeliveryFresh /\ ReportFresh /\ SourceBusy /\ BuildOwed

-----------------------------------------------------------------------------
(* Rows.                                                                   *)

\* A step changes row i only, and that into a row.
OnlyRow(i) ==
  /\ builds' \in Seq(GitBuilds) /\ DOMAIN builds' = DOMAIN builds
  /\ \A j \in DOMAIN builds \ {i} : builds'[j] = builds[j]

\* A step adds a queued row.
RowAdded ==
  /\ builds' \in Seq(GitBuilds) /\ DOMAIN builds \subseteq DOMAIN builds'
  /\ \A j \in DOMAIN builds : builds'[j] = builds[j]
  /\ \E n \in DOMAIN builds' \ DOMAIN builds :
       /\ DOMAIN builds' = DOMAIN builds \cup {n}
       /\ builds'[n].status = "queued" /\ builds'[n].content = 0

\* A step gives builder w the state r.
OnlyBuilder(w, r) ==
  /\ DOMAIN builder' = Builders /\ builder'[w] = r
  /\ \A v \in Builders \ {w} : builder'[v] = builder[v]

LEMMA BuilderGoes ==
  ASSUME GitTyped, NEW w \in Builders, NEW r, Build!Goes(w, r)
  PROVE  OnlyBuilder(w, r)
BY DEF GitTyped, Build!Goes, OnlyBuilder

LEMMA StatusSet ==
  ASSUME NEW b \in Seq(GitBuilds), NEW i \in DOMAIN b,
         NEW s \in {"queued", "claimed", "building", "succeeded", "failed"},
         NEW c, c = [b EXCEPT ![i].status = s]
  PROVE  /\ c \in Seq(GitBuilds) /\ DOMAIN c = DOMAIN b /\ \A j \in DOMAIN b \ {i} : c[j] = b[j]
         /\ c[i].status = s /\ c[i].content = b[i].content
<1> DEFINE x == [b[i] EXCEPT !.status = s]
<1>1. b[i] \in GitBuilds
  OBVIOUS
<1>2. x \in GitBuilds /\ x.status = s /\ x.content = b[i].content
  BY <1>1 DEF GitBuilds
<1>3. c = [b EXCEPT ![i] = x]
  OBVIOUS
<1> HIDE DEF x, GitBuilds
<1> QED BY <1>2, <1>3

LEMMA ContentSet ==
  ASSUME NEW b \in Seq(GitBuilds), NEW i \in DOMAIN b, NEW k \in Nat, NEW c, c = [b EXCEPT ![i].content = k]
  PROVE  /\ c \in Seq(GitBuilds) /\ DOMAIN c = DOMAIN b /\ \A j \in DOMAIN b \ {i} : c[j] = b[j]
         /\ c[i].status = b[i].status /\ c[i].content = k
<1> DEFINE x == [b[i] EXCEPT !.content = k]
<1>1. b[i] \in GitBuilds
  OBVIOUS
<1>2. x \in GitBuilds /\ x.status = b[i].status /\ x.content = k
  BY <1>1 DEF GitBuilds
<1>3. c = [b EXCEPT ![i] = x]
  OBVIOUS
<1> HIDE DEF x, GitBuilds
<1> QED BY <1>2, <1>3

LEMMA RowQueued ==
  ASSUME NEW b \in Seq(GitBuilds), NEW c, c = Append(b, Build!NewBuild)
  PROVE  /\ c \in Seq(GitBuilds) /\ DOMAIN b \subseteq DOMAIN c /\ \A j \in DOMAIN b : c[j] = b[j]
         /\ \E n \in DOMAIN c \ DOMAIN b :
              DOMAIN c = DOMAIN b \cup {n} /\ c[n].status = "queued" /\ c[n].content = 0
<1> DEFINE x == Build!NewBuild
           n == Len(b) + 1
<1>1. x \in GitBuilds /\ x.status = "queued" /\ x.content = 0
  BY DEF GitBuilds, Build!NewBuild
<1> HIDE DEF x, GitBuilds
<1>2. c = Append(b, x)
  BY DEF x
<1>3. c \in Seq(GitBuilds) /\ Len(c) = n /\ c[n] = x /\ Len(b) \in Nat
  BY <1>1, <1>2
<1>4. DOMAIN c = 1..n /\ DOMAIN b = 1..Len(b)
  BY <1>3
<1>5. n \in DOMAIN c \ DOMAIN b /\ DOMAIN c = DOMAIN b \cup {n}
  BY <1>3, <1>4
<1>6. \A j \in DOMAIN b : c[j] = b[j]
  BY <1>2
<1> QED BY <1>1, <1>3, <1>5, <1>6

\* The other builders find their rows as they were.
LEMMA OthersSound ==
  ASSUME GitInv, NEW w \in Builders, builder[w].at # "idle", OnlyRow(builder[w].build),
         NEW v \in Builders \ {w}, builder'[v] = builder[v]
  PROVE  BuilderSound(v)'
<1>1. BuilderSound(v) /\ BuilderSound(w)
  BY DEF GitInv
<1> DEFINE i == builder[w].build
<1>2. i \in DOMAIN builds
  BY <1>1 DEF BuilderSound
<1>3. i \notin builder[v].locks
  BY <1>1, <1>2 DEF GitInv, BuildersExclusive, BuilderSound
<1>4. builder[v].at \notin {"idle", "claim"} => builder[v].build # i
  BY <1>1, <1>2 DEF GitInv, BuildersExclusive, BuilderSound
<1> HIDE DEF i
<1> QED BY <1>1, <1>3, <1>4 DEF BuilderSound, OnlyRow, i

LEMMA AddedSound ==
  ASSUME GitInv, RowAdded \/ builds' = builds, NEW v \in Builders, builder'[v] = builder[v]
  PROVE  BuilderSound(v)'
<1>1. BuilderSound(v)
  BY DEF GitInv
<1> QED BY <1>1 DEF BuilderSound, RowAdded

LEMMA RowIsAdded == ASSUME GitTyped, builds' = Append(builds, Build!NewBuild) PROVE RowAdded
<1> DEFINE c == builds'
<1>1. builds \in Seq(GitBuilds) /\ c = Append(builds, Build!NewBuild)
  BY DEF GitTyped
<1> HIDE DEF c
<1>2. c \in Seq(GitBuilds) /\ DOMAIN builds \subseteq DOMAIN c /\ \A j \in DOMAIN builds : c[j] = builds[j]
  BY <1>1, RowQueued
<1>3. \E n \in DOMAIN c \ DOMAIN builds :
        DOMAIN c = DOMAIN builds \cup {n} /\ c[n].status = "queued" /\ c[n].content = 0
  BY <1>1, RowQueued
<1> QED BY <1>2, <1>3 DEF RowAdded, c

-----------------------------------------------------------------------------
(* Owners and the Git provider.                                            *)

\* Nothing that the invariant speaks of changes, except that the credential may go, the branch may
\* grow and the webhook may be set up anew.
LEMMA OwnerKeeps ==
  ASSUME GitInv, UNCHANGED <<source, builds, hooking, builder, built, put>>,
         credential' \in {credential, "revoked"}, head' \in {head, head + 1},
         \/ UNCHANGED <<hook, announced>>
         \/ ~Build!HookLocked /\ hook'.pending = FALSE /\ announced' = 0
  PROVE  GitInv'
<1>1. head \in Nat /\ announced \in Nat /\ announced <= head /\ built \in Nat /\ head # 0
  BY DEF GitInv, GitTyped
<1>2. head' \in Nat \ {0} /\ head' >= head /\ announced' \in 0..head'
  BY <1>1
<1>3. GitTyped'
  <2>1. hook'.pending \in BOOLEAN
    BY DEF GitInv, GitTyped
  <2>2. hooking # Build!NoDelivery => hooking.push \in 1..head'
    BY <1>1, <1>2 DEF GitInv, GitTyped
  <2>3. 1..head \subseteq 1..head'
    BY <1>1, <1>2
  <2> QED BY <1>2, <2>1, <2>2 DEF GitInv, GitTyped
<1>4. (\A w \in Builders : BuilderSound(w)') /\ BuildersExclusive' /\ HookHeld' /\ SourceBusy'
  BY DEF GitInv, BuilderSound, BuildersExclusive, HookHeld, SourceBusy, AtWork
<1>5. CASE UNCHANGED <<hook, announced>>
  <2>1. BuildsFresh' /\ DeliveryFresh' /\ ReportFresh'
    BY <1>5 DEF GitInv, BuildsFresh, DeliveryFresh, ReportFresh, Owed, Has
  <2>2. BuildOwed'
    BY <1>5 DEF GitInv, BuildOwed, Owed, AtWork, GivenUp
  <2> QED BY <1>3, <1>4, <2>1, <2>2 DEF GitInv
<1>6. CASE ~Build!HookLocked /\ announced' = 0
  <2>1. ~Owed'
    BY <1>1, <1>6 DEF Owed
  <2>2. hooking = Build!NoDelivery /\ \A w \in Builders : ~(builder[w].at = "commit" /\ builder[w].hook)
    BY <1>6 DEF Build!HookLocked
  <2>3. \A w \in Builders : ~(builder[w].at = "commit" /\ builder[w].queue)
    BY <2>2 DEF GitInv, BuilderSound
  <2> QED BY <1>3, <1>4, <2>1, <2>2, <2>3 DEF GitInv, BuildsFresh, DeliveryFresh, ReportFresh, BuildOwed
<1> QED BY <1>5, <1>6

\* queue_build adds a row.
LEMMA QueueKeeps ==
  ASSUME GitInv, Build!QueueCommit
  PROVE  GitInv'
<1>1. RowAdded
  BY RowIsAdded DEF GitInv, Build!QueueCommit
<1>2. UNCHANGED <<source, credential, hook, hooking, builder, head, announced, built, put>>
  BY DEF Build!QueueCommit, Build!gitVars, Build!zipVars
<1>3. GitTyped'
  BY <1>1, <1>2 DEF GitInv, GitTyped, RowAdded
<1>4. \A w \in Builders : BuilderSound(w)'
  BY <1>1, <1>2, AddedSound
<1>5. BuildersExclusive' /\ HookHeld'
  BY <1>2 DEF GitInv, BuildersExclusive, HookHeld
<1>6. BuildsFresh' /\ DeliveryFresh' /\ ReportFresh'
  BY <1>1, <1>2 DEF GitInv, BuildsFresh, DeliveryFresh, ReportFresh, Owed, Has, RowAdded, Build!InProgress
<1>7. SourceBusy' /\ BuildOwed'
  BY <1>1, <1>2 DEF GitInv, SourceBusy, BuildOwed, Owed, AtWork, GivenUp, RowAdded
<1> QED BY <1>3, <1>4, <1>5, <1>6, <1>7 DEF GitInv

\* receive_source_webhook reads that nothing is under way ...
LEMMA HookBeginKeeps ==
  ASSUME GitInv, NEW k, Build!HookBegin(k)
  PROVE  GitInv'
<1>1. /\ UNCHANGED <<source, credential, hook, builds, builder, head, announced, built, put>>
      /\ k \in 1..head /\ ~Build!HookLocked
      /\ hooking' = [push |-> k, queue |-> source.status = "ready" /\ ~Build!HasActive]
  BY DEF Build!HookBegin, Build!zipVars
<1>2. /\ hooking'.push = k /\ hooking'.queue \in BOOLEAN
      /\ hooking'.queue => ~Build!HasActive
  BY <1>1
<1>3. GitTyped'
  BY <1>1, <1>2 DEF GitInv, GitTyped
<1>4. \A w \in Builders : ~(builder[w].at = "commit" /\ builder[w].hook)
  BY <1>1 DEF Build!HookLocked
<1>5. HookHeld'
  BY <1>1, <1>4 DEF HookHeld
<1>6. DeliveryFresh'
  BY <1>1, <1>2 DEF DeliveryFresh, Build!HasActive
<1>7. (\A w \in Builders : BuilderSound(w)') /\ BuildersExclusive' /\ BuildsFresh' /\ ReportFresh' /\ SourceBusy' /\ BuildOwed'
  BY <1>1 DEF GitInv, BuilderSound, BuildersExclusive, BuildsFresh, ReportFresh, SourceBusy, BuildOwed, Owed, Has,
     AtWork, GivenUp
<1> QED BY <1>3, <1>5, <1>6, <1>7 DEF GitInv

\* ... and queues a build, or remembers the push.
LEMMA HookCommitKeeps ==
  ASSUME GitInv, Build!HookCommit
  PROVE  GitInv'
<1>1. /\ UNCHANGED <<source, credential, builder, head, built, put>>
      /\ hooking # Build!NoDelivery /\ hooking' = Build!NoDelivery
      /\ hook' = [status |-> hook.status, pending |-> ~hooking.queue]
      /\ builds' = IF hooking.queue THEN Append(builds, Build!NewBuild) ELSE builds
      /\ announced' = Build!Newer(announced, hooking.push)
  BY DEF Build!HookCommit, Build!zipVars, Build!Remembered
<1>2. /\ head \in Nat /\ announced \in 0..head /\ built \in Nat /\ hooking.push \in 1..head /\ hooking.queue \in BOOLEAN
  BY <1>1 DEF GitInv, GitTyped
<1>3. announced' \in {announced, hooking.push} /\ announced' \in 0..head'
  BY <1>1, <1>2 DEF Build!Newer
<1>4. hook'.pending = ~hooking.queue
  BY <1>1
<1>5. IF hooking.queue THEN RowAdded ELSE builds' = builds
  BY <1>1, RowIsAdded DEF GitInv
<1>6. GitTyped'
  BY <1>1, <1>2, <1>3, <1>4, <1>5 DEF GitInv, GitTyped, RowAdded
<1>7. \A w \in Builders : BuilderSound(w)'
  BY <1>1, <1>5, AddedSound
<1>8. BuildersExclusive' /\ HookHeld' /\ DeliveryFresh'
  BY <1>1 DEF GitInv, BuildersExclusive, HookHeld, DeliveryFresh
<1>9. ReportFresh'
  <2>1. \A w \in Builders : ~(builder[w].at = "commit" /\ builder[w].queue)
    BY <1>1 DEF GitInv, HookHeld, BuilderSound
  <2> QED BY <1>1, <2>1 DEF ReportFresh
<1>10. SourceBusy'
  BY <1>1, <1>5 DEF GitInv, SourceBusy, AtWork, RowAdded
<1>11. CASE hooking.queue
  <2>1. \A i \in DOMAIN builds : Build!InProgress(builds[i]) => Has(i, announced')
    BY <1>1, <1>3, <1>11 DEF GitInv, DeliveryFresh
  <2>2. BuildsFresh'
    BY <1>5, <1>11, <2>1 DEF BuildsFresh, Has, RowAdded
  <2>3. PICK n \in DOMAIN builds' \ DOMAIN builds : builds'[n].status = "queued"
    BY <1>5, <1>11 DEF RowAdded
  <2>4. \A w \in Builders : builder[w].at = "claim" => builder[w].build \in DOMAIN builds
    BY DEF GitInv, BuilderSound
  <2>5. BuildOwed'
    BY <1>1, <2>3, <2>4 DEF BuildOwed, GivenUp
  <2> QED BY <1>6, <1>7, <1>8, <1>9, <1>10, <2>2, <2>5 DEF GitInv
<1>12. CASE ~hooking.queue
  <2>1. ~Owed'
    BY <1>4, <1>12 DEF Owed
  <2> QED BY <1>6, <1>7, <1>8, <1>9, <1>10, <2>1 DEF GitInv, BuildsFresh, BuildOwed
<1> QED BY <1>2, <1>11, <1>12

-----------------------------------------------------------------------------
(* Builders.                                                               *)

\* A builder leaves: it stops, or goes on to report a failure.
LEMMA LeaveKeeps ==
  ASSUME GitInv, NEW w \in Builders, NEW r, OnlyBuilder(w, r),
         \/ r = Build!Idle
         \/ r = Build!Failing(builder[w].build) /\ builder[w].at \in {"checkout", "report"},
         UNCHANGED <<source, credential, hook, builds, hooking, head, announced, built, put>>
  PROVE  GitInv'
<1>1. r.at \in {"idle", "failing"} /\ r.locks = {} /\ (r.at = "idle" => r = Build!Idle)
      /\ (r.at = "failing" => r.build = builder[w].build /\ builder[w].at \in {"checkout", "report"})
  BY DEF Build!Idle, Build!Failing
<1>2. builder'[w] = r /\ DOMAIN builder' = Builders /\ \A v \in Builders \ {w} : builder'[v] = builder[v]
  BY DEF OnlyBuilder
<1>3. GitTyped'
  BY <1>2 DEF GitInv, GitTyped
<1>4. ASSUME NEW v \in Builders PROVE BuilderSound(v)'
  <2>1. CASE v = w
    BY <1>1, <1>2, <2>1 DEF GitInv, BuilderSound
  <2>2. CASE v # w
    BY <1>2, <2>2, AddedSound
  <2> QED BY <2>1, <2>2
<1>5. BuildersExclusive' /\ HookHeld'
  BY <1>1, <1>2 DEF GitInv, BuildersExclusive, HookHeld
<1>6. BuildsFresh' /\ DeliveryFresh' /\ ReportFresh'
  BY <1>1, <1>2 DEF GitInv, BuildsFresh, DeliveryFresh, ReportFresh, Owed, Has
<1>7. SourceBusy'
  BY <1>1, <1>2 DEF GitInv, SourceBusy, AtWork
<1>8. BuildOwed'
  BY <1>1, <1>2 DEF GitInv, BuildOwed, Owed, AtWork, GivenUp
<1> QED BY <1>3, <1>4, <1>5, <1>6, <1>7, <1>8 DEF GitInv

\* claim_build takes the oldest row it can lock.  Of a source that is not ready it will give the
\* build up: then one is at work, or the source has failed.
LEMMA SelectKeepsPushes ==
  ASSUME GitInv, NEW w \in Builders, Build!ClaimSelect(w)
  PROVE  GitInv'
<1> DEFINE free == {i \in DOMAIN builds : builds[i].status = "queued" /\ \A v \in Builders : i \notin builder[v].locks}
           usable == source.status = "ready" /\ credential # "revoked"
<1>1. PICK i \in free :
        Build!Goes(w, [at |-> "claim", locks |-> free, build |-> i, sha |-> source.sha, usable |-> usable])
  BY DEF Build!ClaimSelect
<1>2. UNCHANGED <<source, credential, hook, builds, hooking, head, announced, built, put>> /\ builder[w] = Build!Idle
  BY DEF Build!ClaimSelect, Build!gitVars, Build!zipVars
<1> DEFINE r == [at |-> "claim", locks |-> free, build |-> i, sha |-> source.sha, usable |-> usable]
<1>3. r.at = "claim" /\ r.locks = free /\ r.build = i /\ r.usable \in BOOLEAN /\ (r.usable <=> usable)
  OBVIOUS
<1>4. OnlyBuilder(w, r)
  BY <1>1, BuilderGoes DEF GitInv
<1> HIDE DEF r
<1>5. builder'[w] = r /\ DOMAIN builder' = Builders /\ \A v \in Builders \ {w} : builder'[v] = builder[v]
  BY <1>4 DEF OnlyBuilder
<1>6. GitTyped'
  BY <1>2, <1>5 DEF GitInv, GitTyped
<1>7. ASSUME NEW v \in Builders PROVE BuilderSound(v)'
  <2>1. CASE v = w
    BY <1>2, <1>3, <1>5, <2>1 DEF BuilderSound
  <2>2. CASE v # w
    BY <1>2, <1>5, <2>2, AddedSound
  <2> QED BY <2>1, <2>2
<1>8. BuildersExclusive'
  BY <1>3, <1>5 DEF GitInv, BuildersExclusive
<1>9. HookHeld' /\ BuildsFresh' /\ DeliveryFresh' /\ ReportFresh' /\ SourceBusy'
  BY <1>2, <1>3, <1>5 DEF GitInv, HookHeld, BuildsFresh, DeliveryFresh, ReportFresh, SourceBusy, Owed, Has, AtWork
<1>10. BuildOwed'
  <2>1. CASE usable
    BY <1>2, <1>3, <1>5, <2>1 DEF GitInv, BuildOwed, Owed, AtWork, GivenUp
  <2>2. CASE ~usable
    <3>1. source.status \in {"building", "failed"} \/ credential = "revoked"
      BY <2>2 DEF GitInv, GitTyped
    <3>2. source.status = "building" => \E j \in DOMAIN builds : AtWork(j)
      BY DEF GitInv, SourceBusy
    <3> QED BY <1>2, <3>1, <3>2 DEF BuildOwed, AtWork
  <2> QED BY <2>1, <2>2
<1> QED BY <1>6, <1>7, <1>8, <1>9, <1>10 DEF GitInv

\* The claim's commit: the build is at work, or is given up.
LEMMA ClaimKeepsPushes ==
  ASSUME GitInv, NEW w \in Builders, NEW lost, Build!ClaimCommit(w, lost)
  PROVE  GitInv'
<1> DEFINE i == builder[w].build
           s == IF builder[w].usable THEN "claimed" ELSE "failed"
           r == IF builder[w].usable /\ ~lost THEN Build!Working(builder[w], "start") ELSE Build!Idle
<1>1. /\ builder[w].at = "claim" /\ builds' = [builds EXCEPT ![i].status = s] /\ Build!Goes(w, r)
      /\ source' = IF builder[w].usable THEN [source EXCEPT !.status = "building"] ELSE source
      /\ UNCHANGED <<credential, hook, hooking, head, announced, built, put>>
  BY DEF Build!ClaimCommit, Build!gitVars, Build!zipVars
<1>2. BuilderSound(w) /\ i \in DOMAIN builds /\ builds[i].status = "queued" /\ builder[w].usable \in BOOLEAN
  BY <1>1 DEF GitInv, BuilderSound
<1>3. /\ r.at \in {"idle", "start"} /\ r.locks = {} /\ (r.at = "idle" => r = Build!Idle)
      /\ r.at = "start" => r.build = i /\ builder[w].usable
  BY DEF Build!Working, Build!Idle
<1>4. OnlyRow(i) /\ builds'[i].status = s /\ builds'[i].content = builds[i].content
  BY <1>1, <1>2, StatusSet DEF GitInv, GitTyped, OnlyRow
<1>5. builder'[w] = r /\ DOMAIN builder' = Builders /\ \A v \in Builders \ {w} : builder'[v] = builder[v]
  BY <1>1, BuilderGoes DEF GitInv, OnlyBuilder
<1> HIDE DEF r
<1>6. /\ source' \in [status : {"ready", "building", "failed"}, sha : {0}, ticket : {0}]
      /\ source'.status = IF builder[w].usable THEN "building" ELSE source.status
  BY <1>1 DEF GitInv, GitTyped
<1>7. GitTyped'
  BY <1>1, <1>4, <1>5, <1>6 DEF GitInv, GitTyped, OnlyRow
<1>8. ASSUME NEW v \in Builders PROVE BuilderSound(v)'
  <2>1. CASE v = w
    BY <1>2, <1>3, <1>4, <1>5, <2>1 DEF BuilderSound, OnlyRow
  <2>2. CASE v # w
    BY <1>1, <1>4, <1>5, <2>2, OthersSound
  <2> QED BY <2>1, <2>2
<1>9. BuildersExclusive'
  <2>1. \A v \in Builders : builder[v].at \notin {"idle", "claim"} => builder[v].build # i
    BY <1>2 DEF GitInv, BuilderSound
  <2> QED BY <1>3, <1>5, <2>1 DEF GitInv, BuildersExclusive
<1>10. HookHeld'
  BY <1>1, <1>3, <1>5 DEF GitInv, HookHeld
<1>11. BuildsFresh' /\ DeliveryFresh' /\ ReportFresh'
  <2>1. \A j \in DOMAIN builds' : /\ j \in DOMAIN builds /\ builds'[j].content = builds[j].content
                                  /\ Build!InProgress(builds'[j]) => Build!InProgress(builds[j])
    BY <1>2, <1>4 DEF OnlyRow, Build!InProgress
  <2> QED BY <1>1, <1>3, <1>5, <2>1 DEF GitInv, BuildsFresh, DeliveryFresh, ReportFresh, Owed, Has
<1>12. CASE builder[w].usable
  <2>1. builds'[i].status = "claimed" /\ i \in DOMAIN builds'
    BY <1>2, <1>4, <1>12 DEF OnlyRow
  <2>2. \A v \in Builders : builder[v].at = "commit" => builder[v].build # i
    BY <1>2 DEF GitInv, BuilderSound
  <2>3. SourceBusy'
    BY <1>3, <1>5, <2>1, <2>2 DEF SourceBusy, AtWork
  <2>4. BuildOwed'
    BY <2>1 DEF BuildOwed, AtWork
  <2> QED BY <1>7, <1>8, <1>9, <1>10, <1>11, <2>3, <2>4 DEF GitInv
<1>13. CASE ~builder[w].usable
  <2>1. \A j \in DOMAIN builds : AtWork(j) => j \in DOMAIN builds' /\ AtWork(j)'
    BY <1>2, <1>4 DEF AtWork, OnlyRow
  <2>2. SourceBusy'
    BY <1>3, <1>5, <1>6, <1>13, <2>1 DEF GitInv, SourceBusy
  <2>3. GivenUp(i)
    BY <1>1, <1>13 DEF GivenUp
  <2>4. \A j \in DOMAIN builds : builds[j].status = "queued" /\ ~GivenUp(j) => j \in DOMAIN builds' /\ builds'[j].status = "queued"
    BY <1>4, <2>3 DEF OnlyRow
  <2>5. \A j \in DOMAIN builds : ~GivenUp(j) => ~GivenUp(j)'
    BY <1>3, <1>5 DEF GivenUp
  <2>6. BuildOwed'
    BY <1>1, <1>6, <1>13, <2>1, <2>4, <2>5 DEF GitInv, BuildOwed, Owed
  <2> QED BY <1>7, <1>8, <1>9, <1>10, <1>11, <2>2, <2>6 DEF GitInv
<1> QED BY <1>2, <1>12, <1>13

\* A builder at work goes on with its row: it reports that it is building, checks the branch out, or
\* has its report read what it decides on.
LEMMA WorkKeeps ==
  ASSUME GitInv, NEW w \in Builders, NEW r, NEW i, i = builder[w].build, OnlyBuilder(w, r),
         builder[w].at \in {"start", "checkout", "report"},
         OnlyRow(i), builds'[i].status = "building", builds'[i].content \in {builds[i].content, head},
         r.at \in {"checkout", "report", "commit", "failing"}, r.build = i, r.locks = {},
         r.at \in {"report", "commit"} => builds'[i].content # 0,
         r.at = "commit" =>
           /\ r.hook \in BOOLEAN /\ r.queue \in BOOLEAN /\ (r.queue => r.hook) /\ r.loaded = source.status
           /\ r.hook => ~Build!HookLocked
           /\ r.queue => \A j \in DOMAIN builds \ {i} : ~Build!InProgress(builds[j]),
         UNCHANGED <<source, credential, hook, hooking, head, announced, built, put>>
  PROVE  GitInv'
<1>1. BuilderSound(w) /\ i \in DOMAIN builds /\ builds[i].status \in {"claimed", "building"}
  BY DEF GitInv, BuilderSound
<1>2. builder'[w] = r /\ DOMAIN builder' = Builders /\ \A v \in Builders \ {w} : builder'[v] = builder[v]
  BY DEF OnlyBuilder
<1>3. GitTyped'
  BY <1>2 DEF GitInv, GitTyped, OnlyRow
<1>4. ASSUME NEW v \in Builders PROVE BuilderSound(v)'
  <2>1. CASE v = w
    BY <1>1, <1>2, <2>1 DEF BuilderSound, OnlyRow
  <2>2. CASE v # w
    BY <1>2, <2>2, OthersSound
  <2> QED BY <2>1, <2>2
<1>5. BuildersExclusive'
  BY <1>2 DEF GitInv, BuildersExclusive
<1>6. HookHeld'
  <2>1. ASSUME r.at = "commit", r.hook
        PROVE  hooking = Build!NoDelivery /\ \A v \in Builders : builder[v].at = "commit" => ~builder[v].hook
    BY <2>1 DEF Build!HookLocked
  <2> QED BY <1>2, <2>1 DEF GitInv, HookHeld
<1>7. \A j \in DOMAIN builds' :
        /\ j \in DOMAIN builds /\ (j # i => builds'[j] = builds[j])
        /\ Build!InProgress(builds'[j]) => Build!InProgress(builds[j])
  BY <1>1 DEF OnlyRow, Build!InProgress
<1>8. \A j \in DOMAIN builds' : \A k \in 0..head : Has(j, k) => Has(j, k)'
  <2>1. head \in Nat
    BY DEF GitInv, GitTyped
  <2> QED BY <1>7, <2>1 DEF Has
<1>9. announced \in 0..head /\ (hooking # Build!NoDelivery => hooking.push \in 0..head)
  BY DEF GitInv, GitTyped
<1>10. BuildsFresh'
  BY <1>7, <1>8, <1>9 DEF GitInv, BuildsFresh, Owed, Has
<1>11. DeliveryFresh'
  BY <1>7, <1>8, <1>9 DEF GitInv, DeliveryFresh, Has
<1>12. ReportFresh'
  BY <1>2, <1>7, <1>8, <1>9 DEF GitInv, ReportFresh, Has
<1>13. \A j \in DOMAIN builds : AtWork(j) => j \in DOMAIN builds' /\ AtWork(j)'
  BY <1>1 DEF AtWork, OnlyRow
<1>14. SourceBusy'
  BY <1>2, <1>13 DEF GitInv, SourceBusy
<1>15. BuildOwed'
  <2>1. i \in DOMAIN builds' /\ builds'[i].status = "building"
    BY <1>1 DEF OnlyRow
  <2> QED BY <2>1 DEF BuildOwed, AtWork
<1> QED BY <1>3, <1>4, <1>5, <1>6, <1>10, <1>11, <1>12, <1>14, <1>15 DEF GitInv

LEMMA ReportBuildingKeeps ==
  ASSUME GitInv, NEW w \in Builders, NEW lost, Build!ReportBuilding(w, lost)
  PROVE  GitInv'
<1> DEFINE i == builder[w].build
           r == IF lost THEN Build!Failing(i) ELSE Build!Working(builder[w], "checkout")
<1>1. /\ builder[w].at = "start" /\ builds' = [builds EXCEPT ![i].status = "building"] /\ Build!Goes(w, r)
      /\ UNCHANGED <<source, credential, hook, hooking, head, announced, built, put>>
  BY DEF Build!ReportBuilding, Build!gitVars, Build!zipVars
<1>2. i \in DOMAIN builds
  BY <1>1 DEF GitInv, BuilderSound
<1>3. OnlyRow(i) /\ builds'[i].status = "building" /\ builds'[i].content = builds[i].content
  BY <1>1, <1>2, StatusSet DEF GitInv, GitTyped, OnlyRow
<1>4. OnlyBuilder(w, r)
  BY <1>1, BuilderGoes DEF GitInv
<1>5. r.at \in {"checkout", "failing"} /\ r.build = i /\ r.locks = {}
  BY DEF Build!Failing, Build!Working
<1> HIDE DEF r
<1> QED BY <1>1, <1>3, <1>4, <1>5, WorkKeeps

LEMMA CheckoutKeeps ==
  ASSUME GitInv, NEW w \in Builders, Build!CheckoutGit(w)
  PROVE  GitInv'
<1> DEFINE i == builder[w].build
           r == Build!Working(builder[w], "report")
<1>1. /\ builder[w].at = "checkout" /\ builds' = [builds EXCEPT ![i].content = head] /\ Build!Goes(w, r)
      /\ UNCHANGED <<source, credential, hook, hooking, head, announced, built, put>>
  BY DEF Build!CheckoutGit, Build!gitVars, Build!zipVars
<1>2. i \in DOMAIN builds /\ builds[i].status = "building" /\ head \in Nat \ {0}
  BY <1>1 DEF GitInv, GitTyped, BuilderSound
<1>3. OnlyRow(i) /\ builds'[i].status = "building" /\ builds'[i].content = head
  BY <1>1, <1>2, ContentSet DEF GitInv, GitTyped, OnlyRow
<1>4. OnlyBuilder(w, r)
  BY <1>1, BuilderGoes DEF GitInv
<1>5. r.at = "report" /\ r.build = i /\ r.locks = {}
  BY DEF Build!Working
<1> HIDE DEF r
<1> QED BY <1>1, <1>2, <1>3, <1>4, <1>5, WorkKeeps

LEMMA ReportSucceededKeeps ==
  ASSUME GitInv, NEW w \in Builders, Build!ReportSucceeded(w)
  PROVE  GitInv'
<1> DEFINE i == builder[w].build
           pending == hook.status = "active" /\ hook.pending
           others == \E j \in DOMAIN builds \ {i} : Build!InProgress(builds[j])
           r == [at |-> "commit", locks |-> {}, build |-> i, loaded |-> source.status,
                 hook |-> pending, queue |-> pending /\ ~others]
<1>1. /\ builder[w].at = "report" /\ (pending => ~Build!HookLocked) /\ Build!Goes(w, r)
      /\ UNCHANGED <<source, credential, hook, builds, hooking, head, announced, built, put>>
  BY DEF Build!ReportSucceeded, Build!gitVars, Build!zipVars
<1>2. i \in DOMAIN builds /\ builds[i].status = "building" /\ builds[i].content # 0
  BY <1>1 DEF GitInv, BuilderSound
<1>3. OnlyRow(i) /\ builds'[i].status = "building" /\ builds'[i].content = builds[i].content
  BY <1>1, <1>2 DEF GitInv, GitTyped, OnlyRow
<1>4. OnlyBuilder(w, r)
  BY <1>1, BuilderGoes DEF GitInv
<1>5. /\ r.at = "commit" /\ r.build = i /\ r.locks = {} /\ r.loaded = source.status
      /\ r.hook \in BOOLEAN /\ r.queue \in BOOLEAN /\ (r.hook => pending) /\ (r.queue => r.hook /\ ~others)
  OBVIOUS
<1> HIDE DEF r
<1> QED BY <1>1, <1>2, <1>3, <1>4, <1>5, WorkKeeps

\* The report's commit: what was checked out is published, and the build that was remembered is queued.
LEMMA ReportCommitKeeps ==
  ASSUME GitInv, kind = "git", NEW w \in Builders, NEW lost, Build!ReportCommit(w, lost)
  PROVE  GitInv'
<1> DEFINE i == builder[w].build
           done == [builds EXCEPT ![i].status = "succeeded"]
           r == IF lost THEN Build!Failing(i) ELSE Build!Idle
<1>1. /\ builder[w].at = "commit" /\ Build!Goes(w, r)
      /\ builds' = IF builder[w].queue THEN Append(done, Build!NewBuild) ELSE done
      /\ hook' = IF builder[w].queue THEN [status |-> hook.status, pending |-> FALSE] ELSE hook
      /\ source' = IF builder[w].loaded = "ready" THEN source ELSE [source EXCEPT !.status = "ready"]
      /\ built' = Build!Newer(built, builds[i].content)
      /\ UNCHANGED <<credential, hooking, head, announced, put>>
  BY DEF Build!ReportCommit, Build!zipVars
<1>2. /\ BuilderSound(w) /\ i \in DOMAIN builds /\ builds[i].status = "building" /\ builds[i].content \in Nat \ {0}
      /\ builder[w].queue \in BOOLEAN /\ (builder[w].queue => builder[w].hook)
  <2>1. BuilderSound(w)
    BY DEF GitInv
  <2>2. i \in DOMAIN builds
    BY <1>1, <2>1 DEF BuilderSound
  <2>3. builds[i] \in GitBuilds
    BY <2>2 DEF GitInv, GitTyped
  <2>4. builds[i].content \in Nat
    BY <2>3 DEF GitBuilds
  <2> QED BY <1>1, <2>1, <2>2, <2>4 DEF BuilderSound
<1>3. /\ done \in Seq(GitBuilds) /\ DOMAIN done = DOMAIN builds /\ \A j \in DOMAIN builds \ {i} : done[j] = builds[j]
      /\ done[i].status = "succeeded" /\ done[i].content = builds[i].content
  <2>1. builds \in Seq(GitBuilds) /\ done = [builds EXCEPT ![i].status = "succeeded"]
    BY DEF GitInv, GitTyped
  <2> HIDE DEF done
  <2> QED BY <1>2, <2>1, StatusSet
<1> HIDE DEF done
<1>4. done \in Seq(GitBuilds) /\ DOMAIN done = DOMAIN builds
  BY <1>3
<1>5. /\ builds' \in Seq(GitBuilds) /\ DOMAIN builds \subseteq DOMAIN builds'
      /\ \A j \in DOMAIN builds \ {i} : builds'[j] = builds[j]
      /\ builds'[i].status = "succeeded" /\ builds'[i].content = builds[i].content
  <2>1. CASE builder[w].queue
    <3>1. builds' = Append(done, Build!NewBuild)
      BY <1>1, <2>1
    <3> DEFINE c == builds'
    <3>2. c \in Seq(GitBuilds) /\ DOMAIN done \subseteq DOMAIN c /\ \A j \in DOMAIN done : c[j] = done[j]
      <4> HIDE DEF c
      <4>1. c = Append(done, Build!NewBuild)
        BY <3>1 DEF c
      <4> QED BY <1>3, <4>1, RowQueued
    <3> QED BY <1>2, <1>3, <3>2
  <2>2. CASE ~builder[w].queue
    BY <1>1, <1>2, <1>3, <2>2
  <2> QED BY <2>1, <2>2
<1>6. \A n \in DOMAIN builds' \ DOMAIN builds :
        builder[w].queue /\ builds'[n].status = "queued" /\ builds'[n].content = 0
  <2>1. CASE builder[w].queue
    <3>1. builds' = Append(done, Build!NewBuild)
      BY <1>1, <2>1
    <3> DEFINE c == builds'
    <3>2. \E n \in DOMAIN c \ DOMAIN done :
            DOMAIN c = DOMAIN done \cup {n} /\ c[n].status = "queued" /\ c[n].content = 0
      <4> HIDE DEF c
      <4>1. c = Append(done, Build!NewBuild)
        BY <3>1 DEF c
      <4> QED BY <1>4, <4>1, RowQueued
    <3> QED BY <1>4, <2>1, <3>2
  <2>2. CASE ~builder[w].queue
    BY <1>1, <1>3, <2>2
  <2> QED BY <2>1, <2>2
<1>7. builder[w].queue => \E n \in DOMAIN builds' : n \notin DOMAIN builds
  <2>1. SUFFICES ASSUME builder[w].queue PROVE \E n \in DOMAIN builds' : n \notin DOMAIN builds
    OBVIOUS
  <2> DEFINE c == builds'
  <2>2. c = Append(done, Build!NewBuild)
    BY <1>1, <2>1
  <2> HIDE DEF c
  <2>3. \E n \in DOMAIN c \ DOMAIN done :
          DOMAIN c = DOMAIN done \cup {n} /\ c[n].status = "queued" /\ c[n].content = 0
    BY <1>4, <2>2, RowQueued
  <2> QED BY <1>4, <2>3 DEF c
<1>8. /\ r.at \in {"idle", "failing"} /\ r.locks = {} /\ (r.at = "idle" => r = Build!Idle)
      /\ r.at = "failing" => r.build = i
  BY DEF Build!Failing, Build!Idle
<1>9. builder'[w] = r /\ DOMAIN builder' = Builders /\ \A v \in Builders \ {w} : builder'[v] = builder[v]
  BY <1>1, BuilderGoes DEF GitInv, OnlyBuilder
<1> HIDE DEF r
<1>10. /\ source' \in [status : {"ready", "building", "failed"}, sha : {0}, ticket : {0}]
      /\ source'.status = "building" => source.status = "building" /\ builder[w].loaded = "ready"
  BY <1>1 DEF GitInv, GitTyped
<1>11. built' \in Nat /\ built' >= built /\ built' >= builds[i].content /\ built \in Nat /\ announced \in Nat
  BY <1>1, <1>2 DEF GitInv, GitTyped, Build!Newer
<1>12. hook'.pending \in BOOLEAN /\ (hook'.pending <=> hook.pending /\ ~builder[w].queue)
  <2>1. hook.pending \in BOOLEAN
    BY DEF GitInv, GitTyped
  <2>2. CASE builder[w].queue
    BY <1>1, <2>2
  <2>3. CASE ~builder[w].queue
    BY <1>1, <2>1, <2>3
  <2> QED BY <2>2, <2>3
<1>13. GitTyped'
  BY <1>1, <1>5, <1>9, <1>10, <1>11, <1>12 DEF GitInv, GitTyped
<1>14. ASSUME NEW v \in Builders PROVE BuilderSound(v)'
  <2>1. CASE v = w
    BY <1>2, <1>5, <1>8, <1>9, <2>1 DEF BuilderSound
  <2>2. CASE v # w
    <3>1. BuilderSound(v) /\ builder'[v] = builder[v]
      BY <1>9, <2>2 DEF GitInv
    <3>2. builder[v].at \notin {"idle", "claim"} => builder[v].build # i
      BY <1>1, <2>2 DEF GitInv, BuildersExclusive
    <3>3. i \notin builder[v].locks
      BY <1>2, <3>1 DEF BuilderSound
    <3> HIDE DEF i
    <3> QED BY <1>5, <3>1, <3>2, <3>3 DEF BuilderSound
  <2> QED BY <2>1, <2>2
<1>15. BuildersExclusive' /\ HookHeld'
  BY <1>1, <1>8, <1>9 DEF GitInv, BuildersExclusive, HookHeld
<1>16. ASSUME NEW j \in DOMAIN builds', Build!InProgress(builds'[j])
       PROVE  \/ builder[w].queue /\ builds'[j].content = 0
              \/ j \in DOMAIN builds \ {i} /\ builds'[j] = builds[j] /\ Build!InProgress(builds[j])
  BY <1>5, <1>6, <1>16 DEF Build!InProgress
<1>17. builder[w].queue =>
         /\ \A j \in DOMAIN builds \ {i} : Build!InProgress(builds[j]) => Has(j, announced)
         /\ hooking = Build!NoDelivery
         /\ \A v \in Builders \ {w} : builder[v].at = "commit" => ~builder[v].queue
  BY <1>1, <1>2 DEF GitInv, ReportFresh, HookHeld, BuilderSound
\* Without another build to queue, what was published has every push, or one is still remembered.
<1>18. ASSUME ~builder[w].queue PROVE ~Owed'
  <2>1. SUFFICES ASSUME Owed' PROVE FALSE
    OBVIOUS
  <2>2. announced > built' /\ ~hook.pending
    BY <1>1, <1>12, <1>18, <2>1 DEF Owed
  <2>3. Has(i, announced)
    BY <1>2, <1>11, <2>2 DEF GitInv, BuildsFresh, Owed, Build!InProgress
  <2> QED BY <1>2, <1>11, <2>2, <2>3 DEF Has
<1>19. BuildsFresh'
  BY <1>1, <1>16, <1>17, <1>18 DEF BuildsFresh, Has
<1>20. DeliveryFresh'
  BY <1>1, <1>16, <1>17 DEF GitInv, DeliveryFresh, Has
<1>21. ReportFresh'
  BY <1>1, <1>8, <1>9, <1>16, <1>17 DEF GitInv, ReportFresh, Has
<1>22. SourceBusy'
  BY <1>1, <1>5, <1>8, <1>9, <1>10 DEF GitInv, SourceBusy, AtWork
<1>23. BuildOwed'
  <2>1. CASE builder[w].queue
    <3>1. PICK n \in DOMAIN builds' : n \notin DOMAIN builds
      BY <1>7, <2>1
    <3>2. builds'[n].status = "queued"
      BY <1>6, <3>1
    <3>3. \A v \in Builders : builder[v].at = "claim" => builder[v].build \in DOMAIN builds
      BY DEF GitInv, BuilderSound
    <3> QED BY <1>8, <1>9, <3>1, <3>2, <3>3 DEF BuildOwed, GivenUp
  <2>2. CASE ~builder[w].queue
    BY <1>18, <2>2 DEF BuildOwed
  <2> QED BY <2>1, <2>2
<1> QED BY <1>13, <1>14, <1>15, <1>19, <1>20, <1>21, <1>22, <1>23 DEF GitInv

\* A failure that is reported fails the source too; one that is refused or lost changes nothing.
LEMMA ReportFailedKeeps ==
  ASSUME GitInv, NEW w \in Builders, NEW lost, Build!ReportFailed(w, lost)
  PROVE  GitInv'
<1> DEFINE i == builder[w].build
           accepted == ~lost /\ builds[i].status \in {"claimed", "building"}
<1>1. /\ builder[w].at = "failing" /\ Build!Goes(w, Build!Idle)
      /\ builds' = IF accepted THEN [builds EXCEPT ![i].status = "failed"] ELSE builds
      /\ source' = IF accepted THEN [source EXCEPT !.status = "failed"] ELSE source
      /\ UNCHANGED <<credential, hook, hooking, head, announced, built, put>>
  BY DEF Build!ReportFailed, Build!gitVars, Build!zipVars
<1>2. OnlyBuilder(w, Build!Idle)
  BY <1>1, BuilderGoes DEF GitInv
<1>3. CASE accepted
  <2>1. builds' = [builds EXCEPT ![i].status = "failed"] /\ i \in DOMAIN builds
    BY <1>1, <1>3 DEF GitInv, BuilderSound
  <2>2. OnlyRow(i) /\ builds'[i].status = "failed"
    <3>1. builds \in Seq(GitBuilds)
      BY DEF GitInv, GitTyped
    <3> QED BY <2>1, <3>1, StatusSet DEF OnlyRow
  <2>3. source' \in [status : {"ready", "building", "failed"}, sha : {0}, ticket : {0}] /\ source'.status = "failed"
    BY <1>1, <1>3 DEF GitInv, GitTyped
  <2>4. builder'[w] = Build!Idle /\ DOMAIN builder' = Builders /\ \A v \in Builders \ {w} : builder'[v] = builder[v]
    BY <1>2 DEF OnlyBuilder
  <2>5. Build!Idle.at = "idle" /\ Build!Idle.locks = {}
    BY DEF Build!Idle
  <2>6. GitTyped'
    BY <1>1, <2>2, <2>3, <2>4 DEF GitInv, GitTyped, OnlyRow
  <2>7. ASSUME NEW v \in Builders PROVE BuilderSound(v)'
    <3>1. CASE v = w
      BY <2>4, <2>5, <3>1 DEF BuilderSound
    <3>2. CASE v # w
      BY <1>1, <2>2, <2>4, <3>2, OthersSound
    <3> QED BY <3>1, <3>2
  <2>8. BuildersExclusive' /\ HookHeld'
    BY <1>1, <2>4, <2>5 DEF GitInv, BuildersExclusive, HookHeld
  <2>9. \A j \in DOMAIN builds' :
          Build!InProgress(builds'[j]) => j \in DOMAIN builds /\ builds'[j] = builds[j]
    BY <2>1, <2>2 DEF OnlyRow, Build!InProgress
  <2>10. BuildsFresh' /\ DeliveryFresh' /\ ReportFresh'
    BY <1>1, <2>4, <2>5, <2>9 DEF GitInv, BuildsFresh, DeliveryFresh, ReportFresh, Owed, Has
  <2>11. SourceBusy' /\ BuildOwed'
    BY <2>3 DEF SourceBusy, BuildOwed
  <2> QED BY <2>6, <2>7, <2>8, <2>10, <2>11 DEF GitInv
<1>4. CASE ~accepted
  <2>1. UNCHANGED <<source, credential, hook, builds, hooking, head, announced, built, put>>
    BY <1>1, <1>4
  <2> QED BY <1>2, <2>1, LeaveKeeps
<1> QED BY <1>3, <1>4

-----------------------------------------------------------------------------
(* Every step, and the theorem.                                            *)

LEMMA BuilderStepKeeps ==
  ASSUME GitInv, kind = "git", NEW w \in Builders, Build!BuilderStep(w)
  PROVE  GitInv'
<1>1. BuilderSound(w)
  BY DEF GitInv
<1>2. CASE Build!ClaimSelect(w)
  BY <1>2, SelectKeepsPushes
<1>3. CASE Build!CheckoutGit(w)
  BY <1>3, CheckoutKeeps
<1>4. CASE Build!VerifyZip(w) \/ Build!UnpackZip(w)
  BY <1>1, <1>4 DEF BuilderSound, Build!VerifyZip, Build!UnpackZip
<1>5. CASE Build!BuildFails(w)
  <2>1. /\ builder[w].at \in {"checkout", "report"} /\ Build!Goes(w, Build!Failing(builder[w].build))
        /\ UNCHANGED <<source, credential, hook, builds, hooking, head, announced, built, put>>
    BY <1>1, <1>5 DEF BuilderSound, Build!BuildFails, Build!gitVars, Build!zipVars
  <2>2. OnlyBuilder(w, Build!Failing(builder[w].build))
    BY <2>1, BuilderGoes DEF GitInv
  <2> QED BY <2>1, <2>2, LeaveKeeps
<1>6. CASE Build!ReportSucceeded(w)
  BY <1>6, ReportSucceededKeeps
<1>7. CASE Build!BuilderStops(w)
  <2>1. /\ Build!Goes(w, Build!Idle)
        /\ UNCHANGED <<source, credential, hook, builds, hooking, head, announced, built, put>>
    BY <1>7 DEF Build!BuilderStops, Build!gitVars, Build!zipVars
  <2>2. OnlyBuilder(w, Build!Idle)
    BY <2>1, BuilderGoes DEF GitInv
  <2> QED BY <2>1, <2>2, LeaveKeeps
<1>8. ASSUME NEW lost \in BOOLEAN,
             \/ Build!ClaimCommit(w, lost) \/ Build!ReportBuilding(w, lost)
             \/ Build!ReportCommit(w, lost) \/ Build!ReportFailed(w, lost)
      PROVE  GitInv'
  BY <1>8, ClaimKeepsPushes, ReportBuildingKeeps, ReportCommitKeeps, ReportFailedKeeps
<1> QED BY <1>2, <1>3, <1>4, <1>5, <1>6, <1>7, <1>8 DEF Build!BuilderStep

LEMMA GitStepKeeps ==
  ASSUME GitInv, kind = "git", [Build!Next]_(Build!buildVars)
  PROVE  GitInv'
<1>1. CASE \/ Build!QueueBegin \/ Build!RevokeSourceCredential \/ Build!Push \/ UNCHANGED Build!buildVars
           \/ \E status \in {"active", "disabled"} : Build!SetWebhook(status)
  <2>1. /\ UNCHANGED <<source, builds, hooking, builder, built, put>>
        /\ credential' \in {credential, "revoked"} /\ head' \in {head, head + 1}
        /\ \/ UNCHANGED <<hook, announced>>
           \/ ~Build!HookLocked /\ hook'.pending = FALSE /\ announced' = 0
    BY <1>1 DEF Build!QueueBegin, Build!RevokeSourceCredential, Build!Push, Build!SetWebhook, Build!buildVars,
       Build!gitVars, Build!zipVars
  <2> QED BY <2>1, OwnerKeeps
<1>2. CASE Build!QueueCommit
  BY <1>2, QueueKeeps
<1>3. CASE Build!HookCommit
  BY <1>3, HookCommitKeeps
<1>4. CASE \E k \in 2..MaxPushes : Build!HookBegin(k)
  BY <1>4, HookBeginKeeps
<1>5. CASE \E w \in Builders : Build!BuilderStep(w)
  BY <1>5, BuilderStepKeeps
<1>6. CASE Build!CreateUploadTicket \/ Build!AuthorizeExpired
  BY <1>6 DEF Build!CreateUploadTicket, Build!AuthorizeExpired
<1>7. CASE Build!UploadServiceStops \/ \E u \in Uploads : Build!UploadStep(u)
  <2>1. \A u \in Uploads : put[u] = Build!Idle /\ put[u].at = "idle"
    BY DEF GitInv, GitTyped, Build!Idle
  <2> QED BY <1>7, <2>1 DEF Build!UploadServiceStops, Build!UploadStep, Build!Authorize, Build!Promote, Build!Reject,
          Build!Unlink, Build!Complete, Build!Fail
<1> QED BY <1>1, <1>2, <1>3, <1>4, <1>5, <1>6, <1>7 DEF Build!Next

\* Of an archive there are no pushes.
ZipInv == announced = 0 /\ built = 0 /\ hook.status = "disabled" /\ hooking = Build!NoDelivery

LEMMA ZipStepKeeps ==
  ASSUME ZipInv, kind = "zip", [Build!Next]_(Build!buildVars)
  PROVE  ZipInv'
<1>1. CASE \/ Build!QueueBegin \/ Build!QueueCommit \/ Build!RevokeSourceCredential \/ Build!CreateUploadTicket
           \/ Build!AuthorizeExpired \/ Build!UploadServiceStops \/ UNCHANGED Build!buildVars
  BY <1>1 DEF ZipInv, Build!QueueBegin, Build!QueueCommit, Build!RevokeSourceCredential, Build!CreateUploadTicket,
     Build!AuthorizeExpired, Build!UploadServiceStops, Build!buildVars, Build!gitVars
<1>2. CASE \/ Build!Push \/ Build!HookCommit \/ \E status \in {"active", "disabled"} : Build!SetWebhook(status)
           \/ \E k \in 2..MaxPushes : Build!HookBegin(k)
  BY <1>2 DEF ZipInv, Build!Push, Build!HookCommit, Build!SetWebhook, Build!HookBegin
<1>3. ASSUME NEW w \in Builders, Build!BuilderStep(w) PROVE ZipInv'
  <2>1. CASE \E lost \in BOOLEAN : Build!ReportCommit(w, lost)
    BY <2>1 DEF ZipInv, Build!ReportCommit
  <2> QED BY <1>3, <2>1 DEF ZipInv, Build!BuilderStep, Build!ClaimSelect, Build!CheckoutGit, Build!VerifyZip,
          Build!UnpackZip, Build!BuildFails, Build!ReportSucceeded, Build!BuilderStops, Build!ClaimCommit,
          Build!ReportBuilding, Build!ReportFailed, Build!gitVars
<1>4. ASSUME NEW u \in Uploads, Build!UploadStep(u) PROVE ZipInv'
  BY <1>4 DEF ZipInv, Build!UploadStep, Build!Authorize, Build!Promote, Build!Reject, Build!Unlink, Build!Complete,
     Build!Fail, Build!gitVars
<1> QED BY <1>1, <1>2, <1>3, <1>4 DEF Build!Next

PushInv ==
  /\ kind \in {"git", "zip"}
  /\ kind = "git" => GitInv
  /\ kind = "zip" => ZipInv

LEMMA PushInvInit == Build!Init => PushInv
<1> SUFFICES ASSUME Build!Init PROVE PushInv
  OBVIOUS
<1>1. kind \in {"git", "zip"} /\ (kind = "zip" => ZipInv)
  BY DEF Build!Init, ZipInv
<1>2. ASSUME kind = "git" PROVE GitInv
  <2>1. GitTyped
    BY <1>2 DEF Build!Init, GitTyped
  <2>2. (\A w \in Builders : BuilderSound(w)) /\ BuildersExclusive /\ HookHeld
    BY DEF Build!Init, BuilderSound, BuildersExclusive, HookHeld, Build!Idle
  <2>3. ~Owed /\ source.status = "ready" /\ hooking = Build!NoDelivery /\ \A w \in Builders : builder[w].at = "idle"
    BY <1>2 DEF Build!Init, Owed, Build!Idle
  <2> QED BY <2>1, <2>2, <2>3 DEF GitInv, BuildsFresh, DeliveryFresh, ReportFresh, SourceBusy, BuildOwed
<1> QED BY <1>1, <1>2 DEF PushInv

LEMMA PushInvStep == PushInv /\ [Build!Next]_(Build!buildVars) => PushInv'
<1> SUFFICES ASSUME PushInv, [Build!Next]_(Build!buildVars) PROVE PushInv'
  OBVIOUS
<1>1. kind' = kind
  BY DEF Build!Next, Build!QueueBegin, Build!QueueCommit, Build!RevokeSourceCredential, Build!CreateUploadTicket,
     Build!SetWebhook, Build!Push, Build!HookCommit, Build!HookBegin, Build!BuilderStep, Build!ClaimSelect,
     Build!CheckoutGit, Build!VerifyZip, Build!UnpackZip, Build!BuildFails, Build!ReportSucceeded, Build!BuilderStops,
     Build!ClaimCommit, Build!ReportBuilding, Build!ReportCommit, Build!ReportFailed, Build!AuthorizeExpired,
     Build!UploadServiceStops, Build!UploadStep, Build!Authorize, Build!Promote, Build!Reject, Build!Unlink,
     Build!Complete, Build!Fail, Build!fixed, Build!buildVars
<1> QED BY <1>1, GitStepKeeps, ZipStepKeeps DEF PushInv

LEMMA PushInvMeans == PushInv => NoPushForgotten
<1> SUFFICES ASSUME PushInv, announced > built, ~hook.pending, source.status # "failed", credential # "revoked"
             PROVE  \E i \in DOMAIN builds : Build!InProgress(builds[i]) /\ builds[i].content \notin 1..(announced - 1)
  BY DEF NoPushForgotten, Build!NoPushForgotten
<1>1. GitInv /\ Owed
  BY DEF PushInv, ZipInv, Owed
<1>2. PICK i \in DOMAIN builds : Build!InProgress(builds[i])
  BY <1>1 DEF GitInv, BuildOwed, AtWork, Build!InProgress
<1>3. Has(i, announced)
  BY <1>1, <1>2 DEF GitInv, BuildsFresh
<1>4. builds[i] \in GitBuilds /\ announced \in Nat
  BY <1>1 DEF GitInv, GitTyped
<1>5. builds[i].content \in Nat
  BY <1>4 DEF GitBuilds
<1> QED BY <1>2, <1>3, <1>4, <1>5 DEF Has

\* No push that the webhook of a source took is forgotten, for any number of pushes, builds, builders
\* and requests (queue_webhook_build, queue_pending_webhook_rebuild, report_build).
THEOREM PushesRemembered == Build!Spec => []NoPushForgotten
BY PushInvInit, PushInvStep, PushInvMeans, PTL DEF Build!Spec
=============================================================================
