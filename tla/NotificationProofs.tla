------------------------- MODULE NotificationProofs -------------------------
(***************************************************************************)
(* Proofs about Notification, for any number of notifications, channels,   *)
(* workers and crashes: the parent's status is always that of its          *)
(* deliveries, a delivery is handed over once, plus once for each crash    *)
(* and each lost answer, and the gateway implements DeliveryQueue.  The    *)
(* second part is about ScheduledMail: a message is sent once for each     *)
(* claim.  The third is about MailNodes: the files of a node follow the    *)
(* mailbox rows, and under dual control mailboxes move only with an        *)
(* approval.                                                               *)
(***************************************************************************)
EXTENDS MCNotification, MailFleet, FiniteSetTheorems, SequenceTheorems, TLAPS

-----------------------------------------------------------------------------
(* The inductive invariant.                                                *)

HoldsParent(w) == worker[w].step \in {"parent", "attempted", "flushed"}
Attempted(w) == worker[w].step \in {"attempted", "flushed"}

\* Only a notification that exists has deliveries, and a delivery that waits
\* has an attempt left.
RowsSound ==
    \A d \in Deliveries :
        /\ note[d[1]].status = "none" => row[d] = Absent
        /\ row[d].status \in Waiting => row[d].attempts < MaxAttempts

\* Worker w was told that delivery d was accepted and has yet to commit it.
SentAttempted(w, d) == d \in worker[w].now /\ Attempted(w) /\ worker[w].row.status = "delivered"

\* A worker handles one of the rows it has locked, all of which wait.
LocksSound ==
    \A w \in Workers :
        /\ worker[w].step = "idle" => worker[w] = Idle
        /\ worker[w].step # "idle" => \E d \in worker[w].locked : worker[w].now = {d}
        /\ \A d \in worker[w].locked : row[d].status \in Waiting

\* No two workers have locked the same delivery, or the same parent.
LocksExclusive ==
    \A v, w \in Workers : v # w =>
        /\ worker[v].locked \cap worker[w].locked = {}
        /\ HoldsParent(v) /\ HoldsParent(w) =>
              \A c \in worker[v].now, d \in worker[w].now : c[1] # d[1]

SiblingStatuses(d) ==
    {row[k].status : k \in {k \in Deliveries \ {d} : k[1] = d[1] /\ row[k].status # "absent"}}

\* What a worker holds in memory is what the tables and the provider's answer
\* make it.
MemorySound ==
    \A w \in Workers : \A d \in worker[w].now :
        /\ ~Attempted(w) => worker[w].row = row[d]
        /\ Attempted(w) => \E o \in Outcomes :
              worker[w].row = After(row[d], o) /\ (o = "ok" => accepted[d] > 0)
        /\ worker[w].step = "flushed" =>
              worker[w].seen = {worker[w].row.status} \cup SiblingStatuses(d)

\* An acceptance that no transaction remembers was forgotten by a crash.
AcceptedSound ==
    \A d \in Deliveries :
        /\ accepted[d] <= 1 + crashes + lost[d]
        /\ row[d].status = "absent" => accepted[d] = 0
        /\ row[d].status \in Waiting /\ accepted[d] > crashes + lost[d] =>
              \E w \in Workers : SentAttempted(w, d)

NotificationInv ==
    /\ TypeOK /\ RowsSound /\ LocksSound /\ LocksExclusive /\ MemorySound
    /\ AcceptedSound /\ StatusTrue

-----------------------------------------------------------------------------
(* The operators of process_one.                                           *)

LEMMA DeliveryParts ==
    ASSUME NEW d \in Deliveries
    PROVE  d[1] \in Notifications /\ d[2] \in Channels /\ d = <<d[1], d[2]>>
BY DEF Deliveries

\* An attempt at a waiting row with an attempt left yields a row; one that
\* waits again has an attempt left.
LEMMA AfterRow ==
    ASSUME NEW r \in Row, r.attempts < MaxAttempts, NEW o \in Outcomes
    PROVE  /\ After(r, o) \in Row
           /\ After(r, o).status \in {"delivered", "failed", "retry"}
           /\ After(r, o).status = "retry" => After(r, o).attempts < MaxAttempts
           /\ After(r, o).status = "delivered" <=> o = "ok"
BY NotificationAssumption DEF After, Outcomes, Row, Waiting

\* _refresh_notification_status leaves a notification queued exactly while one
\* of its deliveries waits.
LEMMA AggregateQueued ==
    ASSUME NEW S
    PROVE  /\ Aggregate(S) \in {"queued", "delivered", "partial", "failed"}
           /\ Aggregate(S) = "queued" <=> S \cap Waiting # {}
BY DEF Aggregate, Waiting

-----------------------------------------------------------------------------
(* Type correctness.                                                       *)

LEMMA TypeStep == NotificationInv /\ [Next]_vars => TypeOK'
<1> SUFFICES ASSUME NotificationInv, [Next]_vars PROVE TypeOK'
  OBVIOUS
<1> USE DEF NotificationInv
<1>1. ASSUME NEW n \in Notifications, NEW channels \in SUBSET Channels, Create(n, channels)
      PROVE  TypeOK'
  <2> DEFINE known == {k \in Notifications : note[k].status # "none"}
  <2>1. 1 + Cardinality(known) \in 0..Cardinality(Notifications)
    <3>1. known \subseteq Notifications /\ known # Notifications
      BY <1>1 DEF Create
    <3>2. /\ IsFiniteSet(known) /\ Cardinality(known) <= Cardinality(Notifications)
          /\ Cardinality(known) # Cardinality(Notifications)
      BY <3>1, FS_Subset, NotificationAssumption
    <3>3. Cardinality(known) \in Nat /\ Cardinality(Notifications) \in Nat
      BY <3>2, FS_CardinalityType, NotificationAssumption
    <3> QED BY <3>2, <3>3
  <2>2. note' \in [Notifications -> Note]
    BY <1>1, <2>1 DEF Create, TypeOK, Note
  <2>3. row' \in [Deliveries -> Row] /\ due' \in SUBSET Deliveries
    <3>1. [status |-> "pending", attempts |-> 0] \in Row
      BY NotificationAssumption DEF Row, Waiting
    <3>2. {n} \X channels \subseteq Deliveries
      BY DEF Deliveries
    <3> QED BY <1>1, <3>1, <3>2 DEF Create, TypeOK
  <2> QED BY <1>1, <2>2, <2>3 DEF sent, Create, TypeOK
<1>2. ASSUME NEW d \in Deliveries, Elapse(d) PROVE TypeOK'
  BY <1>2 DEF sent, Elapse, TypeOK
<1>3. ASSUME NEW w \in Workers, Select(w) PROVE TypeOK'
  <2> PICK d \in Available : worker' = [worker EXCEPT ![w] = [Idle EXCEPT !.step = "selected",
                         !.locked = Available, !.now = {d}, !.row = row[d]]]
    BY <1>3 DEF Select
  <2>1. Available \subseteq Deliveries
    BY DEF Available, TypeOK
  <2>2. [Idle EXCEPT !.step = "selected", !.locked = Available, !.now = {d}, !.row = row[d]]
           \in WorkerState
    BY <2>1 DEF TypeOK, WorkerState, Idle
  <2> QED BY <1>3, <2>2 DEF Select, store, sent, TypeOK
<1>4. ASSUME NEW w \in Workers, LockParent(w) PROVE TypeOK'
  BY <1>4 DEF LockParent, store, sent, TypeOK, WorkerState
<1>5. ASSUME NEW w \in Workers, NEW o \in Outcomes, Attempt(w, o) PROVE TypeOK'
  <2>1. PICK d \in worker[w].now : worker[w].now = {d} /\ d \in Deliveries /\ row[d].status \in Waiting
    BY <1>5 DEF Attempt, LocksSound, TypeOK, WorkerState
  <2>2. worker[w].row = row[d] /\ row[d] \in Row /\ row[d].attempts < MaxAttempts
    BY <1>5, <2>1 DEF Attempt, MemorySound, Attempted, TypeOK, RowsSound
  <2>3. After(worker[w].row, o) \in Row
    BY <2>2, AfterRow
  <2> DEFINE t == worker[w]
  <2>4. worker' = [worker EXCEPT ![w] = [t EXCEPT !.step = "attempted", !.row = After(t.row, o)]]
    BY <1>5 DEF Attempt, TypeOK
  <2>5. [t EXCEPT !.step = "attempted", !.row = After(t.row, o)] \in WorkerState
    <3>1. t \in WorkerState
      BY DEF TypeOK
    <3> QED BY <2>3, <3>1 DEF WorkerState
  <2>6. worker' \in [Workers -> WorkerState]
    BY <2>4, <2>5 DEF TypeOK
  <2> QED BY <1>5, <2>6 DEF Attempt, store, sent, TypeOK
<1>6. ASSUME NEW w \in Workers, Flush(w) PROVE TypeOK'
  <2> DEFINE Seen == {"absent", "delivered", "failed", "pending", "retry"}
  <2>1. PICK d \in worker[w].now :
           worker' = [worker EXCEPT ![w] = [worker[w] EXCEPT !.step = "flushed",
                         !.seen = {worker[w].row.status} \cup SiblingStatuses(d)]]
    BY <1>6 DEF Flush, SiblingStatuses, TypeOK
  <2>2. {worker[w].row.status} \cup SiblingStatuses(d) \in SUBSET Seen
    BY DEF SiblingStatuses, TypeOK, Row, Waiting, WorkerState
  <2>3. [worker[w] EXCEPT !.step = "flushed",
            !.seen = {worker[w].row.status} \cup SiblingStatuses(d)] \in WorkerState
    <3>1. worker[w] \in WorkerState
      BY DEF TypeOK
    <3> QED BY <2>2, <3>1 DEF WorkerState
  <2> QED BY <1>6, <2>1, <2>3 DEF Flush, store, sent, TypeOK
<1>7. ASSUME NEW w \in Workers, Commit(w) PROVE TypeOK'
  <2>1. PICK d \in worker[w].now :
           /\ row' = [row EXCEPT ![d] = worker[w].row]
           /\ due' = IF worker[w].row.status = "retry" THEN due \ {d} ELSE due
           /\ note' = [note EXCEPT ![d[1]].status = Aggregate(worker[w].seen),
                                   ![d[1]].completed = Aggregate(worker[w].seen) # "queued"]
    BY <1>7 DEF Commit
  <2>2. d \in Deliveries /\ worker[w].row \in Row
    BY DEF TypeOK, WorkerState
  <2> HIDE DEF NotificationInv
  <2>3. note' \in [Notifications -> Note]
    <3>1. note \in [Notifications -> Note] /\ d[1] \in Notifications
      BY <2>2, DeliveryParts DEF TypeOK, NotificationInv
    <3>2. Aggregate(worker[w].seen) \in {"queued", "delivered", "partial", "failed"}
      BY AggregateQueued
    <3> QED BY <2>1, <3>1, <3>2 DEF Note
  <2>4. Idle \in WorkerState
    BY NotificationAssumption DEF Idle, WorkerState, Absent, Row
  <2> QED BY <1>7, <2>1, <2>2, <2>3, <2>4 DEF Commit, sent, TypeOK, NotificationInv
<1>8. ASSUME NEW w \in Workers, Crash(w) PROVE TypeOK'
  <2>1. Idle \in WorkerState
    BY NotificationAssumption DEF Idle, WorkerState, Absent, Row
  <2> QED BY <1>8, <2>1, NotificationAssumption DEF Crash, store, sent, TypeOK
<1>9. CASE UNCHANGED vars
  BY <1>9 DEF vars, TypeOK
<1> QED BY <1>1, <1>2, <1>3, <1>4, <1>5, <1>6, <1>7, <1>8, <1>9 DEF Next, WorkerStep

-----------------------------------------------------------------------------
(* One lemma per step of the gateway: it keeps the inductive invariant.    *)

Statuses(n) == {row[d].status : d \in {k \in Deliveries : k[1] = n}} \ {"absent"}

\* A notification that exists keeps its status true while neither it nor one of
\* its deliveries changes.
LEMMA SameStatus ==
    ASSUME NEW n \in Notifications, StatusTrue, note'[n] = note[n],
           \A d \in Deliveries : d[1] = n => row'[d] = row[d]
    PROVE  note[n].status # "none" =>
               /\ note'[n].status = Aggregate(Statuses(n)')
               /\ note'[n].completed <=> Statuses(n)' \cap Waiting = {}
<1>1. Statuses(n)' = Statuses(n)
  BY DEF Statuses
<1> QED BY <1>1 DEF StatusTrue, Statuses

LEMMA CreateKeeps ==
    ASSUME NotificationInv, TypeOK', NEW n \in Notifications,
           NEW channels \in (SUBSET Channels) \ {{}}, Create(n, channels)
    PROVE  NotificationInv'
<1> USE DEF NotificationInv
<1> DEFINE New == [status |-> "pending", attempts |-> 0]
<1>1. \A d \in Deliveries : row'[d] = IF d[1] = n /\ d[2] \in channels THEN New ELSE row[d]
  BY DEF Create
<1>2. \A d \in Deliveries : d[1] = n => row[d] = Absent
  BY DEF Create, RowsSound
<1>3. /\ note'[n].status = "queued" /\ note'[n].completed = FALSE
      /\ \A k \in Notifications : k # n => note'[k] = note[k]
      /\ worker' = worker /\ accepted' = accepted /\ lost' = lost /\ crashes' = crashes
  BY DEF sent, Create, TypeOK
<1>4. RowsSound'
  BY <1>1, <1>3, DeliveryParts, NotificationAssumption DEF RowsSound
<1>5. \A d \in Deliveries : row[d].status # "absent" => row'[d] = row[d] /\ d[1] # n
  BY <1>1, <1>2 DEF Absent
<1>6. \A w \in Workers : /\ \A d \in worker[w].locked : d \in Deliveries /\ row'[d] = row[d] /\ d[1] # n
                         /\ worker[w].now \subseteq worker[w].locked
  <2> TAKE w \in Workers
  <2>1. worker[w].now \subseteq worker[w].locked
    BY DEF LocksSound, Idle
  <2>2. worker[w].locked \subseteq Deliveries
    BY DEF TypeOK, WorkerState
  <2>3. \A d \in worker[w].locked : row[d].status # "absent"
    BY DEF LocksSound, Waiting
  <2> QED BY <1>5, <2>1, <2>2, <2>3
<1>7. LocksSound' /\ LocksExclusive'
  BY <1>3, <1>6 DEF LocksSound, LocksExclusive, HoldsParent
<1>8. MemorySound'
  <2>1. ASSUME NEW w \in Workers, NEW d \in worker[w].now
        PROVE  d \in Deliveries /\ row'[d] = row[d] /\ SiblingStatuses(d)' = SiblingStatuses(d)
    <3>1. d \in Deliveries /\ d[1] # n /\ row'[d] = row[d]
      BY <1>6
    <3>2. \A k \in Deliveries : k[1] = d[1] => row'[k] = row[k]
      BY <1>1, <3>1
    <3> QED BY <3>1, <3>2 DEF SiblingStatuses
  <2> QED BY <1>3, <2>1 DEF MemorySound, Attempted
<1>9. AcceptedSound'
  <2>1. ASSUME NEW d \in Deliveries, row'[d] # row[d]
        PROVE  accepted[d] = 0 /\ row'[d].status = "pending"
    BY <1>1, <1>2, <2>1 DEF AcceptedSound, Absent
  <2> QED BY <1>3, <2>1, NotificationAssumption DEF AcceptedSound, SentAttempted, Attempted, TypeOK
<1>10. StatusTrue'
  <2>1. ASSUME NEW k \in Notifications, note'[k].status # "none"
        PROVE  /\ note'[k].status = Aggregate(Statuses(k)')
               /\ note'[k].completed <=> Statuses(k)' \cap Waiting = {}
    <3>1. CASE k # n
      BY <1>1, <1>3, <2>1, <3>1, SameStatus
    <3>2. CASE k = n
      <4>1. PICK c \in Channels : c \in channels
        OBVIOUS
      <4>2. <<n, c>> \in Deliveries /\ row'[<<n, c>>].status = "pending"
        BY <1>1, <4>1 DEF Deliveries
      <4>3. \A d \in Deliveries : d[1] = n => row'[d].status \in {"pending", "absent"}
        BY <1>1, <1>2 DEF Absent
      <4>4. Statuses(n)' = {"pending"}
        BY <4>2, <4>3 DEF Statuses
      <4> QED BY <1>3, <3>2, <4>4 DEF Aggregate, Waiting
    <3> QED BY <3>1, <3>2
  <2> QED BY <2>1 DEF StatusTrue, Statuses
<1> QED BY <1>4, <1>7, <1>8, <1>9, <1>10

\* Nothing but the backoffs changes.
LEMMA ElapseKeeps ==
    ASSUME NotificationInv, TypeOK', UNCHANGED <<note, row, worker, accepted, lost, crashes>>
    PROVE  NotificationInv'
<1>1. RowsSound' /\ LocksSound' /\ LocksExclusive'
  BY DEF NotificationInv, RowsSound, LocksSound, LocksExclusive, HoldsParent
<1>2. MemorySound'
  BY DEF NotificationInv, MemorySound, Attempted, SiblingStatuses
<1>3. AcceptedSound'
  BY DEF NotificationInv, AcceptedSound, SentAttempted, Attempted
<1>4. StatusTrue'
  BY SameStatus DEF NotificationInv, StatusTrue, Statuses
<1> QED BY <1>1, <1>2, <1>3, <1>4 DEF NotificationInv

\* A step inside one worker's transaction, before its commit, leaves the tables
\* alone: what remains to be shown is about that worker.
LEMMA TransactionKeeps ==
    ASSUME NotificationInv, TypeOK', NEW w \in Workers,
           UNCHANGED <<store, crashes>>,
           \A v \in Workers \ {w} : worker'[v] = worker[v]
    PROVE  /\ RowsSound' /\ StatusTrue'
           /\ \A v \in Workers \ {w} : \A d \in Deliveries :
                 SentAttempted(v, d)' <=> SentAttempted(v, d)
           /\ \A d \in Deliveries : SiblingStatuses(d)' = SiblingStatuses(d)
<1>1. RowsSound'
  BY DEF NotificationInv, RowsSound, store
<1>2. StatusTrue'
  BY SameStatus DEF NotificationInv, StatusTrue, Statuses, store
<1>3. \A d \in Deliveries : SiblingStatuses(d)' = SiblingStatuses(d)
  BY DEF SiblingStatuses, store
<1> QED BY <1>1, <1>2, <1>3 DEF SentAttempted, Attempted

LEMMA SelectKeeps ==
    ASSUME NotificationInv, TypeOK', NEW w \in Workers, Select(w)
    PROVE  NotificationInv'
<1>1. PICK d \in Available : worker' = [worker EXCEPT ![w] = [Idle EXCEPT !.step = "selected",
                         !.locked = Available, !.now = {d}, !.row = row[d]]]
  BY DEF Select
<1>2. /\ worker'[w].step = "selected" /\ worker'[w].locked = Available
      /\ worker'[w].now = {d} /\ worker'[w].row = row[d]
      /\ \A v \in Workers \ {w} : worker'[v] = worker[v]
      /\ worker[w].step = "idle"
  BY <1>1 DEF NotificationInv, TypeOK, Idle, Select
<1>3. /\ UNCHANGED <<store, sent, crashes>>
      /\ note' = note /\ row' = row /\ accepted' = accepted /\ lost' = lost /\ crashes' = crashes
  BY DEF sent, Select, store
<1>4. \A k \in Available : /\ k \in Deliveries /\ row[k].status \in Waiting
                            /\ \A v \in Workers : k \notin worker[v].locked
  BY DEF Available, Locked, NotificationInv, TypeOK
<1>5. /\ RowsSound' /\ StatusTrue'
      /\ \A v \in Workers \ {w} : \A k \in Deliveries :
            SentAttempted(v, k)' <=> SentAttempted(v, k)
      /\ \A k \in Deliveries : SiblingStatuses(k)' = SiblingStatuses(k)
  BY <1>2, <1>3, TransactionKeeps
<1>6. LocksSound'
  BY <1>2, <1>3, <1>4 DEF NotificationInv, LocksSound
<1>7. LocksExclusive'
  BY <1>2, <1>4 DEF NotificationInv, LocksExclusive, HoldsParent
<1>8. MemorySound'
  <2>1. ASSUME NEW v \in Workers, v # w PROVE worker[v].now \subseteq Deliveries
    BY DEF NotificationInv, TypeOK, WorkerState
  <2> QED BY <1>2, <1>3, <1>5, <2>1 DEF NotificationInv, MemorySound, Attempted
<1>9. AcceptedSound'
  <2>1. \A k : ~SentAttempted(w, k)
    BY <1>2 DEF SentAttempted, Attempted
  <2> QED BY <1>3, <1>5, <2>1 DEF NotificationInv, AcceptedSound
<1> QED BY <1>5, <1>6, <1>7, <1>8, <1>9 DEF NotificationInv

LEMMA LockParentKeeps ==
    ASSUME NotificationInv, TypeOK', NEW w \in Workers, LockParent(w)
    PROVE  NotificationInv'
<1>1. /\ worker[w].step = "selected" /\ worker'[w].step = "parent"
      /\ worker'[w].locked = worker[w].locked /\ worker'[w].now = worker[w].now
      /\ worker'[w].row = worker[w].row
      /\ \A v \in Workers \ {w} : worker'[v] = worker[v]
  BY DEF NotificationInv, TypeOK, WorkerState, LockParent
<1>2. /\ UNCHANGED <<store, sent, crashes>>
      /\ note' = note /\ row' = row /\ accepted' = accepted /\ lost' = lost /\ crashes' = crashes
  BY DEF sent, LockParent, store
<1>3. /\ RowsSound' /\ StatusTrue'
      /\ \A v \in Workers \ {w} : \A k \in Deliveries :
            SentAttempted(v, k)' <=> SentAttempted(v, k)
      /\ \A k \in Deliveries : SiblingStatuses(k)' = SiblingStatuses(k)
  BY <1>1, <1>2, TransactionKeeps
<1>4. LocksSound'
  BY <1>1, <1>2 DEF NotificationInv, LocksSound
<1>5. LocksExclusive'
  <2>1. \A v \in Workers : HoldsParent(v) =>
            \A c \in worker[v].now, d \in worker[w].now : c[1] # d[1]
    BY DEF LockParent, ParentLocked, HoldsParent
  <2> QED BY <1>1, <2>1 DEF NotificationInv, LocksExclusive, HoldsParent
<1>6. MemorySound'
  <2>1. \A v \in Workers : worker[v].now \subseteq Deliveries
    BY DEF NotificationInv, TypeOK, WorkerState
  <2> QED BY <1>1, <1>2, <1>3, <2>1 DEF NotificationInv, MemorySound, Attempted
<1>7. AcceptedSound'
  <2>1. \A k : ~SentAttempted(w, k)
    BY <1>1 DEF SentAttempted, Attempted
  <2> QED BY <1>2, <1>3, <2>1 DEF NotificationInv, AcceptedSound
<1> QED BY <1>3, <1>4, <1>5, <1>6, <1>7 DEF NotificationInv

\* The provider's answer: the only step that hands a delivery over.
LEMMA AttemptKeeps ==
    ASSUME NotificationInv, TypeOK', NEW w \in Workers, NEW o \in Outcomes, Attempt(w, o)
    PROVE  NotificationInv'
<1>1. PICK d \in worker[w].locked : worker[w].now = {d}
  BY DEF NotificationInv, LocksSound, Attempt
<1>2. d \in Deliveries /\ row[d] \in Row /\ row[d].attempts < MaxAttempts
      /\ row[d].status \in Waiting /\ worker[w].row = row[d]
  BY <1>1 DEF NotificationInv, TypeOK, WorkerState, LocksSound, RowsSound, MemorySound, Attempted,
              Attempt
<1>3. /\ worker[w].step = "parent" /\ worker'[w].step = "attempted"
      /\ worker'[w].locked = worker[w].locked /\ worker'[w].now = worker[w].now
      /\ worker'[w].row = After(row[d], o)
      /\ \A v \in Workers \ {w} : worker'[v] = worker[v]
  BY <1>2 DEF NotificationInv, TypeOK, WorkerState, Attempt
<1>4. /\ UNCHANGED <<store, crashes>> /\ note' = note /\ row' = row /\ crashes' = crashes
      /\ \A k \in Deliveries : accepted'[k] = IF o # "refused" /\ k = d THEN accepted[k] + 1 ELSE accepted[k]
      /\ \A k \in Deliveries : lost'[k] = IF o = "lost" /\ k = d THEN lost[k] + 1 ELSE lost[k]
  BY <1>1 DEF Attempt, store
<1>5. /\ RowsSound' /\ StatusTrue'
      /\ \A v \in Workers \ {w} : \A k \in Deliveries :
            SentAttempted(v, k)' <=> SentAttempted(v, k)
      /\ \A k \in Deliveries : SiblingStatuses(k)' = SiblingStatuses(k)
  BY <1>3, <1>4, TransactionKeeps
<1>6. LocksSound'
  BY <1>3, <1>4 DEF NotificationInv, LocksSound
<1>7. LocksExclusive'
  BY <1>3 DEF NotificationInv, LocksExclusive, HoldsParent
<1>8. \A k \in Deliveries : accepted[k] \in Nat /\ accepted'[k] \in Nat /\ accepted'[k] >= accepted[k]
  BY <1>4 DEF NotificationInv, TypeOK
<1>9. MemorySound'
  <2>1. \A v \in Workers : worker[v].now \subseteq Deliveries
    BY DEF NotificationInv, TypeOK, WorkerState
  <2>2. ASSUME NEW v \in Workers, v # w, NEW k \in worker[v].now, Attempted(v)
        PROVE  \E a \in Outcomes : worker[v].row = After(row[k], a) /\ (a = "ok" => accepted'[k] > 0)
    <3>1. PICK a \in Outcomes : worker[v].row = After(row[k], a) /\ (a = "ok" => accepted[k] > 0)
      BY <2>2 DEF NotificationInv, MemorySound
    <3>2. k \in Deliveries
      BY <2>1, <2>2
    <3> QED BY <1>8, <3>1, <3>2
  <2>3. o = "ok" => accepted'[d] > 0
    BY <1>2, <1>4, <1>8
  <2> QED BY <1>1, <1>2, <1>3, <1>4, <1>5, <2>1, <2>2, <2>3 DEF NotificationInv, MemorySound, Attempted
<1>10. AcceptedSound'
  <2>1. \A v \in Workers : ~SentAttempted(v, d)
    <3>1. ~SentAttempted(w, d)
      BY <1>3 DEF SentAttempted, Attempted
    <3>2. ASSUME NEW v \in Workers, v # w PROVE d \notin worker[v].now
      BY <1>1, <3>2 DEF NotificationInv, LocksExclusive, LocksSound, Idle
    <3> QED BY <3>1, <3>2 DEF SentAttempted
  <2>2. accepted[d] <= crashes + lost[d] /\ lost[d] \in Nat /\ crashes \in Nat
    BY <1>2, <2>1 DEF NotificationInv, AcceptedSound, TypeOK
  <2>3. o = "ok" => SentAttempted(w, d)'
    BY <1>1, <1>2, <1>3, AfterRow DEF SentAttempted, Attempted
  <2>4. \A k \in Deliveries : k # d => ~SentAttempted(w, k)
    BY <1>1 DEF SentAttempted
  <2>5. ASSUME NEW k \in Deliveries
        PROVE  /\ accepted'[k] <= 1 + crashes' + lost'[k]
               /\ row'[k].status = "absent" => accepted'[k] = 0
               /\ row'[k].status \in Waiting /\ accepted'[k] > crashes' + lost'[k] =>
                      \E v \in Workers : SentAttempted(v, k)'
    <3>1. CASE k = d
      <4>1. o \in {"ok", "lost", "refused"}
        BY DEF Outcomes
      <4> QED BY <1>2, <1>4, <2>2, <2>3, <1>8, <3>1, <4>1 DEF Waiting
    <3>2. CASE k # d
      BY <1>4, <1>5, <2>4, <3>2 DEF NotificationInv, AcceptedSound
    <3> QED BY <3>1, <3>2
  <2> QED BY <2>5 DEF AcceptedSound
<1> QED BY <1>5, <1>6, <1>7, <1>9, <1>10 DEF NotificationInv

LEMMA FlushKeeps ==
    ASSUME NotificationInv, TypeOK', NEW w \in Workers, Flush(w)
    PROVE  NotificationInv'
<1>1. PICK d \in worker[w].locked : worker[w].now = {d} /\ d \in Deliveries
  BY DEF NotificationInv, LocksSound, Flush, TypeOK, WorkerState
<1>2. worker' = [worker EXCEPT ![w].step = "flushed",
                               ![w].seen = {worker[w].row.status} \cup SiblingStatuses(d)]
  BY <1>1 DEF Flush, SiblingStatuses
<1>3. /\ worker[w].step = "attempted" /\ worker'[w].step = "flushed"
      /\ worker'[w].locked = worker[w].locked /\ worker'[w].now = worker[w].now
      /\ worker'[w].row = worker[w].row
      /\ worker'[w].seen = {worker[w].row.status} \cup SiblingStatuses(d)
      /\ \A v \in Workers \ {w} : worker'[v] = worker[v]
  BY <1>2 DEF NotificationInv, TypeOK, WorkerState, Flush
<1>4. /\ UNCHANGED <<store, sent, crashes>>
      /\ note' = note /\ row' = row /\ accepted' = accepted /\ lost' = lost /\ crashes' = crashes
  BY DEF sent, Flush, store
<1>5. /\ RowsSound' /\ StatusTrue'
      /\ \A v \in Workers \ {w} : \A k \in Deliveries :
            SentAttempted(v, k)' <=> SentAttempted(v, k)
      /\ \A k \in Deliveries : SiblingStatuses(k)' = SiblingStatuses(k)
  BY <1>3, <1>4, TransactionKeeps
<1>6. LocksSound' /\ LocksExclusive'
  BY <1>3, <1>4 DEF NotificationInv, LocksSound, LocksExclusive, HoldsParent
<1>7. MemorySound'
  <2>1. \A v \in Workers : worker[v].now \subseteq Deliveries
    BY DEF NotificationInv, TypeOK, WorkerState
  <2> QED BY <1>1, <1>3, <1>4, <1>5, <2>1 DEF NotificationInv, MemorySound, Attempted
<1>8. AcceptedSound'
  <2>1. \A k : SentAttempted(w, k)' <=> SentAttempted(w, k)
    BY <1>3 DEF SentAttempted, Attempted
  <2> QED BY <1>4, <1>5, <2>1 DEF NotificationInv, AcceptedSound
<1> QED BY <1>5, <1>6, <1>7, <1>8 DEF NotificationInv

\* A crash forgets an acceptance, and is counted.
LEMMA CrashKeeps ==
    ASSUME NotificationInv, TypeOK', NEW w \in Workers, Crash(w)
    PROVE  NotificationInv'
<1>1. /\ worker'[w] = Idle /\ \A v \in Workers \ {w} : worker'[v] = worker[v]
      /\ note' = note /\ row' = row /\ accepted' = accepted /\ lost' = lost /\ crashes' = crashes + 1
  BY DEF sent, NotificationInv, TypeOK, Crash, store
<1>2. RowsSound' /\ StatusTrue'
  BY <1>1, SameStatus DEF NotificationInv, RowsSound, StatusTrue, Statuses
<1>3. LocksSound' /\ LocksExclusive'
  <2>1. Idle.step = "idle" /\ Idle.locked = {}
    BY DEF Idle
  <2>2. LocksSound'
    BY <1>1, <2>1 DEF NotificationInv, LocksSound
  <2>3. LocksExclusive'
    BY <1>1, <2>1 DEF NotificationInv, LocksExclusive, HoldsParent
  <2> QED BY <2>2, <2>3
<1>4. MemorySound'
  BY <1>1 DEF NotificationInv, MemorySound, Attempted, SiblingStatuses, Idle
<1>5. AcceptedSound'
  <2>1. \A d \in Deliveries : accepted[d] \in Nat /\ lost[d] \in Nat /\ crashes \in Nat
    BY DEF NotificationInv, TypeOK
  <2> QED BY <1>1, <2>1 DEF NotificationInv, AcceptedSound
<1> QED BY <1>2, <1>3, <1>4, <1>5 DEF NotificationInv

\* The commit writes one delivery and its notification, both locked.
LEMMA CommitKeeps ==
    ASSUME NotificationInv, TypeOK', NEW w \in Workers, Commit(w)
    PROVE  NotificationInv'
<1>1. PICK d \in worker[w].locked : worker[w].now = {d} /\ d \in Deliveries
  BY DEF NotificationInv, LocksSound, Commit, TypeOK, WorkerState
<1> DEFINE n == d[1]
           t == worker[w]
<1>2. n \in Notifications /\ t.step = "flushed" /\ row[d].status \in Waiting
      /\ row[d] \in Row /\ row[d].attempts < MaxAttempts /\ note[n].status # "none"
  BY <1>1, DeliveryParts
     DEF NotificationInv, LocksSound, RowsSound, TypeOK, Commit, Waiting, Absent
<1>3. PICK o \in Outcomes : t.row = After(row[d], o) /\ (o = "ok" => accepted[d] > 0)
  BY <1>1, <1>2 DEF NotificationInv, MemorySound, Attempted
<1>4. /\ t.row.status \in {"delivered", "failed", "retry"}
      /\ t.row.status = "retry" => t.row.attempts < MaxAttempts
  BY <1>2, <1>3, AfterRow
<1>5. /\ row' = [row EXCEPT ![d] = t.row]
      /\ note' = [note EXCEPT ![n].status = Aggregate(t.seen),
                              ![n].completed = Aggregate(t.seen) # "queued"]
      /\ worker' = [worker EXCEPT ![w] = Idle] /\ accepted' = accepted /\ lost' = lost /\ crashes' = crashes
  BY <1>1 DEF sent, Commit
<1>6. /\ row'[d] = t.row /\ \A k \in Deliveries \ {d} : row'[k] = row[k]
      /\ worker'[w] = Idle /\ \A v \in Workers \ {w} : worker'[v] = worker[v]
      /\ \A m \in Notifications \ {n} : note'[m] = note[m]
  BY <1>1, <1>5 DEF NotificationInv, TypeOK
<1>7. /\ note'[n].status = Aggregate(t.seen)
      /\ note'[n].completed <=> Aggregate(t.seen) # "queued"
  BY <1>2, <1>5 DEF NotificationInv, TypeOK, Note
<1>8. RowsSound'
  <2>1. note'[n].status # "none"
    BY <1>7, AggregateQueued
  <2>2. row'[d].status \in Waiting => row'[d].attempts < MaxAttempts
    BY <1>4, <1>6 DEF Waiting
  <2>3. ASSUME NEW k \in Deliveries
        PROVE  /\ note'[k[1]].status = "none" => row'[k] = Absent
               /\ row'[k].status \in Waiting => row'[k].attempts < MaxAttempts
    BY <1>6, <2>1, <2>2, DeliveryParts DEF NotificationInv, RowsSound
  <2> QED BY <2>3 DEF RowsSound
<1>9. \A v \in Workers \ {w} : d \notin worker[v].locked
  BY <1>1 DEF NotificationInv, LocksExclusive
<1>10. \A v \in Workers : worker[v].now \subseteq worker[v].locked /\ worker[v].locked \subseteq Deliveries
  BY DEF NotificationInv, LocksSound, Idle, TypeOK, WorkerState
<1>11. LocksSound' /\ LocksExclusive'
  <2>1. Idle.step = "idle" /\ Idle.locked = {}
    BY DEF Idle
  <2>2. \A v \in Workers \ {w} : \A k \in worker[v].locked : row'[k] = row[k]
    BY <1>6, <1>9, <1>10
  <2>3. LocksSound'
    BY <1>6, <2>1, <2>2 DEF NotificationInv, LocksSound
  <2>4. LocksExclusive'
    BY <1>6, <2>1 DEF NotificationInv, LocksExclusive, HoldsParent
  <2> QED BY <2>3, <2>4
<1>12. MemorySound'
  <2>1. ASSUME NEW v \in Workers, v # w, NEW k \in worker[v].now
        PROVE  /\ k \in Deliveries /\ row'[k] = row[k]
               /\ worker[v].step = "flushed" => SiblingStatuses(k)' = SiblingStatuses(k)
    <3>1. k \in Deliveries /\ row'[k] = row[k]
      BY <1>6, <1>9, <1>10, <2>1
    <3>2. ASSUME worker[v].step = "flushed" PROVE SiblingStatuses(k)' = SiblingStatuses(k)
      <4>1. k[1] # n
        BY <1>1, <1>2, <2>1, <3>2 DEF NotificationInv, LocksExclusive, HoldsParent
      <4>2. \A j \in Deliveries : j[1] = k[1] => row'[j] = row[j]
        BY <1>6, <4>1
      <4> QED BY <4>2 DEF SiblingStatuses
    <3> QED BY <3>1, <3>2
  <2>2. worker'[w].now = {}
    BY <1>6 DEF Idle
  <2>3. ASSUME NEW v \in Workers, v # w, NEW k \in worker'[v].now
        PROVE  /\ ~Attempted(v)' => worker'[v].row = row'[k]
               /\ Attempted(v)' => \E a \in Outcomes :
                     worker'[v].row = After(row'[k], a) /\ (a = "ok" => accepted'[k] > 0)
               /\ worker'[v].step = "flushed" =>
                     worker'[v].seen = {worker'[v].row.status} \cup SiblingStatuses(k)'
    <3>1. worker'[v] = worker[v] /\ k \in worker[v].now /\ accepted' = accepted
      BY <1>5, <1>6, <2>3
    <3>2. row'[k] = row[k] /\ (worker[v].step = "flushed" => SiblingStatuses(k)' = SiblingStatuses(k))
      BY <2>1, <2>3, <3>1
    <3> QED BY <3>1, <3>2 DEF NotificationInv, MemorySound, Attempted
  <2> QED BY <2>2, <2>3 DEF MemorySound
<1>13. AcceptedSound'
  <2>1. ASSUME NEW k \in Deliveries
        PROVE  /\ accepted'[k] <= 1 + crashes' + lost'[k]
               /\ row'[k].status = "absent" => accepted'[k] = 0
               /\ row'[k].status \in Waiting /\ accepted'[k] > crashes' + lost'[k] =>
                      \E v \in Workers : SentAttempted(v, k)'
    <3>1. CASE k = d
      <4>1. ASSUME t.row.status # "delivered" PROVE accepted[d] <= crashes + lost[d]
        <5>1. \A v \in Workers : ~SentAttempted(v, d)
          BY <1>9, <1>10, <4>1 DEF SentAttempted
        <5>2. accepted[d] \in Nat /\ lost[d] \in Nat /\ crashes \in Nat
          BY <1>1 DEF NotificationInv, TypeOK
        <5> QED BY <1>1, <1>2, <5>1, <5>2 DEF NotificationInv, AcceptedSound
      <4>2. accepted[d] <= 1 + crashes + lost[d] /\ accepted[d] \in Nat /\ lost[d] \in Nat /\ crashes \in Nat
        BY <1>1 DEF NotificationInv, AcceptedSound, TypeOK
      <4> QED BY <1>4, <1>5, <1>6, <3>1, <4>1, <4>2 DEF Waiting
    <3>2. CASE k # d
      <4>1. \A v \in Workers : SentAttempted(v, k) => SentAttempted(v, k)'
        BY <1>1, <1>6, <3>2 DEF SentAttempted, Attempted
      <4> QED BY <1>5, <1>6, <3>2, <4>1 DEF NotificationInv, AcceptedSound
    <3> QED BY <3>1, <3>2
  <2> QED BY <2>1 DEF AcceptedSound
<1>14. StatusTrue'
  <2>1. Statuses(n)' = t.seen
    <3>1. t.seen = {t.row.status} \cup SiblingStatuses(d)
      BY <1>1, <1>2 DEF NotificationInv, MemorySound
    <3>2. Statuses(n)' = ({row'[k].status : k \in {k \in Deliveries \ {d} : k[1] = n}}
                             \cup {row'[d].status}) \ {"absent"}
      BY <1>1 DEF Statuses
    <3>3. {row'[k].status : k \in {k \in Deliveries \ {d} : k[1] = n}} \ {"absent"} = SiblingStatuses(d)
      BY <1>6 DEF SiblingStatuses
    <3> QED BY <1>4, <1>6, <3>1, <3>2, <3>3
  <2>2. ASSUME NEW m \in Notifications, note'[m].status # "none"
        PROVE  /\ note'[m].status = Aggregate(Statuses(m)')
               /\ note'[m].completed <=> Statuses(m)' \cap Waiting = {}
    <3>1. CASE m = n
      BY <1>7, <2>1, <3>1, AggregateQueued
    <3>2. CASE m # n
      <4>1. note'[m] = note[m] /\ \A k \in Deliveries : k[1] = m => row'[k] = row[k]
        BY <1>6, <3>2
      <4> QED BY <2>2, <4>1, SameStatus DEF NotificationInv
    <3> QED BY <3>1, <3>2
  <2> QED BY <2>2 DEF StatusTrue, Statuses
<1> QED BY <1>8, <1>11, <1>12, <1>13, <1>14 DEF NotificationInv

-----------------------------------------------------------------------------
(* The theorems.                                                           *)

LEMMA InitInv == Init => NotificationInv
<1> SUFFICES ASSUME Init PROVE NotificationInv
  OBVIOUS
<1>1. Absent \in Row /\ Absent.status = "absent" /\ Absent.attempts = 0
  BY NotificationAssumption DEF Absent, Row
<1>2. Idle \in WorkerState /\ Idle.step = "idle" /\ Idle.locked = {} /\ Idle.now = {}
  BY <1>1 DEF Idle, WorkerState
<1>3. Cardinality(Notifications) \in Nat
  BY FS_CardinalityType, NotificationAssumption
<1>4. TypeOK
  BY <1>1, <1>2, <1>3, NotificationAssumption DEF Init, TypeOK, Note, NoNote
<1>5. RowsSound
  BY <1>1 DEF Init, RowsSound, Waiting
<1>6. LocksSound /\ LocksExclusive /\ MemorySound
  BY <1>2 DEF Init, LocksSound, LocksExclusive, MemorySound, HoldsParent
<1>7. AcceptedSound
  BY <1>1 DEF Init, AcceptedSound, Waiting
<1>8. StatusTrue
  BY DEF Init, StatusTrue, NoNote
<1> QED BY <1>4, <1>5, <1>6, <1>7, <1>8 DEF NotificationInv

LEMMA StepInv == NotificationInv /\ [Next]_vars => NotificationInv'
<1> SUFFICES ASSUME NotificationInv, [Next]_vars PROVE NotificationInv'
  OBVIOUS
<1>1. TypeOK'
  BY TypeStep
<1>2. ASSUME NEW n \in Notifications, NEW channels \in (SUBSET Channels) \ {{}},
             Create(n, channels)
      PROVE  NotificationInv'
  BY <1>1, <1>2, CreateKeeps
<1>3. ASSUME NEW d \in Deliveries, Elapse(d) PROVE NotificationInv'
  BY <1>1, <1>3, ElapseKeeps DEF sent, Elapse
<1>4. ASSUME NEW w \in Workers, WorkerStep(w) PROVE NotificationInv'
  BY <1>1, <1>4, SelectKeeps, LockParentKeeps, AttemptKeeps, FlushKeeps, CommitKeeps
     DEF WorkerStep
<1>5. ASSUME NEW w \in Workers, Crash(w) PROVE NotificationInv'
  BY <1>1, <1>5, CrashKeeps
<1>6. CASE UNCHANGED vars
  BY <1>1, <1>6, ElapseKeeps DEF vars
<1> QED BY <1>2, <1>3, <1>4, <1>5, <1>6 DEF Next

\* The inductive invariant of process_one and the API holds throughout; it
\* contains type correctness.
THEOREM Invariance == Spec => []NotificationInv
BY InitInv, StepInv, PTL DEF Spec

\* A notification's status and completed_at are always those of its deliveries,
\* however many workers aggregate them: they hold the parent's lock from before
\* the provider is called until they commit.
THEOREM StatusIsTrue == Spec => []StatusTrue
<1>1. NotificationInv => StatusTrue
  BY DEF NotificationInv
<1> QED BY <1>1, Invariance, PTL

\* A delivery is handed to a provider at most once more than workers crashed and
\* answers about it were lost.
THEOREM SentOnce == Spec => []SentOncePerLoss
<1>1. NotificationInv => SentOncePerLoss
  BY DEF NotificationInv, AcceptedSound, SentOncePerLoss
<1> QED BY <1>1, Invariance, PTL

-----------------------------------------------------------------------------
(* The gateway is a delivery queue.                                        *)

LEMMA JobStates ==
    /\ \A s \in Waiting : JobState(s) = "open"
    /\ JobState("absent") = "absent" /\ JobState("delivered") = "delivered"
    /\ JobState("failed") = "unsuccessful"
BY DEF JobState, Waiting

LEMMA QueueInit == Init => Queue!Init
BY JobStates DEF Init, Queue!Init, Absent

\* A step that changes neither a delivery's state nor what was handed over.
LEMMA QueueStutter ==
    ASSUME \A d \in Deliveries : JobState(row'[d].status) = JobState(row[d].status),
           \A d \in Deliveries : accepted'[d] = accepted[d]
    PROVE  UNCHANGED Queue!vars
BY DEF Queue!vars

LEMMA QueueStep == NotificationInv /\ [Next]_vars => [Queue!Next]_(Queue!vars)
<1> SUFFICES ASSUME NotificationInv, [Next]_vars PROVE [Queue!Next]_(Queue!vars)
  OBVIOUS
<1>1. ASSUME NEW n \in Notifications, NEW channels \in SUBSET Channels, Create(n, channels)
      PROVE  Queue!Next
  <2> DEFINE S == {n} \X channels
  <2>1. S \subseteq Deliveries /\ \A d \in Deliveries : d \in S <=> d[1] = n /\ d[2] \in channels
    BY DeliveryParts DEF Deliveries
  <2>2. \A d \in S : row[d].status = "absent"
    BY <1>1, <2>1 DEF Create, NotificationInv, RowsSound, Absent
  <2>3. \A d \in Deliveries : row'[d].status = IF d \in S THEN "pending" ELSE row[d].status
    BY <1>1, <2>1 DEF Create
  <2>4. Queue!Enqueue(S)
    BY <1>1, <2>1, <2>2, <2>3, JobStates DEF sent, Queue!Enqueue, Waiting, Create
  <2> QED BY <2>1, <2>4 DEF Queue!Next
<1>2. ASSUME NEW w \in Workers, NEW o \in Outcomes, Attempt(w, o)
      PROVE  [Queue!Next]_(Queue!vars)
  <2>1. PICK d \in Deliveries : worker[w].now = {d} /\ row[d].status \in Waiting
    BY <1>2 DEF NotificationInv, LocksSound, Attempt, TypeOK, WorkerState
  <2>2. row' = row /\ \A k \in Deliveries :
             accepted'[k] = IF o # "refused" /\ k = d THEN accepted[k] + 1 ELSE accepted[k]
    BY <1>2, <2>1 DEF Attempt, store
  <2>3. \A k \in Deliveries : accepted[k] \in Nat
    BY DEF NotificationInv, TypeOK
  <2>4. CASE o # "refused"
    <3>1. \A k \in Deliveries : accepted'[k] > 0 <=> (k = d \/ accepted[k] > 0)
      BY <2>2, <2>3, <2>4
    <3>2. Queue!HandOver(d)
      BY <2>1, <2>2, <3>1, JobStates DEF Queue!HandOver
    <3> QED BY <3>2 DEF Queue!Next
  <2>5. CASE o = "refused"
    BY <2>2, <2>5, QueueStutter
  <2> QED BY <2>4, <2>5
<1>3. ASSUME NEW w \in Workers, Commit(w) PROVE [Queue!Next]_(Queue!vars)
  <2>1. PICK d \in Deliveries : worker[w].now = {d} /\ row[d].status \in Waiting
    BY <1>3 DEF NotificationInv, LocksSound, Commit, TypeOK, WorkerState
  <2>2. /\ accepted' = accepted /\ row'[d] = worker[w].row
        /\ \A k \in Deliveries \ {d} : row'[k] = row[k]
    BY <1>3, <2>1 DEF sent, Commit, NotificationInv, TypeOK
  <2>3. PICK o \in Outcomes : worker[w].row = After(row[d], o) /\ (o = "ok" => accepted[d] > 0)
    BY <1>3, <2>1 DEF NotificationInv, MemorySound, Attempted, Commit
  <2>4. /\ row'[d].status \in {"delivered", "failed", "retry"}
        /\ row'[d].status = "delivered" => accepted[d] > 0
    <3>1. row[d] \in Row /\ row[d].attempts < MaxAttempts
      BY <2>1 DEF NotificationInv, RowsSound, TypeOK
    <3> QED BY <2>2, <2>3, <3>1, AfterRow
  <2>5. CASE row'[d].status = "retry"
    BY <2>1, <2>2, <2>5, JobStates, QueueStutter DEF Waiting
  <2>6. CASE row'[d].status = "delivered"
    <3>1. Queue!Settle({d}, {})
      BY <2>1, <2>2, <2>4, <2>6, JobStates DEF Queue!Settle
    <3> QED BY <3>1 DEF Queue!Next
  <2>7. CASE row'[d].status = "failed"
    <3>1. Queue!Settle({}, {d})
      BY <2>1, <2>2, <2>4, <2>7, JobStates DEF Queue!Settle
    <3> QED BY <3>1 DEF Queue!Next
  <2> QED BY <2>4, <2>5, <2>6, <2>7
<1>4. ASSUME \/ \E d \in Deliveries : Elapse(d)
             \/ \E w \in Workers : Select(w) \/ LockParent(w) \/ Flush(w) \/ Crash(w)
             \/ UNCHANGED vars
      PROVE  UNCHANGED Queue!vars
  <2>1. row' = row /\ accepted' = accepted
    BY <1>4 DEF sent, Elapse, Select, LockParent, Flush, Crash, store, vars
  <2> QED BY <2>1, QueueStutter
<1> QED BY <1>1, <1>2, <1>3, <1>4 DEF Next, WorkerStep

\* The gateway implements a delivery queue: a delivery ends once, and as
\* delivered only if a provider accepted it, with any number of workers and
\* crashes between the provider's answer and the commit.
THEOREM GatewayIsQueue == Spec => ImplementsQueue
<1>1. NotificationInv /\ [Next]_vars => [Queue!Next]_(Queue!vars)
  BY QueueStep
<1> QED BY <1>1, QueueInit, Invariance, PTL DEF Spec, ImplementsQueue, Queue!Spec

-----------------------------------------------------------------------------
(* Scheduled mail, for any number of messages, API processes, requests and *)
(* stops.                                                                  *)

MailRows == [status : {"none", "queued", "sending", "sent", "failed", "cancelled"}, secret : Nat]

SenderStates ==
  {Scheduled!Free} \cup [at : {"claim", "sending", "sent", "failed"}, m : Mails, loaded : MailRows]
         \cup [at : {"claimed"}, m : Mails]

MailTyped ==
  /\ mail \in [Mails -> MailRows] /\ changes \in Nat
  /\ sender \in [Senders -> SenderStates]
  /\ request \in [Requests -> {Scheduled!Free} \cup [at : {"change"}, m : Mails, loaded : MailRows, new : MailRows]]
  /\ handed \in [Mails -> Nat] /\ again \in [Mails -> Nat]

\* A claim under way has its row for itself, and the row is as it was selected.
ClaimsHeld ==
  \A s \in Senders : sender[s].at = "claim" =>
    /\ mail[sender[s].m] = sender[s].loaded /\ sender[s].loaded.status \in {"queued", "sending"}
    /\ \A u \in Senders \ {s} : sender[u].at = "claim" => sender[u].m # sender[s].m

\* A request cancels a message or puts it back in the queue.
RetriesSound ==
  \A r \in Requests : request[r].at = "change" => request[r].new.status \in {"cancelled", "queued"}

\* Who may hand message m over, and whether it may be claimed yet.
MailHolders(m) == {s \in Senders : sender[s].at \in {"claimed", "sending"} /\ sender[s].m = m}
MailOpen(m) == IF mail[m].status \in {"none", "queued"} THEN 1 ELSE 0

\* Hand-overs made and still to come are within the claims.
HandOversFit ==
  \A m \in Mails :
    /\ IsFiniteSet(MailHolders(m))
    /\ handed[m] + Cardinality(MailHolders(m)) + MailOpen(m) <= 1 + again[m]

MailInv == MailTyped /\ ClaimsHeld /\ RetriesSound /\ HandOversFit

-----------------------------------------------------------------------------
(* Counting claims.                                                        *)

\* Fewer holders, for nothing.
LEMMA BudgetKept ==
  ASSUME NEW H, IsFiniteSet(H), NEW K, K \subseteq H, NEW h \in Nat, NEW o \in Nat, NEW a \in Nat,
         NEW h1 \in Nat, NEW o1 \in Nat, NEW a1 \in Nat,
         h + Cardinality(H) + o <= 1 + a, h1 + o1 + a <= h + o + a1
  PROVE  IsFiniteSet(K) /\ h1 + Cardinality(K) + o1 <= 1 + a1
<1>1. IsFiniteSet(K) /\ Cardinality(K) \in Nat /\ Cardinality(H) \in Nat /\ Cardinality(K) <= Cardinality(H)
  BY FS_Subset, FS_CardinalityType
<1> QED BY <1>1

\* One more holder, for a message out of the queue or for one more claim.
LEMMA BudgetClaimed ==
  ASSUME NEW H, IsFiniteSet(H), NEW s, NEW h \in Nat, NEW o \in Nat, NEW a \in Nat,
         NEW o1 \in Nat, NEW a1 \in Nat,
         h + Cardinality(H) + o <= 1 + a, 1 + o1 + a <= o + a1
  PROVE  IsFiniteSet(H \cup {s}) /\ h + Cardinality(H \cup {s}) + o1 <= 1 + a1
<1>1. /\ IsFiniteSet(H \cup {s})
      /\ Cardinality(H \cup {s}) = IF s \in H THEN Cardinality(H) ELSE Cardinality(H) + 1
  BY FS_AddElement
<1>2. Cardinality(H) \in Nat
  BY FS_CardinalityType
<1>3. Cardinality(H \cup {s}) \in Nat /\ Cardinality(H \cup {s}) <= Cardinality(H) + 1
  BY <1>1, <1>2
<1> QED BY <1>1, <1>2, <1>3

\* A holder hands the message over.
LEMMA BudgetSpent ==
  ASSUME NEW H, IsFiniteSet(H), NEW s \in H, NEW h \in Nat, NEW o \in Nat, NEW a \in Nat, NEW h1 \in Nat,
         h + Cardinality(H) + o <= 1 + a, h1 <= h + 1
  PROVE  IsFiniteSet(H \ {s}) /\ h1 + Cardinality(H \ {s}) + o <= 1 + a
<1>1. IsFiniteSet(H \ {s}) /\ Cardinality(H \ {s}) = Cardinality(H) - 1
  BY FS_RemoveElement
<1>2. Cardinality(H) \in Nat /\ Cardinality(H \ {s}) \in Nat
  BY <1>1, FS_CardinalityType
<1> QED BY <1>1, <1>2

LEMMA MailCounts ==
  ASSUME MailTyped, NEW m \in Mails
  PROVE  handed[m] \in Nat /\ again[m] \in Nat /\ MailOpen(m) \in Nat
BY DEF MailTyped, MailOpen

\* A step by which no message gets a holder or comes open again for nothing.
LEMMA NothingClaimed ==
  ASSUME MailInv, MailTyped', \A m \in Mails : MailHolders(m)' \subseteq MailHolders(m), handed' = handed,
         \A m \in Mails : (MailOpen(m)' <= MailOpen(m) /\ again'[m] = again[m]) \/ again'[m] = again[m] + 1
  PROVE  HandOversFit'
<1> SUFFICES ASSUME NEW m \in Mails
             PROVE  /\ IsFiniteSet(MailHolders(m)')
                    /\ handed'[m] + Cardinality(MailHolders(m)') + MailOpen(m)' <= 1 + again'[m]
  BY DEF HandOversFit
<1>1. handed[m] \in Nat /\ again[m] \in Nat /\ MailOpen(m) \in Nat /\ MailOpen(m)' \in {0, 1}
  BY MailCounts DEF MailInv, MailOpen
<1>2. handed'[m] = handed[m] /\ again'[m] \in Nat
  BY DEF MailTyped
<1>3. handed'[m] + MailOpen(m)' + again[m] <= handed[m] + MailOpen(m) + again'[m]
  <2>1. CASE MailOpen(m)' <= MailOpen(m) /\ again'[m] = again[m]
    BY <1>1, <1>2, <2>1
  <2>2. CASE again'[m] = again[m] + 1
    BY <1>1, <1>2, <2>2
  <2> QED BY <2>1, <2>2
<1>4. IsFiniteSet(MailHolders(m)) /\ handed[m] + Cardinality(MailHolders(m)) + MailOpen(m) <= 1 + again[m]
  BY DEF MailInv, HandOversFit
<1>5. MailOpen(m)' \in Nat /\ handed'[m] \in Nat
  BY <1>1, <1>2
<1> DEFINE H == MailHolders(m)
           K == MailHolders(m)'
           h == handed[m]
           o == MailOpen(m)
           a == again[m]
           h1 == handed'[m]
           o1 == MailOpen(m)'
           a1 == again'[m]
<1>6. /\ IsFiniteSet(H) /\ K \subseteq H /\ h \in Nat /\ o \in Nat /\ a \in Nat
      /\ h1 \in Nat /\ o1 \in Nat /\ a1 \in Nat
      /\ h + Cardinality(H) + o <= 1 + a /\ h1 + o1 + a <= h + o + a1
  BY <1>1, <1>2, <1>3, <1>4, <1>5
<1> HIDE DEF H, K, h, o, a, h1, o1, a1
<1>7. IsFiniteSet(K) /\ h1 + Cardinality(K) + o1 <= 1 + a1
  BY ONLY <1>6, BudgetKept
<1> QED BY <1>7 DEF K, h1, o1, a1

-----------------------------------------------------------------------------
(* What a step does to the types and to the claims.                        *)

\* An UPDATE leaves a row that was open or not, and comes open only as queued.
LEMMA UpdateRow ==
  ASSUME MailTyped, NEW m \in Mails, NEW loaded \in MailRows, NEW new \in MailRows, Scheduled!Update(m, loaded, new)
  PROVE  /\ mail' \in [Mails -> MailRows]
         /\ \A k \in Mails \ {m} : mail'[k] = mail[k]
         /\ mail'[m].status = IF new.status = loaded.status THEN mail[m].status ELSE new.status
         /\ new = loaded => mail'[m] = mail[m]
<1> DEFINE written == [status |-> IF new.status = loaded.status THEN mail[m].status ELSE new.status,
                   secret |-> IF new.secret = loaded.secret THEN mail[m].secret ELSE new.secret]
<1>1. mail[m] \in MailRows /\ mail' = [mail EXCEPT ![m] = written]
  BY DEF MailTyped, Scheduled!Update
<1>2. written \in MailRows /\ written.status = IF new.status = loaded.status THEN mail[m].status ELSE new.status
  BY <1>1 DEF MailRows
<1>3. new = loaded => written = mail[m]
  BY <1>1 DEF MailRows
<1> HIDE DEF written, MailRows
<1> QED BY <1>1, <1>2, <1>3 DEF MailTyped

\* Nobody has selected the written of m for a claim while its written changes.
LEMMA ClaimsKept ==
  ASSUME MailInv, NEW m \in Mails, ~Scheduled!RowLocked(m), \A k \in Mails \ {m} : mail'[k] = mail[k],
         \A s \in Senders : sender'[s] = sender[s] \/ sender'[s].at # "claim"
  PROVE  ClaimsHeld'
<1>1. \A s \in Senders : sender[s].at = "claim" => sender[s].m \in Mails \ {m}
  BY DEF MailInv, MailTyped, SenderStates, Scheduled!Free, Scheduled!RowLocked
<1> QED BY <1>1 DEF MailInv, ClaimsHeld

LEMMA MailScheduleKeeps ==
  ASSUME MailInv, NEW m \in Mails, Scheduled!ScheduleMessage(m)
  PROVE  MailInv'
<1>1. /\ mail[m].status = "none" /\ changes \in Nat /\ changes' = changes + 1
      /\ UNCHANGED <<sender, request, handed, again>>
  BY DEF MailInv, MailTyped, Scheduled!ScheduleMessage, Scheduled!Changed
<1>2. [status |-> "queued", secret |-> changes + 1] \in MailRows
  BY <1>1 DEF MailRows
<1>3. mail' = [mail EXCEPT ![m] = [status |-> "queued", secret |-> changes + 1]]
  BY DEF Scheduled!ScheduleMessage
<1> HIDE DEF MailRows
<1>4. MailTyped'
  BY <1>1, <1>2, <1>3 DEF MailInv, MailTyped
<1>5. /\ \A k \in Mails \ {m} : mail'[k] = mail[k]
      /\ mail'[m].status = "queued"
  BY <1>3 DEF MailInv, MailTyped
<1>6. ~Scheduled!RowLocked(m)
  BY <1>1 DEF MailInv, ClaimsHeld, Scheduled!RowLocked
<1>7. ClaimsHeld'
  BY <1>1, <1>5, <1>6, ClaimsKept
<1>8. RetriesSound' /\ \A k \in Mails : MailHolders(k)' \subseteq MailHolders(k)
  BY <1>1 DEF MailInv, RetriesSound, MailHolders
<1>9. \A k \in Mails : MailOpen(k)' <= MailOpen(k) /\ again'[k] = again[k]
  BY <1>1, <1>5 DEF MailOpen
<1>10. HandOversFit'
  BY <1>1, <1>4, <1>8, <1>9, NothingClaimed
<1> QED BY <1>4, <1>7, <1>8, <1>10 DEF MailInv

LEMMA MailLoadKeeps ==
  ASSUME MailInv, NEW r \in Requests, NEW m \in Mails,
         Scheduled!CancelScheduled(r, m) \/ Scheduled!RetryScheduled(r, m)
  PROVE  MailInv'
<1>1. PICK statuses, new :
        Scheduled!Load(r, m, statuses, new) /\ new \in MailRows /\ new.status \in {"cancelled", "queued"}
  <2>1. /\ [status |-> "cancelled", secret |-> 0] \in MailRows
        /\ [status |-> "queued", secret |-> changes + 1] \in MailRows
    BY DEF MailInv, MailTyped, MailRows
  <2> QED BY <2>1 DEF Scheduled!CancelScheduled, Scheduled!RetryScheduled
<1> DEFINE q == [at |-> "change", m |-> m, loaded |-> mail[m], new |-> new]
<1>2. /\ request' = [request EXCEPT ![r] = q] /\ UNCHANGED <<mail, sender, handed, again>> /\ changes' = changes + 1
  BY <1>1 DEF Scheduled!Load, Scheduled!Changed
<1>3. q \in [at : {"change"}, m : Mails, loaded : MailRows, new : MailRows] /\ q.new.status \in {"cancelled", "queued"}
  BY <1>1 DEF MailInv, MailTyped
<1> HIDE DEF q, MailRows
<1>4. MailTyped'
  BY <1>2, <1>3 DEF MailInv, MailTyped
<1>5. RetriesSound'
  BY <1>2, <1>3 DEF MailInv, MailTyped, RetriesSound
<1>6. ClaimsHeld' /\ HandOversFit'
  BY <1>2 DEF MailInv, ClaimsHeld, HandOversFit, MailHolders, MailOpen
<1> QED BY <1>4, <1>5, <1>6 DEF MailInv

LEMMA MailRequestKeeps ==
  ASSUME MailInv, NEW r \in Requests, Scheduled!RequestCommit(r)
  PROVE  MailInv'
<1> DEFINE q == request[r]
<1>1. /\ q.at = "change" /\ q.m \in Mails /\ q.loaded \in MailRows /\ q.new \in MailRows
      /\ q.new.status \in {"cancelled", "queued"} /\ ~Scheduled!RowLocked(q.m) /\ Scheduled!Update(q.m, q.loaded, q.new)
      /\ UNCHANGED <<sender, handed, changes>> /\ request' = [request EXCEPT ![r] = Scheduled!Free]
      /\ again' = IF q.new.status = "queued" THEN [again EXCEPT ![q.m] = @ + 1] ELSE again
  BY DEF MailInv, MailTyped, RetriesSound, Scheduled!RequestCommit, Scheduled!Free
<1> HIDE DEF q, MailRows
<1>2. /\ mail' \in [Mails -> MailRows] /\ \A k \in Mails \ {q.m} : mail'[k] = mail[k]
      /\ mail'[q.m].status = mail[q.m].status \/ mail'[q.m].status = q.new.status
  BY <1>1, UpdateRow DEF MailInv
<1>3. again' \in [Mails -> Nat]
  BY <1>1 DEF MailInv, MailTyped
<1>4. MailTyped'
  BY <1>1, <1>2, <1>3 DEF MailInv, MailTyped
<1>5. ClaimsHeld'
  BY <1>1, <1>2, ClaimsKept
<1>6. RetriesSound' /\ \A k \in Mails : MailHolders(k)' \subseteq MailHolders(k)
  BY <1>1 DEF MailInv, MailTyped, RetriesSound, MailHolders, Scheduled!Free
<1>7. ASSUME NEW k \in Mails
      PROVE  (MailOpen(k)' <= MailOpen(k) /\ again'[k] = again[k]) \/ again'[k] = again[k] + 1
  <2>1. CASE k # q.m
    BY <1>1, <1>2, <2>1 DEF MailOpen, MailInv, MailTyped
  <2>2. CASE k = q.m /\ q.new.status = "queued"
    BY <1>1, <2>2 DEF MailInv, MailTyped
  <2>3. CASE k = q.m /\ q.new.status = "cancelled"
    BY <1>1, <1>2, <2>3 DEF MailOpen
  <2> QED BY <1>1, <2>1, <2>2, <2>3
<1>8. HandOversFit'
  BY <1>1, <1>4, <1>6, <1>7, NothingClaimed
<1> QED BY <1>4, <1>5, <1>6, <1>8 DEF MailInv

LEMMA MailSelectKeeps ==
  ASSUME MailInv, NEW s \in Senders, NEW m \in Mails, Scheduled!ClaimSelect(s, m)
  PROVE  MailInv'
<1> DEFINE w == [at |-> "claim", m |-> m, loaded |-> mail[m]]
<1>1. /\ sender' = [sender EXCEPT ![s] = w] /\ ~Scheduled!RowLocked(m) /\ mail[m].status \in {"queued", "sending"}
      /\ UNCHANGED <<mail, request, handed, again, changes>>
  BY DEF Scheduled!ClaimSelect, Scheduled!Claimable
<1>2. w \in SenderStates /\ w.at = "claim" /\ w.m = m /\ w.loaded = mail[m]
  BY DEF SenderStates, MailInv, MailTyped
<1> HIDE DEF w, SenderStates
<1>3. MailTyped'
  BY <1>1, <1>2 DEF MailInv, MailTyped
<1>4. sender'[s] = w /\ \A u \in Senders \ {s} : sender'[u] = sender[u]
  BY <1>1 DEF MailInv, MailTyped
<1>5. ClaimsHeld'
  BY <1>1, <1>2, <1>4 DEF MailInv, ClaimsHeld, Scheduled!RowLocked
<1>6. RetriesSound' /\ \A k \in Mails : MailHolders(k)' \subseteq MailHolders(k)
  BY <1>1, <1>2, <1>4 DEF MailInv, RetriesSound, MailHolders
<1>7. \A k \in Mails : MailOpen(k)' <= MailOpen(k) /\ again'[k] = again[k]
  BY <1>1 DEF MailOpen
<1>8. HandOversFit'
  BY <1>1, <1>3, <1>6, <1>7, NothingClaimed
<1> QED BY <1>3, <1>5, <1>6, <1>8 DEF MailInv

\* The claim that makes its sender a holder: of a queued message, which is not open any more, or
\* of one whose claim went stale, which counts as a claim.
LEMMA MailClaimKeeps ==
  ASSUME MailInv, NEW s \in Senders, Scheduled!ClaimCommit(s)
  PROVE  MailInv'
<1> DEFINE w == sender[s]
           n == w.m
           new == [w.loaded EXCEPT !.status = "sending"]
<1>1. /\ w.at = "claim" /\ n \in Mails /\ w.loaded \in MailRows /\ mail[n] = w.loaded
      /\ w.loaded.status \in {"queued", "sending"}
      /\ \A u \in Senders \ {s} : sender[u].at = "claim" => sender[u].m # n
  BY DEF MailInv, MailTyped, SenderStates, Scheduled!Free, ClaimsHeld, Scheduled!ClaimCommit
<1>2. /\ Scheduled!Update(n, w.loaded, new) /\ UNCHANGED <<request, handed, changes>>
      /\ again' = IF w.loaded.status = "sending" THEN [again EXCEPT ![n] = @ + 1] ELSE again
      /\ sender' = [sender EXCEPT ![s] = [at |-> "claimed", m |-> n]]
  BY DEF Scheduled!ClaimCommit
<1>3. new \in MailRows /\ new.status = "sending"
  BY <1>1 DEF MailRows
<1> HIDE DEF new, MailRows
<1>4. mail' \in [Mails -> MailRows] /\ (\A k \in Mails \ {n} : mail'[k] = mail[k]) /\ mail'[n].status = "sending"
  BY <1>1, <1>2, <1>3, UpdateRow DEF MailInv
<1>5. again' \in [Mails -> Nat] /\ \A k \in Mails \ {n} : again'[k] = again[k]
  BY <1>1, <1>2 DEF MailInv, MailTyped
<1>6. [at |-> "claimed", m |-> n] \in SenderStates
  BY <1>1 DEF SenderStates
<1>7. MailTyped'
  <2> HIDE DEF SenderStates
  <2> QED BY <1>2, <1>4, <1>5, <1>6 DEF MailInv, MailTyped
<1>8. sender'[s].at = "claimed" /\ sender'[s].m = n /\ \A u \in Senders \ {s} : sender'[u] = sender[u]
  BY <1>2 DEF MailInv, MailTyped
<1>9. ClaimsHeld'
  <2>1. \A u \in Senders \ {s} : sender[u].at = "claim" => sender[u].m \in Mails \ {n}
    BY <1>1 DEF MailInv, MailTyped, SenderStates, Scheduled!Free
  <2> QED BY <1>4, <1>8, <2>1 DEF MailInv, ClaimsHeld
<1>10. RetriesSound'
  BY <1>2 DEF MailInv, RetriesSound
<1>11. HandOversFit'
  <2> SUFFICES ASSUME NEW k \in Mails
               PROVE  /\ IsFiniteSet(MailHolders(k)')
                      /\ handed'[k] + Cardinality(MailHolders(k)') + MailOpen(k)' <= 1 + again'[k]
    BY DEF HandOversFit
  <2>1. handed'[k] = handed[k] /\ handed[k] \in Nat /\ MailOpen(k) \in Nat /\ again[k] \in Nat
        /\ IsFiniteSet(MailHolders(k)) /\ handed[k] + Cardinality(MailHolders(k)) + MailOpen(k) <= 1 + again[k]
    BY <1>2, MailCounts DEF MailInv, HandOversFit
  <2>2. CASE k # n
    <3>1. MailHolders(k)' = MailHolders(k)
      BY <1>1, <1>8, <2>2 DEF MailHolders
    <3>2. MailOpen(k)' = MailOpen(k) /\ again'[k] = again[k]
      BY <1>4, <1>5, <2>2 DEF MailOpen
    <3> QED BY <2>1, <3>1, <3>2
  <2>3. CASE k = n
    <3> DEFINE H == MailHolders(k)
               h == handed[k]
               o == MailOpen(k)
               a == again[k]
               o1 == MailOpen(k)'
               a1 == again'[k]
    <3>1. MailHolders(k)' = H \cup {s}
      BY <1>8, <2>3 DEF MailHolders
    <3>2. o1 = 0 /\ a1 \in Nat
      BY <1>1, <1>4, <1>5, <2>3 DEF MailOpen
    <3>3. \/ o = 1 /\ a1 = a
          \/ a1 = a + 1
      <4>1. CASE w.loaded.status = "queued"
        <5>1. again' = again
          BY <1>2, <4>1
        <5>2. mail[n].status = "queued"
          BY <1>1, <4>1
        <5> QED BY <2>3, <5>1, <5>2 DEF MailOpen
      <4>2. CASE w.loaded.status = "sending"
        <5>1. again' = [again EXCEPT ![n] = @ + 1] /\ again \in [Mails -> Nat] /\ n \in Mails
          BY <1>1, <1>2, <4>2 DEF MailInv, MailTyped
        <5> HIDE DEF n
        <5> QED BY <2>3, <5>1
      <4> QED BY <1>1, <4>1, <4>2
    <3>4. h \in Nat /\ o \in Nat /\ a \in Nat /\ IsFiniteSet(H) /\ h + Cardinality(H) + o <= 1 + a
      BY <2>1
    <3> HIDE DEF H, h, o, a, o1, a1
    <3>5. o1 \in Nat /\ 1 + o1 + a <= o + a1
      BY <3>2, <3>3, <3>4
    <3>6. IsFiniteSet(H \cup {s}) /\ h + Cardinality(H \cup {s}) + o1 <= 1 + a1
      BY ONLY <3>2, <3>4, <3>5, BudgetClaimed
    <3> QED BY <1>2, <2>3, <3>1, <3>6 DEF h, o1, a1
  <2> QED BY <2>2, <2>3
<1> QED BY <1>7, <1>9, <1>10, <1>11 DEF MailInv

\* A sender that leaves, or goes on with what it holds.
LEMMA SenderGoesOn ==
  ASSUME MailInv, NEW s \in Senders, NEW w \in SenderStates, sender' = [sender EXCEPT ![s] = w], w.at # "claim",
         w.at \in {"claimed", "sending"} => sender[s].at \in {"claimed", "sending"} /\ w.m = sender[s].m,
         UNCHANGED <<request, handed, again, changes>>,
         \/ mail' = mail
         \/ \E m \in Mails :
              /\ ~Scheduled!RowLocked(m) /\ mail' \in [Mails -> MailRows] /\ \A k \in Mails \ {m} : mail'[k] = mail[k]
              /\ mail'[m].status \in {mail[m].status, "failed", "sent"}
  PROVE  MailInv'
<1> HIDE DEF MailRows, SenderStates
<1>1. MailTyped'
  BY DEF MailInv, MailTyped
<1>2. sender'[s] = w /\ \A u \in Senders \ {s} : sender'[u] = sender[u]
  BY DEF MailInv, MailTyped
<1>3. ClaimsHeld'
  <2>1. \A u \in Senders : sender'[u] = sender[u] \/ sender'[u].at # "claim"
    BY <1>2
  <2>2. CASE mail' = mail
    BY <1>2, <2>1, <2>2 DEF MailInv, ClaimsHeld
  <2>3. CASE mail' # mail
    BY <2>1, <2>3, ClaimsKept
  <2> QED BY <2>2, <2>3
<1>4. RetriesSound' /\ \A k \in Mails : MailHolders(k)' \subseteq MailHolders(k)
  BY <1>2 DEF MailInv, RetriesSound, MailHolders
<1>5. \A k \in Mails : MailOpen(k)' <= MailOpen(k) /\ again'[k] = again[k]
  BY DEF MailOpen
<1>6. HandOversFit'
  BY <1>1, <1>4, <1>5, NothingClaimed
<1> QED BY <1>1, <1>3, <1>4, <1>6 DEF MailInv

LEMMA MailDeliverLoadKeeps ==
  ASSUME MailInv, NEW s \in Senders, Scheduled!DeliverLoad(s)
  PROVE  MailInv'
<1> DEFINE n == sender[s].m
           here == mail[n]
           step == IF active /\ here.secret # 0 THEN "sending" ELSE "failed"
           go == [at |-> step, m |-> n, loaded |-> here]
<1>1. /\ sender[s].at = "claimed" /\ n \in Mails /\ here \in MailRows
      /\ UNCHANGED <<mail, request, handed, again, changes>>
  BY DEF MailInv, MailTyped, SenderStates, Scheduled!Free, Scheduled!DeliverLoad
<1>2. /\ Scheduled!Free \in SenderStates /\ Scheduled!Free.at = "free"
      /\ go \in SenderStates /\ go.at \in {"sending", "failed"} /\ go.m = n
  <2>1. step \in {"sending", "failed"}
    OBVIOUS
  <2> HIDE DEF step
  <2> QED BY <1>1, <2>1 DEF SenderStates, Scheduled!Free
<1>3. CASE sender' = [sender EXCEPT ![s] = Scheduled!Free]
  BY <1>1, <1>2, <1>3, SenderGoesOn
<1>4. CASE sender' = [sender EXCEPT ![s] = go]
  <2> HIDE DEF go
  <2> QED BY <1>1, <1>2, <1>4, SenderGoesOn
<1> QED BY <1>3, <1>4 DEF Scheduled!DeliverLoad

LEMMA MailSendKeeps ==
  ASSUME MailInv, NEW s \in Senders, NEW taken \in BOOLEAN, NEW ok \in BOOLEAN, Scheduled!SendMessage(s, taken, ok)
  PROVE  MailInv'
<1> DEFINE n == sender[s].m
           w == [sender[s] EXCEPT !.at = IF ok THEN "sent" ELSE "failed"]
<1>1. sender[s].at = "sending" /\ n \in Mails /\ UNCHANGED <<mail, request, again, changes>>
  BY DEF MailInv, MailTyped, SenderStates, Scheduled!Free, Scheduled!SendMessage
<1>2. w \in SenderStates /\ w.at \in {"sent", "failed"}
  BY <1>1 DEF MailInv, MailTyped, SenderStates, Scheduled!Free
<1>3. sender' = [sender EXCEPT ![s] = w] /\ handed' = IF taken THEN [handed EXCEPT ![n] = @ + 1] ELSE handed
  BY DEF Scheduled!SendMessage, MailInv, MailTyped
<1> HIDE DEF w, SenderStates
<1>4. sender'[s].at \in {"sent", "failed"} /\ \A u \in Senders \ {s} : sender'[u] = sender[u]
  BY <1>2, <1>3 DEF MailInv, MailTyped
<1>5. handed' \in [Mails -> Nat] /\ (\A k \in Mails \ {n} : handed'[k] = handed[k]) /\ handed'[n] <= handed[n] + 1
  BY <1>1, <1>3 DEF MailInv, MailTyped
<1>6. MailTyped'
  BY <1>1, <1>2, <1>3, <1>5 DEF MailInv, MailTyped
<1>7. ClaimsHeld' /\ RetriesSound'
  BY <1>1, <1>4 DEF MailInv, ClaimsHeld, RetriesSound
<1>8. HandOversFit'
  <2> SUFFICES ASSUME NEW k \in Mails
               PROVE  /\ IsFiniteSet(MailHolders(k)')
                      /\ handed'[k] + Cardinality(MailHolders(k)') + MailOpen(k)' <= 1 + again'[k]
    BY DEF HandOversFit
  <2>1. handed[k] \in Nat /\ MailOpen(k) \in Nat /\ again[k] \in Nat
        /\ IsFiniteSet(MailHolders(k)) /\ handed[k] + Cardinality(MailHolders(k)) + MailOpen(k) <= 1 + again[k]
    BY MailCounts DEF MailInv, HandOversFit
  <2>2. MailOpen(k)' = MailOpen(k) /\ again'[k] = again[k]
    BY <1>1 DEF MailOpen
  <2>3. CASE k # n
    <3>1. MailHolders(k)' = MailHolders(k) /\ handed'[k] = handed[k]
      BY <1>4, <1>5, <2>3 DEF MailHolders
    <3> QED BY <2>1, <2>2, <3>1
  <2>4. CASE k = n
    <3> DEFINE H == MailHolders(k)
               h == handed[k]
               o == MailOpen(k)
               a == again[k]
               h1 == handed'[k]
    <3>1. MailHolders(k)' = H \ {s} /\ s \in H
      BY <1>1, <1>4, <2>4 DEF MailHolders
    <3>2. /\ h \in Nat /\ o \in Nat /\ a \in Nat /\ h1 \in Nat /\ h1 <= h + 1
          /\ IsFiniteSet(H) /\ h + Cardinality(H) + o <= 1 + a
      BY <1>1, <1>5, <2>1, <2>4
    <3> HIDE DEF H, h, o, a, h1
    <3>3. IsFiniteSet(H \ {s}) /\ h1 + Cardinality(H \ {s}) + o <= 1 + a
      BY ONLY <3>1, <3>2, BudgetSpent
    <3> QED BY <2>2, <2>4, <3>1, <3>3 DEF h1, o, a
  <2> QED BY <2>3, <2>4
<1> QED BY <1>6, <1>7, <1>8 DEF MailInv

LEMMA MailDeliverCommitKeeps ==
  ASSUME MailInv, NEW s \in Senders, Scheduled!DeliverCommit(s)
  PROVE  MailInv'
<1> DEFINE w == sender[s]
           n == w.m
           new == [status |-> w.at, secret |-> 0]
<1>1. /\ w.at \in {"sent", "failed"} /\ n \in Mails /\ w.loaded \in MailRows /\ ~Scheduled!RowLocked(n)
      /\ Scheduled!Update(n, w.loaded, new) /\ sender' = [sender EXCEPT ![s] = Scheduled!Free]
      /\ UNCHANGED <<request, handed, again, changes>>
  BY DEF MailInv, MailTyped, SenderStates, Scheduled!Free, Scheduled!DeliverCommit
<1>2. /\ new \in MailRows /\ new.status \in {"sent", "failed"}
      /\ Scheduled!Free \in SenderStates /\ Scheduled!Free.at = "free"
  BY <1>1 DEF MailRows, SenderStates, Scheduled!Free
<1> HIDE DEF new, MailRows, SenderStates
<1>3. /\ mail' \in [Mails -> MailRows] /\ \A k \in Mails \ {n} : mail'[k] = mail[k]
      /\ mail'[n].status \in {mail[n].status, "failed", "sent"}
  BY <1>1, <1>2, UpdateRow DEF MailInv
<1> QED BY <1>1, <1>2, <1>3, SenderGoesOn

LEMMA MailStopKeeps ==
  ASSUME MailInv, NEW s \in Senders, Scheduled!Stops(s)
  PROVE  MailInv'
<1>1. Scheduled!Free \in SenderStates /\ Scheduled!Free.at = "free"
  BY DEF SenderStates, Scheduled!Free
<1> QED BY <1>1, SenderGoesOn DEF Scheduled!Stops

LEMMA MailInvNext == ASSUME MailInv, [Scheduled!Next]_(Scheduled!mailVars) PROVE MailInv'
<1>1. ASSUME UNCHANGED <<mail, sender, request, handed, again>>, changes' \in Nat PROVE MailInv'
  BY <1>1 DEF MailInv, MailTyped, ClaimsHeld, RetriesSound, HandOversFit, MailHolders, MailOpen
<1>2. changes \in Nat
  BY DEF MailInv, MailTyped
<1>3. ASSUME NEW m \in Mails, Scheduled!ComesDue(m) \/ Scheduled!GoesStale(m) PROVE MailInv'
  BY <1>1, <1>2, <1>3 DEF Scheduled!ComesDue, Scheduled!GoesStale
<1>4. ASSUME NEW b \in BOOLEAN, Scheduled!SetMailboxActive(b) PROVE MailInv'
  BY <1>1, <1>2, <1>4 DEF Scheduled!SetMailboxActive, Scheduled!Changed
<1>5. CASE UNCHANGED Scheduled!mailVars
  BY <1>1, <1>2, <1>5 DEF Scheduled!mailVars
<1>6. ASSUME NEW s \in Senders, Scheduled!SenderStep(s) \/ Scheduled!Stops(s) PROVE MailInv'
  BY <1>6, MailSelectKeeps, MailClaimKeeps, MailDeliverLoadKeeps, MailDeliverCommitKeeps, MailSendKeeps,
     MailStopKeeps DEF Scheduled!SenderStep
<1> QED BY <1>3, <1>4, <1>5, <1>6, MailScheduleKeeps, MailLoadKeeps, MailRequestKeeps DEF Scheduled!Next

LEMMA MailInvInit == Scheduled!Init => MailInv
<1> SUFFICES ASSUME Scheduled!Init PROVE MailInv
  OBVIOUS
<1>1. MailTyped
  <2>1. [status |-> "none", secret |-> 0] \in MailRows /\ Scheduled!Free \in SenderStates
    BY DEF MailRows, SenderStates
  <2> HIDE DEF MailRows, SenderStates
  <2> QED BY <2>1 DEF Scheduled!Init, MailTyped
<1>2. ClaimsHeld /\ RetriesSound
  BY DEF Scheduled!Init, ClaimsHeld, RetriesSound, Scheduled!Free
<1>3. ASSUME NEW m \in Mails PROVE MailHolders(m) = {} /\ handed[m] = 0 /\ again[m] = 0 /\ MailOpen(m) = 1
  BY DEF Scheduled!Init, MailHolders, Scheduled!Free, MailOpen
<1>4. HandOversFit
  <2> SUFFICES ASSUME NEW m \in Mails
               PROVE  /\ IsFiniteSet(MailHolders(m))
                      /\ handed[m] + Cardinality(MailHolders(m)) + MailOpen(m) <= 1 + again[m]
    BY DEF HandOversFit
  <2>1. IsFiniteSet(MailHolders(m)) /\ Cardinality(MailHolders(m)) = 0
    BY <1>3, FS_EmptySet
  <2> QED BY <1>3, <2>1
<1> QED BY <1>1, <1>2, <1>4 DEF MailInv

\* A scheduled message goes out once, and once more at most for each retry of its owner and each
\* takeover of a stale claim, with any number of API processes and of requests that commit late:
\* the lock that _claim_one holds on the row leaves one claim for each time a message was queued.
THEOREM MailSentOnce == Scheduled!Spec => []SentOncePerClaim
<1>1. ASSUME MailInv PROVE SentOncePerClaim
  <2> SUFFICES ASSUME NEW m \in Mails PROVE handed[m] <= 1 + again[m]
    BY DEF SentOncePerClaim, Scheduled!SentOncePerClaim
  <2>1. Cardinality(MailHolders(m)) \in Nat /\ handed[m] + Cardinality(MailHolders(m)) + MailOpen(m) <= 1 + again[m]
    BY <1>1, FS_CardinalityType DEF MailInv, HandOversFit
  <2>2. handed[m] \in Nat /\ again[m] \in Nat /\ MailOpen(m) \in Nat
    BY <1>1, MailCounts DEF MailInv
  <2> QED BY <2>1, <2>2
<1> QED BY <1>1, MailInvInit, MailInvNext, PTL DEF Scheduled!Spec

-----------------------------------------------------------------------------
(* The external mail nodes: what is stored and held.                       *)

BoxRows == [node : Nodes \cup {NoNode}, status : {"none", "active", "suspended", "archived"}, settings : Nat]
SnapRows == [node : Nodes, status : {"creating", "ready", "deleting", "deleted", "failed"}, stored : BOOLEAN]
CmdRows == [node : Nodes, box : Boxes, status : {"queued", "claimed", "completed", "failed"},
            state : {"none", "active", "suspended", "archived"}, settings : Nat]
GrantRows == [status : {"pending", "approved", "rejected", "expired", "consumed"}, by : Owners,
              approver : Owners \cup {NoNode}, expired : BOOLEAN, consumed : BOOLEAN, raced : BOOLEAN,
              payload : Nodes \X Nodes \X Nat]
NoGrant == [status |-> "none"]
Uses == [id : Approvals, row : GrantRows]
OpRows(S) == [node : Nodes, kind : {"backup", "restore", "delete"}, snap : S, source : Nodes,
              status : {"queued", "claimed", "completed", "failed"}, approval : {Fleet!Idle} \cup Uses]
BoxCalls ==
    [at : {"box"}, box : Boxes, row : BoxRows, column : {"settings"}, value : Nat, alone : BOOLEAN]
    \cup [at : {"box"}, box : Boxes, row : BoxRows, column : {"status"},
          value : {"active", "suspended", "archived"}, alone : BOOLEAN]
Verdicts == [at : {"approved", "rejected"}, approval : Approvals, by : Owners]
Failovers == [at : {"failover"}, source : Nodes, target : Nodes, snap : Nat, use : {Fleet!Idle} \cup Uses]
Moves == [at : {"moving"}, node : Nodes, i : Nat, moved : UNION {[B -> BoxRows] : B \in SUBSET Boxes}, alone : BOOLEAN]
Works == [at : {"op", "cmd", "waiting"}, i : Nat, ok : BOOLEAN]
FilePairs == [accounts : [Boxes -> Nat], quotas : [Boxes -> Nat]]

FleetTyped ==
    /\ box \in [Boxes -> BoxRows]
    /\ snaps \in Seq(SnapRows) /\ cmds \in Seq(CmdRows)
    /\ \E S : ops \in Seq(OpRows(Nat \cup S))
    /\ approval \in [Approvals -> {NoGrant} \cup GrantRows]
    /\ agent \in [Nodes -> {Fleet!Idle} \cup Works]
    /\ storage \in [Nodes -> Nat] /\ files \in [Nodes -> FilePairs]
    /\ caller \in [Callers -> {Fleet!Idle} \cup BoxCalls \cup Verdicts \cup Failovers \cup Moves]
    /\ alone \in [Boxes -> BOOLEAN]

\* A mailbox that is on a node exists, and so does one that a request or a report is about.
BoxesSound ==
    /\ \A b \in Boxes : box[b].status = "none" <=> box[b].node = NoNode
    /\ \A t \in Callers : caller[t].at = "box" =>
          /\ box[caller[t].box].status # "none" /\ caller[t].row.status # "none"
          /\ caller[t].row.node \in Nodes
    /\ \A t \in Callers : caller[t].at = "moving" => \A b \in DOMAIN caller[t].moved :
          box[b].status # "none" /\ caller[t].moved[b].status # "none"

\* Snapshot s is one of the source.
SnapOf(source, s) == s \in DOMAIN snaps /\ snaps[s].node = source

\* What approval row g grants: the move of this source to this target with this snapshot, by
\* another owner than the one who asked.
Grants(g, source, target, s) ==
    /\ g.payload = <<source, target, s>> /\ g.approver \in Owners \ {g.by}

\* The requester of an approval does not approve it.
VerdictsSound ==
    /\ \A a \in Approvals : approval[a].status = "approved" => approval[a].approver \in Owners \ {approval[a].by}
    /\ \A t \in Callers :
          /\ caller[t].at \in {"approved", "rejected"} => approval[caller[t].approval].status # "none"
          /\ caller[t].at = "approved" => caller[t].by # approval[caller[t].approval].by

\* Failover t has read approval a.
Reads(t, a) == caller[t].at = "failover" /\ caller[t].use # Fleet!Idle /\ caller[t].use.id = a

\* A failover under way has a grant, or the backend runs without dual control; a grant that has
\* been used since, or that two of them have, is known to be raced.
FailoversSound ==
    /\ \A t \in Callers : caller[t].at = "failover" =>
          /\ SnapOf(caller[t].source, caller[t].snap)
          /\ caller[t].use = Fleet!Idle => FALSE \in DualControl
    /\ \A t \in Callers, a \in Approvals : Reads(t, a) =>
          /\ Grants(caller[t].use.row, caller[t].source, caller[t].target, caller[t].snap)
          /\ approval[a].status # "none" /\ (approval[a].consumed => approval[a].raced)
    /\ \A t, u \in Callers, a \in Approvals : Reads(t, a) /\ Reads(u, a) /\ t # u => approval[a].raced

IsRestore(i) == i \in DOMAIN ops /\ ops[i].kind = "restore"

\* Operation i has approval a.
Has(i, a) == i \in DOMAIN ops /\ ops[i].approval # Fleet!Idle /\ ops[i].approval.id = a

\* A restore has an approval, which has been consumed for it alone unless it was raced, or the
\* backend ran without dual control.
RestoresSound ==
    /\ \A i \in DOMAIN ops : IsRestore(i) =>
          /\ SnapOf(ops[i].source, ops[i].snap)
          /\ ops[i].approval = Fleet!Idle => FALSE \in DualControl
    /\ \A i \in DOMAIN ops, a \in Approvals : Has(i, a) =>
          /\ Grants(ops[i].approval.row, ops[i].source, ops[i].node, ops[i].snap)
          /\ approval[a].status # "none" /\ approval[a].consumed
    /\ \A i, j \in DOMAIN ops, a \in Approvals : Has(i, a) /\ Has(j, a) /\ i # j => approval[a].raced

\* An agent works on a row of its own and has restored what it says.
AgentsSound ==
    \A n \in Nodes : agent[n].at \in {"op", "waiting"} =>
        /\ agent[n].i \in DOMAIN ops /\ ops[agent[n].i].node = n /\ ops[agent[n].i].status # "queued"
        /\ agent[n].ok /\ ops[agent[n].i].kind = "restore" => storage[n] = ops[agent[n].i].snap

\* The completion of a restore is about a claimed row of the node, whose agent waits for it if
\* it still is at that row.
ReportsSound ==
    \A t \in Callers : caller[t].at = "moving" =>
        /\ caller[t].i \in DOMAIN ops
        /\ ops[caller[t].i].node = caller[t].node /\ ops[caller[t].i].kind = "restore"
        /\ ops[caller[t].i].status # "queued"
        /\ \A b \in DOMAIN caller[t].moved : caller[t].moved[b].node = ops[caller[t].i].source
        /\ agent[caller[t].node].at \in {"op", "waiting"} /\ agent[caller[t].node].i = caller[t].i =>
              agent[caller[t].node].at = "waiting" /\ agent[caller[t].node].ok

MoveInv ==
    FleetTyped /\ BoxesSound /\ VerdictsSound /\ FailoversSound /\ RestoresSound /\ AgentsSound /\ ReportsSound

-----------------------------------------------------------------------------
(* The accounts of the mailboxes.                                          *)

\* An agent writes the oldest command first and then reports it.
CommandsOrdered ==
    /\ \A i, j \in DOMAIN cmds : i < j /\ cmds[i].node = cmds[j].node /\ cmds[i].status = "queued"
          => cmds[j].status = "queued"
    /\ \A n \in Nodes : agent[n].at = "cmd" =>
          /\ agent[n].i \in DOMAIN cmds
          /\ cmds[agent[n].i].node = n /\ cmds[agent[n].i].status = "claimed"

Mine(i, n, b) == i \in DOMAIN cmds /\ cmds[i].node = n /\ cmds[i].box = b

\* Command i has been written to the files.
Written(i, n) ==
    \/ cmds[i].status = "completed"
    \/ agent[n].at = "cmd" /\ agent[n].i = i /\ agent[n].ok

\* The commands of the node behind command i wait, or are about other mailboxes and written.
Followed(i, n, b) ==
    \A j \in DOMAIN cmds : j > i /\ cmds[j].node = n =>
        cmds[j].status = "queued" \/ (cmds[j].box # b /\ Written(j, n))

\* What the files of node n say of mailbox b.
Says(n, b, x) == files[n].accounts[b] = x /\ files[n].quotas[b] = x

\* The files say what the last command written says.
FilesSound ==
    \A n \in Nodes, b \in Boxes, i \in DOMAIN cmds :
        Mine(i, n, b) /\ Written(i, n) /\ Followed(i, n, b)
        => Says(n, b, IF cmds[i].state = "active" THEN cmds[i].settings ELSE 0)

\* The last command for a mailbox on its node says what its row says.
LastSound ==
    \A b \in Boxes : alone[b] /\ box[b].node # NoNode =>
        \E i \in DOMAIN cmds :
            /\ Mine(i, box[b].node, b)
            /\ \A j \in DOMAIN cmds : Mine(j, box[b].node, b) => j <= i
            /\ cmds[i].state = box[b].status /\ cmds[i].settings = box[b].settings

\* A request that no other overlaps has the row as it is.
AloneSound ==
    /\ \A t \in Callers : caller[t].at = "box" /\ caller[t].alone =>
          /\ caller[t].row = box[caller[t].box]
          /\ \A u \in Callers : caller[u].at = "box" /\ caller[u].box = caller[t].box => u = t
          /\ \A u \in Callers : caller[u].at = "moving" => caller[t].box \notin DOMAIN caller[u].moved
    /\ \A t \in Callers : caller[t].at = "moving" /\ caller[t].alone => \A b \in DOMAIN caller[t].moved :
          /\ caller[t].moved[b].status = box[b].status /\ caller[t].moved[b].settings = box[b].settings
          /\ \A u \in Callers : ~(caller[u].at = "box" /\ caller[u].box = b)

AccountInv == MoveInv /\ CommandsOrdered /\ FilesSound /\ LastSound /\ AloneSound
-----------------------------------------------------------------------------
(* Sequences of rows: a status set, a row appended.                        *)

LEMMA SeqShape ==
    ASSUME NEW S, NEW q \in Seq(S)
    PROVE  Len(q) \in Nat /\ DOMAIN q = 1..Len(q) /\ \A i \in DOMAIN q : q[i] \in S
  BY ElementOfSeq, LenProperties

LEMMA Appended ==
    ASSUME NEW S, NEW q \in Seq(S), NEW e \in S, NEW p, p = Append(q, e)
    PROVE  /\ p \in Seq(S) /\ DOMAIN p = 1..(Len(q) + 1) /\ DOMAIN q \subseteq DOMAIN p
           /\ \A i \in DOMAIN q : p[i] = q[i]
           /\ p[Len(q) + 1] = e /\ Len(q) + 1 \notin DOMAIN q
           /\ \A i \in DOMAIN p : i \in DOMAIN q \/ i = Len(q) + 1
  <1>1. Len(q) \in Nat /\ DOMAIN q = 1..Len(q)
    BY SeqShape
  <1>2. p \in Seq(S) /\ Len(p) = Len(q) + 1 /\ (\A i \in 1..Len(q) : p[i] = q[i]) /\ p[Len(q) + 1] = e
    BY AppendProperties
  <1>3. DOMAIN p = 1..Len(p)
    BY <1>2, SeqShape
  <1> QED
    BY <1>1, <1>2, <1>3

\* A row replaced by one of the same kind.
LEMMA RowSet ==
    ASSUME NEW S, NEW q \in Seq(S), NEW i \in DOMAIN q, NEW e \in S, NEW p, p = [q EXCEPT ![i] = e]
    PROVE  /\ p \in Seq(S) /\ DOMAIN p = DOMAIN q /\ Len(p) = Len(q) /\ p[i] = e
           /\ \A j \in DOMAIN q \ {i} : p[j] = q[j]
  <1>1. DOMAIN q = 1..Len(q)
    BY SeqShape
  <1>2. p \in Seq(S) /\ Len(p) = Len(q)
    BY <1>1, ExceptSeq
  <1> QED
    BY <1>2

\* Only the status of row i changes.
LEMMA OpStatusSet ==
    ASSUME NEW S, NEW q \in Seq(OpRows(S)), NEW i \in DOMAIN q,
           NEW x \in {"queued", "claimed", "completed", "failed"},
           NEW p, p = [q EXCEPT ![i].status = x]
    PROVE  /\ p \in Seq(OpRows(S)) /\ DOMAIN p = DOMAIN q /\ p[i].status = x
           /\ \A j \in DOMAIN q \ {i} : p[j] = q[j]
           /\ \A j \in DOMAIN q : /\ p[j].node = q[j].node /\ p[j].kind = q[j].kind /\ p[j].snap = q[j].snap
                                  /\ p[j].source = q[j].source /\ p[j].approval = q[j].approval
  <1> DEFINE e == [q[i] EXCEPT !.status = x]
  <1>1. q[i] \in OpRows(S)
    BY SeqShape
  <1>2. /\ e \in OpRows(S) /\ e.status = x /\ e.node = q[i].node /\ e.kind = q[i].kind /\ e.snap = q[i].snap
        /\ e.source = q[i].source /\ e.approval = q[i].approval
    BY <1>1 DEF OpRows
  <1> HIDE DEF e
  <1>3. p = [q EXCEPT ![i] = e]
    BY DEF e
  <1>4. /\ p \in Seq(OpRows(S)) /\ DOMAIN p = DOMAIN q /\ p[i] = e
        /\ \A j \in DOMAIN q \ {i} : p[j] = q[j]
    BY <1>2, <1>3, RowSet
  <1> QED
    BY <1>2, <1>4

LEMMA CmdStatusSet ==
    ASSUME NEW q \in Seq(CmdRows), NEW i \in DOMAIN q,
           NEW x \in {"queued", "claimed", "completed", "failed"},
           NEW p, p = [q EXCEPT ![i].status = x]
    PROVE  /\ p \in Seq(CmdRows) /\ DOMAIN p = DOMAIN q /\ p[i].status = x
           /\ \A j \in DOMAIN q \ {i} : p[j] = q[j]
           /\ \A j \in DOMAIN q : /\ p[j].node = q[j].node /\ p[j].box = q[j].box
                                  /\ p[j].state = q[j].state /\ p[j].settings = q[j].settings
  <1> DEFINE e == [q[i] EXCEPT !.status = x]
  <1>1. q[i] \in CmdRows
    BY SeqShape
  <1>2. /\ e \in CmdRows /\ e.status = x /\ e.node = q[i].node /\ e.box = q[i].box
        /\ e.state = q[i].state /\ e.settings = q[i].settings
    BY <1>1 DEF CmdRows
  <1> HIDE DEF e
  <1>3. p = [q EXCEPT ![i] = e]
    BY DEF e
  <1>4. /\ p \in Seq(CmdRows) /\ DOMAIN p = DOMAIN q /\ p[i] = e
        /\ \A j \in DOMAIN q \ {i} : p[j] = q[j]
    BY <1>2, <1>3, RowSet
  <1> QED
    BY <1>2, <1>4

\* A snapshot whose status or archive changes stays one of its node.
SameSnaps(q, p) == DOMAIN q \subseteq DOMAIN p /\ \A j \in DOMAIN q : p[j].node = q[j].node

LEMMA SnapSet ==
    ASSUME NEW q \in Seq(SnapRows), NEW i, NEW p,
           \/ \E x \in {"creating", "ready", "deleting", "deleted", "failed"} : p = [q EXCEPT ![i].status = x]
           \/ \E x \in BOOLEAN : p = [q EXCEPT ![i].stored = x]
    PROVE  p \in Seq(SnapRows) /\ DOMAIN p = DOMAIN q /\ SameSnaps(q, p)
  <1>1. PICK e : /\ p = [q EXCEPT ![i] = e]
                 /\ i \in DOMAIN q => e \in SnapRows /\ e.node = q[i].node
    <2>1. CASE \E x \in {"creating", "ready", "deleting", "deleted", "failed"} : p = [q EXCEPT ![i].status = x]
      <3>1. PICK x \in {"creating", "ready", "deleting", "deleted", "failed"} : p = [q EXCEPT ![i].status = x]
        BY <2>1
      <3> DEFINE e == [q[i] EXCEPT !.status = x]
      <3>2. i \in DOMAIN q => q[i] \in SnapRows
        BY SeqShape
      <3>3. i \in DOMAIN q => e \in SnapRows /\ e.node = q[i].node
        BY <3>2 DEF SnapRows
      <3>4. p = [q EXCEPT ![i] = e]
        BY <3>1
      <3> QED
        BY <3>3, <3>4
    <2>2. CASE \E x \in BOOLEAN : p = [q EXCEPT ![i].stored = x]
      <3>1. PICK x \in BOOLEAN : p = [q EXCEPT ![i].stored = x]
        BY <2>2
      <3> DEFINE e == [q[i] EXCEPT !.stored = x]
      <3>2. i \in DOMAIN q => q[i] \in SnapRows
        BY SeqShape
      <3>3. i \in DOMAIN q => e \in SnapRows /\ e.node = q[i].node
        BY <3>2 DEF SnapRows
      <3>4. p = [q EXCEPT ![i] = e]
        BY <3>1
      <3> QED
        BY <3>3, <3>4
    <2> QED
      BY <2>1, <2>2
  <1>2. CASE i \in DOMAIN q
    <2>1. /\ p \in Seq(SnapRows) /\ DOMAIN p = DOMAIN q /\ p[i] = e
          /\ \A j \in DOMAIN q \ {i} : p[j] = q[j]
      BY <1>1, <1>2, RowSet
    <2> QED
      BY <1>1, <1>2, <2>1 DEF SameSnaps
  <1>3. CASE i \notin DOMAIN q
    <2>1. p = [j \in DOMAIN q |-> q[j]]
      BY <1>1, <1>3
    <2>2. q = [j \in DOMAIN q |-> q[j]]
      BY SeqShape, SeqDef
    <2> QED
      BY <2>1, <2>2 DEF SameSnaps
  <1> QED
    BY <1>2, <1>3

-----------------------------------------------------------------------------
(* What a request, an agent and the rows hold.                             *)

LEMMA CallerShape ==
    ASSUME FleetTyped, NEW t \in Callers
    PROVE  /\ caller[t].at = "box" => caller[t] \in BoxCalls
           /\ caller[t].at \in {"approved", "rejected"} => caller[t] \in Verdicts
           /\ caller[t].at = "failover" => caller[t] \in Failovers
           /\ caller[t].at = "moving" => caller[t] \in Moves
  <1>1. caller[t] \in {Fleet!Idle} \cup BoxCalls \cup Verdicts \cup Failovers \cup Moves
    BY DEF FleetTyped
  <1>2. /\ Fleet!Idle.at = "idle" /\ (\A c \in BoxCalls : c.at = "box")
        /\ (\A c \in Verdicts : c.at \in {"approved", "rejected"}) /\ (\A c \in Failovers : c.at = "failover")
        /\ (\A c \in Moves : c.at = "moving")
    BY DEF Fleet!Idle, BoxCalls, Verdicts, Failovers, Moves
  <1> QED
    BY <1>1, <1>2

LEMMA BoxCallShape ==
    ASSUME NEW c \in BoxCalls
    PROVE  /\ c.box \in Boxes /\ c.row \in BoxRows /\ c.alone \in BOOLEAN
           /\ \/ c.column = "settings" /\ c.value \in Nat
              \/ c.column = "status" /\ c.value \in {"active", "suspended", "archived"}
  BY DEF BoxCalls

LEMMA AgentShape ==
    ASSUME FleetTyped, NEW n \in Nodes
    PROVE  /\ agent[n].at \in {"op", "cmd", "waiting"} => agent[n] \in Works
           /\ agent[n] = Fleet!Idle => agent[n].at = "idle"
  <1>1. agent[n] \in {Fleet!Idle} \cup Works
    BY DEF FleetTyped
  <1>2. /\ Fleet!Idle.at = "idle" /\ (\A c \in Works : c.at \in {"op", "cmd", "waiting"})
    BY DEF Fleet!Idle, Works
  <1> QED
    BY <1>1, <1>2

LEMMA MoveShape ==
    ASSUME NEW c \in Moves
    PROVE  /\ c.node \in Nodes /\ c.i \in Nat /\ c.alone \in BOOLEAN /\ DOMAIN c.moved \subseteq Boxes
           /\ \A b \in DOMAIN c.moved : c.moved[b] \in BoxRows
  <1>1. PICK B \in SUBSET Boxes : c.moved \in [B -> BoxRows]
    BY DEF Moves
  <1>2. c.node \in Nodes /\ c.i \in Nat /\ c.alone \in BOOLEAN
    BY DEF Moves
  <1> QED
    BY <1>1, <1>2

\* The requests that move mailboxes name some.
LEMMA MovingBoxes ==
    ASSUME FleetTyped, NEW t \in Callers, caller[t].at = "moving"
    PROVE  caller[t].node \in Nodes /\ DOMAIN caller[t].moved \subseteq Boxes
  BY CallerShape, MoveShape

LEMMA FailoverShape ==
    ASSUME FleetTyped, NEW t \in Callers, caller[t].at = "failover"
    PROVE  /\ caller[t].source \in Nodes /\ caller[t].target \in Nodes /\ caller[t].snap \in Nat
           /\ caller[t].use # Fleet!Idle => caller[t].use \in Uses /\ caller[t].use.id \in Approvals
  <1>1. caller[t] \in Failovers
    BY CallerShape
  <1>2. \A u \in Uses : u.id \in Approvals
    BY DEF Uses
  <1> QED
    BY <1>1, <1>2 DEF Failovers

LEMMA OpShape ==
    ASSUME FleetTyped
    PROVE  /\ Len(ops) \in Nat /\ DOMAIN ops = 1..Len(ops)
           /\ \A i \in DOMAIN ops : /\ ops[i].node \in Nodes /\ ops[i].source \in Nodes
                                    /\ ops[i].kind \in {"backup", "restore", "delete"}
                                    /\ ops[i].approval # Fleet!Idle => ops[i].approval.id \in Approvals
  <1>1. PICK S : ops \in Seq(OpRows(Nat \cup S))
    BY DEF FleetTyped
  <1>2. Len(ops) \in Nat /\ DOMAIN ops = 1..Len(ops) /\ \A i \in DOMAIN ops : ops[i] \in OpRows(Nat \cup S)
    BY <1>1, SeqShape
  <1>3. \A i \in DOMAIN ops : /\ ops[i].node \in Nodes /\ ops[i].source \in Nodes
                              /\ ops[i].kind \in {"backup", "restore", "delete"}
                              /\ ops[i].approval \in {Fleet!Idle} \cup Uses
    BY <1>2 DEF OpRows
  <1>4. \A u \in Uses : u.id \in Approvals
    BY DEF Uses
  <1> QED
    BY <1>2, <1>3, <1>4

LEMMA IdleShape == Fleet!Idle.at = "idle"
  BY DEF Fleet!Idle

\* Rows of operations stay but for their status.
SameOp(p, q) ==
    p.node = q.node /\ p.kind = q.kind /\ p.snap = q.snap /\ p.source = q.source /\ p.approval = q.approval
SameOps ==
    /\ DOMAIN ops \subseteq DOMAIN ops' /\ \A i \in DOMAIN ops : SameOp(ops'[i], ops[i])
    /\ \A i \in DOMAIN ops : ops[i].status # "queued" => ops'[i].status # "queued"

LEMMA SnapsKept ==
    ASSUME SameSnaps(snaps, snaps'), NEW m, NEW s, SnapOf(m, s)
    PROVE  SnapOf(m, s)'
  BY DEF SnapOf, SameSnaps

\* Approvals and requests as before, but for requests that have ended: what they say stays.
LEMMA VerdictsKept ==
    ASSUME VerdictsSound, UNCHANGED approval,
           \A t \in Callers : caller'[t].at \in {"approved", "rejected"} => caller'[t] = caller[t]
    PROVE  VerdictsSound'
  BY DEF VerdictsSound

LEMMA FailoversKept ==
    ASSUME FailoversSound, SameSnaps(snaps, snaps'), UNCHANGED approval,
           \A t \in Callers : caller'[t].at = "failover" => caller'[t] = caller[t]
    PROVE  FailoversSound'
  <1>1. \A t \in Callers, a \in Approvals : Reads(t, a)' => Reads(t, a) /\ caller'[t] = caller[t]
    BY DEF Reads
  <1>2. \A t \in Callers : caller'[t].at = "failover" =>
          /\ SnapOf(caller[t].source, caller[t].snap)'
          /\ caller'[t].use = Fleet!Idle => FALSE \in DualControl
    <2>1. ASSUME NEW t \in Callers, caller'[t].at = "failover"
          PROVE  /\ SnapOf(caller'[t].source, caller'[t].snap)
                 /\ caller'[t].use = Fleet!Idle => FALSE \in DualControl
      BY <2>1 DEF FailoversSound
    <2> QED
      BY <2>1 DEF SnapOf, SameSnaps
  <1>3. \A t \in Callers, a \in Approvals : Reads(t, a)' =>
          /\ Grants(caller'[t].use.row, caller'[t].source, caller'[t].target, caller'[t].snap)
          /\ approval'[a].status # "none" /\ (approval'[a].consumed => approval'[a].raced)
    BY <1>1 DEF FailoversSound
  <1>4. \A t, u \in Callers, a \in Approvals : Reads(t, a)' /\ Reads(u, a)' /\ t # u => approval'[a].raced
    BY <1>1 DEF FailoversSound
  <1> QED
    BY <1>2, <1>3, <1>4 DEF FailoversSound, Grants

\* Rows of operations that are added are no restores and have no approval.
RestoresKnown == \A i \in DOMAIN ops' : i \in DOMAIN ops \/ (ops'[i].kind # "restore" /\ ops'[i].approval = Fleet!Idle)

LEMMA RestoresKept ==
    ASSUME RestoresSound, SameSnaps(snaps, snaps'), SameOps, UNCHANGED approval, RestoresKnown
    PROVE  RestoresSound'
  <1>1. \A i \in DOMAIN ops' : IsRestore(i)' => i \in DOMAIN ops /\ IsRestore(i) /\ SameOp(ops'[i], ops[i])
    BY DEF IsRestore, SameOps, SameOp, RestoresKnown
  <1>2. \A i \in DOMAIN ops', a \in Approvals : Has(i, a)' => i \in DOMAIN ops /\ Has(i, a) /\ SameOp(ops'[i], ops[i])
    BY DEF Has, SameOps, SameOp, RestoresKnown
  <1>3. ASSUME NEW i \in DOMAIN ops', IsRestore(i)'
        PROVE  SnapOf(ops[i].source, ops[i].snap)' /\ (ops'[i].approval = Fleet!Idle => FALSE \in DualControl)
    <2>1. i \in DOMAIN ops /\ IsRestore(i) /\ SameOp(ops'[i], ops[i])
      BY <1>1, <1>3
    <2>2. SnapOf(ops[i].source, ops[i].snap) /\ (ops[i].approval = Fleet!Idle => FALSE \in DualControl)
      BY <2>1 DEF RestoresSound
    <2> QED
      BY <2>1, <2>2 DEF SnapOf, SameSnaps, SameOp
  <1>4. ASSUME NEW i \in DOMAIN ops', NEW a \in Approvals, Has(i, a)'
        PROVE  /\ Grants(ops'[i].approval.row, ops'[i].source, ops'[i].node, ops'[i].snap)
               /\ approval'[a].status # "none" /\ approval'[a].consumed
    <2>1. i \in DOMAIN ops /\ Has(i, a) /\ SameOp(ops'[i], ops[i])
      BY <1>2, <1>4
    <2> QED
      BY <2>1 DEF RestoresSound, SameOp
  <1>5. \A i, j \in DOMAIN ops', a \in Approvals : Has(i, a)' /\ Has(j, a)' /\ i # j => approval'[a].raced
    BY <1>2 DEF RestoresSound
  <1> QED
    BY <1>3, <1>4, <1>5 DEF RestoresSound, Grants

\* Agent n keeps what it works on.
AgentSound(n) ==
    agent[n].at \in {"op", "waiting"} =>
        /\ agent[n].i \in DOMAIN ops /\ ops[agent[n].i].node = n /\ ops[agent[n].i].status # "queued"
        /\ agent[n].ok /\ ops[agent[n].i].kind = "restore" => storage[n] = ops[agent[n].i].snap

LEMMA AgentsParts == AgentsSound <=> \A n \in Nodes : AgentSound(n)
  BY DEF AgentsSound, AgentSound

LEMMA AgentKept ==
    ASSUME NEW n \in Nodes, AgentSound(n), agent'[n] = agent[n], storage'[n] = storage[n], SameOps
    PROVE  AgentSound(n)'
  <1>1. CASE agent[n].at \in {"op", "waiting"}
    <2>1. /\ SameOp(ops'[agent[n].i], ops[agent[n].i]) /\ agent[n].i \in DOMAIN ops'
          /\ ops'[agent[n].i].status # "queued"
      BY <1>1 DEF SameOps, AgentSound
    <2> QED
      BY <1>1, <2>1 DEF AgentSound, SameOp
  <1>2. CASE agent[n].at \notin {"op", "waiting"}
    BY <1>2 DEF AgentSound
  <1> QED
    BY <1>1, <1>2

\* Agents stay as they are or turn to something else than an operation.
LEMMA AgentsKept ==
    ASSUME AgentsSound, SameOps, \A n \in Nodes : agent'[n].at \in {"op", "waiting"} => agent'[n] = agent[n],
           UNCHANGED storage
    PROVE  AgentsSound'
  <1>1. ASSUME NEW n \in Nodes PROVE AgentSound(n)'
    <2>1. AgentSound(n)
      BY AgentsParts
    <2>2. CASE agent'[n] = agent[n]
      BY <2>1, <2>2, AgentKept
    <2>3. CASE agent'[n] # agent[n]
      BY <2>3 DEF AgentSound
    <2> QED
      BY <2>2, <2>3
  <1> QED
    BY <1>1 DEF AgentsSound, AgentSound

\* Completion t is as it was, and so is what it knows of its operation and of the agent.
ReportSound(t) ==
    caller[t].at = "moving" =>
        /\ caller[t].i \in DOMAIN ops
        /\ ops[caller[t].i].node = caller[t].node /\ ops[caller[t].i].kind = "restore"
        /\ ops[caller[t].i].status # "queued"
        /\ \A b \in DOMAIN caller[t].moved : caller[t].moved[b].node = ops[caller[t].i].source
        /\ agent[caller[t].node].at \in {"op", "waiting"} /\ agent[caller[t].node].i = caller[t].i =>
              agent[caller[t].node].at = "waiting" /\ agent[caller[t].node].ok

LEMMA ReportsParts == ReportsSound <=> \A t \in Callers : ReportSound(t)
  BY DEF ReportsSound, ReportSound

LEMMA ReportKept ==
    ASSUME NEW t \in Callers, ReportSound(t), SameOps,
           caller'[t].at = "moving" =>
              /\ caller[t].at = "moving" /\ caller'[t].node = caller[t].node /\ caller'[t].i = caller[t].i
              /\ caller'[t].moved = caller[t].moved
              /\ agent'[caller[t].node].at \in {"op", "waiting"} /\ agent'[caller[t].node].i = caller[t].i =>
                    agent'[caller[t].node] = agent[caller[t].node]
    PROVE  ReportSound(t)'
  <1>1. CASE caller'[t].at = "moving"
    <2>1. /\ caller[t].i \in DOMAIN ops' /\ SameOp(ops'[caller[t].i], ops[caller[t].i])
          /\ ops'[caller[t].i].status # "queued"
      BY <1>1 DEF ReportSound, SameOps
    <2> QED
      BY <1>1, <2>1 DEF ReportSound, SameOp
  <1>2. CASE caller'[t].at # "moving"
    BY <1>2 DEF ReportSound
  <1> QED
    BY <1>1, <1>2

LEMMA ReportsKept ==
    ASSUME ReportsSound, FleetTyped, SameOps,
           \A t \in Callers : caller'[t].at = "moving" =>
              /\ caller[t].at = "moving" /\ caller'[t].node = caller[t].node /\ caller'[t].i = caller[t].i
              /\ caller'[t].moved = caller[t].moved,
           \A n \in Nodes : agent'[n].at \in {"op", "waiting"} => agent'[n] = agent[n]
    PROVE  ReportsSound'
  <1>1. ASSUME NEW t \in Callers PROVE ReportSound(t)'
    <2>1. ReportSound(t)
      BY ReportsParts
    <2>2. caller[t].at = "moving" => caller[t].node \in Nodes
      BY MovingBoxes
    <2> QED
      BY <2>1, <2>2, ReportKept
  <1> QED
    BY <1>1 DEF ReportsSound, ReportSound

LEMMA SameRows ==
    ASSUME ops' = ops
    PROVE  SameOps /\ RestoresKnown
  BY DEF SameOps, SameOp, RestoresKnown

LEMMA SameShots ==
    ASSUME snaps' = snaps
    PROVE  SameSnaps(snaps, snaps')
  BY DEF SameSnaps

LEMMA AgentIdle ==
    ASSUME NEW n \in Nodes, agent'[n] = Fleet!Idle
    PROVE  AgentSound(n)'
  BY IdleShape DEF AgentSound

-----------------------------------------------------------------------------
(* Nodes, heartbeats and backups.                                          *)

LEMMA NodeStepKeeps ==
    ASSUME MoveInv, UNCHANGED <<box, snaps, ops, cmds, approval, agent, storage, files, caller, alone>>
    PROVE  MoveInv'
  <1>1. FleetTyped'
    BY DEF MoveInv, FleetTyped
  <1>2. BoxesSound'
    BY DEF MoveInv, BoxesSound
  <1>3. VerdictsSound' /\ FailoversSound'
    BY SameShots, VerdictsKept, FailoversKept DEF MoveInv
  <1>4. RestoresSound'
    BY SameRows, SameShots, RestoresKept DEF MoveInv
  <1>5. AgentsSound' /\ ReportsSound'
    BY DEF MoveInv, AgentsSound, ReportsSound
  <1> QED
    BY <1>1, <1>2, <1>3, <1>4, <1>5 DEF MoveInv

LEMMA BackupKeeps ==
    ASSUME MoveInv, NEW n \in Nodes, snaps' = Fleet!WithSnapshot(n),
           ops' = Append(ops, Fleet!Operation(n, "backup", Len(snaps) + 1)),
           UNCHANGED <<box, cmds, approval, agent, storage, files, caller, alone>>
    PROVE  MoveInv'
  <1>1. PICK S : ops \in Seq(OpRows(Nat \cup S))
    BY DEF MoveInv, FleetTyped
  <1>2. snaps \in Seq(SnapRows) /\ Len(snaps) \in Nat
    BY SeqShape DEF MoveInv, FleetTyped
  <1>3. PICK o : o = Fleet!Operation(n, "backup", Len(snaps) + 1)
    OBVIOUS
  <1>4. o \in OpRows(Nat \cup S) /\ o.kind = "backup" /\ o.approval = Fleet!Idle
    BY <1>2, <1>3 DEF OpRows, Fleet!Operation
  <1>5. PICK s : s = [node |-> n, status |-> "creating", stored |-> FALSE]
    OBVIOUS
  <1>6. s \in SnapRows
    BY <1>5 DEF SnapRows
  <1>7. snaps' = Append(snaps, s) /\ ops' = Append(ops, o)
    BY <1>3, <1>5 DEF Fleet!WithSnapshot
  <1>8. snaps' \in Seq(SnapRows) /\ SameSnaps(snaps, snaps')
    BY <1>2, <1>6, <1>7, Appended DEF SameSnaps
  <1>9. /\ ops' \in Seq(OpRows(Nat \cup S)) /\ DOMAIN ops \subseteq DOMAIN ops'
        /\ \A i \in DOMAIN ops : ops'[i] = ops[i]
        /\ \A i \in DOMAIN ops' : i \in DOMAIN ops \/ ops'[i] = o
    BY <1>1, <1>4, <1>7, Appended
  <1>10. SameOps /\ RestoresKnown
    BY <1>4, <1>9 DEF SameOps, SameOp, RestoresKnown
  <1>11. FleetTyped'
    BY <1>8, <1>9 DEF MoveInv, FleetTyped
  <1>12. BoxesSound'
    BY DEF MoveInv, BoxesSound
  <1>13. VerdictsSound' /\ FailoversSound'
    BY <1>8, VerdictsKept, FailoversKept DEF MoveInv
  <1>14. RestoresSound'
    BY <1>8, <1>10, RestoresKept DEF MoveInv
  <1>15. AgentsSound' /\ ReportsSound'
    BY <1>9, <1>10, AgentsKept, ReportsKept DEF MoveInv
  <1> QED
    BY <1>11, <1>12, <1>13, <1>14, <1>15 DEF MoveInv

-----------------------------------------------------------------------------
(* Mailboxes.                                                              *)

LEMMA CreateMailboxKeeps ==
    ASSUME MoveInv, NEW b \in Boxes, NEW n \in Nodes, Fleet!CreateMailbox(b, n)
    PROVE  MoveInv'
  <1>1. PICK r : r = [node |-> n, status |-> "active", settings |-> 1]
    OBVIOUS
  <1>2. r \in BoxRows /\ r.status # "none" /\ r.status = "active" /\ r.settings = 1
    BY <1>1 DEF BoxRows
  <1>3. box' = [box EXCEPT ![b] = r] /\ box[b].status = "none"
    BY <1>1 DEF Fleet!CreateMailbox
  <1>4. box' \in [Boxes -> BoxRows] /\ box'[b] = r /\ \A c \in Boxes \ {b} : box'[c] = box[c]
    BY <1>2, <1>3 DEF MoveInv, FleetTyped
  <1>5. PICK e : e = Fleet!Sync(n, b, r)
    OBVIOUS
  <1>6. e \in CmdRows
    BY <1>2, <1>5 DEF CmdRows, Fleet!Sync
  <1>7. cmds' = Append(cmds, e)
    BY <1>4, <1>5 DEF Fleet!CreateMailbox
  <1>8. cmds' \in Seq(CmdRows)
    BY <1>6, <1>7, Appended DEF MoveInv, FleetTyped
  <1>9. UNCHANGED <<snaps, ops, approval, agent, storage, files, caller, alone>>
    BY DEF Fleet!CreateMailbox, Fleet!nodeSide
  <1>10. FleetTyped'
    BY <1>4, <1>8, <1>9 DEF MoveInv, FleetTyped
  <1>11. BoxesSound'
    <2>1. \A c \in Boxes : box[c].status # "none" => box'[c].status # "none"
      BY <1>2, <1>4
    <2>2. \A c \in Boxes : box'[c].status = "none" <=> box'[c].node = NoNode
      BY <1>1, <1>2, <1>4, FleetAssumption DEF MoveInv, BoxesSound
    <2>3. \A t \in Callers : caller[t].at = "box" => caller[t].box \in Boxes
      BY CallerShape, BoxCallShape DEF MoveInv
    <2>4. \A t \in Callers : caller[t].at = "moving" => DOMAIN caller[t].moved \subseteq Boxes
      BY MovingBoxes DEF MoveInv
    <2> QED
      BY <1>9, <2>1, <2>2, <2>3, <2>4 DEF MoveInv, BoxesSound
  <1>12. VerdictsSound' /\ FailoversSound'
    BY <1>9, SameShots, VerdictsKept, FailoversKept DEF MoveInv
  <1>13. RestoresSound'
    BY <1>9, SameRows, SameShots, RestoresKept DEF MoveInv
  <1>14. AgentsSound' /\ ReportsSound'
    BY <1>9 DEF MoveInv, AgentsSound, ReportsSound
  <1> QED
    BY <1>10, <1>11, <1>12, <1>13, <1>14 DEF MoveInv

\* A mailbox that exists stays, and so does what requests know of theirs.
LEMMA BoxesKept ==
    ASSUME FleetTyped, BoxesSound,
           \A c \in Boxes : box[c].status # "none" => box'[c].status # "none",
           \A c \in Boxes : box'[c].status = "none" <=> box'[c].node = NoNode,
           \A u \in Callers : caller'[u].at = "box" =>
              caller[u].at = "box" /\ caller'[u].box = caller[u].box /\ caller'[u].row = caller[u].row,
           \A u \in Callers : caller'[u].at = "moving" => caller[u].at = "moving" /\ caller'[u].moved = caller[u].moved
    PROVE  BoxesSound'
  <1>1. \A u \in Callers : caller[u].at = "box" => caller[u].box \in Boxes
    BY CallerShape, BoxCallShape
  <1>2. \A u \in Callers : caller[u].at = "moving" => DOMAIN caller[u].moved \subseteq Boxes
    BY MovingBoxes
  <1>3. \A u \in Callers : caller'[u].at = "box" =>
           /\ box'[caller'[u].box].status # "none" /\ caller'[u].row.status # "none" /\ caller'[u].row.node \in Nodes
    BY <1>1 DEF BoxesSound
  <1>4. \A u \in Callers : caller'[u].at = "moving" => \A c \in DOMAIN caller'[u].moved :
           box'[c].status # "none" /\ caller'[u].moved[c].status # "none"
    BY <1>2 DEF BoxesSound
  <1> QED
    BY <1>3, <1>4 DEF BoxesSound

LEMMA CallMarked ==
    ASSUME NEW c \in BoxCalls, NEW d, d = [c EXCEPT !.alone = FALSE]
    PROVE  /\ d \in BoxCalls /\ c.at = "box" /\ d.at = "box" /\ d.box = c.box /\ d.row = c.row
           /\ d.column = c.column /\ d.value = c.value /\ d.alone = FALSE
  BY DEF BoxCalls

LEMMA MoveMarked ==
    ASSUME NEW c \in Moves, NEW d, d = [c EXCEPT !.alone = FALSE]
    PROVE  /\ d \in Moves /\ c.at = "moving" /\ d.at = "moving" /\ d.node = c.node /\ d.i = c.i
           /\ d.moved = c.moved /\ d.alone = FALSE
  BY DEF Moves

\* A request of any kind, or none.
Calls == {Fleet!Idle} \cup BoxCalls \cup Verdicts \cup Failovers \cup Moves

\* The request is as it was, or one that knows it is not alone.
KeptCall(d, c) == d = c \/ (c \in BoxCalls \cup Moves /\ d = [c EXCEPT !.alone = FALSE])

\* What a request is at stays, and what it has loaded.
SameCall(d, c) ==
    /\ d.at = c.at
    /\ d.at \notin {"box", "moving"} => d = c
    /\ d.at = "box" => d.box = c.box /\ d.row = c.row
    /\ d.at = "moving" => d.node = c.node /\ d.i = c.i /\ d.moved = c.moved

LEMMA KeptCallShape ==
    ASSUME NEW c \in Calls, NEW d, KeptCall(d, c)
    PROVE  d \in Calls /\ SameCall(d, c)
  <1>1. CASE d = c
    BY <1>1 DEF SameCall
  <1>2. CASE c \in BoxCalls /\ d = [c EXCEPT !.alone = FALSE]
    BY <1>2, CallMarked DEF SameCall, Calls
  <1>3. CASE c \in Moves /\ d = [c EXCEPT !.alone = FALSE]
    BY <1>3, MoveMarked DEF SameCall, Calls
  <1> QED
    BY <1>1, <1>2, <1>3 DEF KeptCall

\* Request t begins; the others go on, and some learn that they are not alone.
Begins(t) ==
    /\ DOMAIN caller' = Callers /\ caller' = [u \in Callers |-> caller'[u]]
    /\ caller[t].at = "idle" /\ caller'[t] \in Calls
    /\ \A u \in Callers \ {t} : KeptCall(caller'[u], caller[u])

LEMMA BeginsShape ==
    ASSUME FleetTyped, NEW t \in Callers, Begins(t)
    PROVE  /\ caller' \in [Callers -> Calls]
           /\ \A u \in Callers \ {t} : SameCall(caller'[u], caller[u])
  <1>1. \A u \in Callers \ {t} : caller'[u] \in Calls /\ SameCall(caller'[u], caller[u])
    BY KeptCallShape DEF FleetTyped, Begins, Calls
  <1>2. \A u \in Callers : caller'[u] \in Calls
    BY <1>1 DEF Begins
  <1> QED
    BY <1>1, <1>2 DEF Begins

LEMMA BeginEffect ==
    ASSUME FleetTyped, NEW t \in Callers, NEW b \in Boxes, NEW column, NEW value,
           \/ column = "settings" /\ value \in Nat
           \/ column = "status" /\ value \in {"active", "suspended", "archived"},
           Fleet!ChangeBegin(t, b, column, value)
    PROVE  /\ box[b].status # "none" /\ Begins(t)
           /\ caller'[t] \in BoxCalls /\ caller'[t].at = "box" /\ caller'[t].box = b /\ caller'[t].row = box[b]
           /\ caller'[t].alone => Fleet!Changing(b) = {} /\ Fleet!Moving(b) = {}
           /\ \A u \in Callers \ {t} : u \in Fleet!Changing(b) \cup Fleet!Moving(b) =>
                 caller'[u] = [caller[u] EXCEPT !.alone = FALSE]
           /\ UNCHANGED <<box, snaps, ops, cmds, approval, agent, storage, files, alone>>
  <1>1. PICK lonely : lonely = (Fleet!Changing(b) \cup Fleet!Moving(b) = {})
    OBVIOUS
  <1>2. lonely \in BOOLEAN
    BY <1>1
  <1>3. PICK c : c = [at |-> "box", box |-> b, row |-> box[b], column |-> column, value |-> value, alone |-> lonely]
    OBVIOUS
  <1>4. c \in BoxCalls /\ c.at = "box" /\ c.box = b /\ c.row = box[b] /\ c.alone = lonely
    BY <1>2, <1>3 DEF FleetTyped, BoxCalls
  <1>5. caller' = [u \in Callers |->
                  IF u = t THEN c
                  ELSE IF u \in Fleet!Changing(b) \cup Fleet!Moving(b) THEN [caller[u] EXCEPT !.alone = FALSE]
                  ELSE caller[u]]
    BY <1>1, <1>3 DEF Fleet!ChangeBegin
  <1>6. \A u \in Fleet!Changing(b) \cup Fleet!Moving(b) : u \in Callers /\ caller[u] \in BoxCalls \cup Moves
    BY CallerShape DEF Fleet!Changing, Fleet!Moving
  <1>7. box[b].status # "none" /\ caller[t].at = "idle"
    BY IdleShape DEF Fleet!ChangeBegin
  <1>8. UNCHANGED <<box, snaps, ops, cmds, approval, agent, storage, files, alone>>
    BY DEF Fleet!ChangeBegin, Fleet!rows, Fleet!nodeSide
  <1>9. /\ \A u \in Callers \ {t} : KeptCall(caller'[u], caller[u])
        /\ \A u \in Callers \ {t} : u \in Fleet!Changing(b) \cup Fleet!Moving(b) =>
              caller'[u] = [caller[u] EXCEPT !.alone = FALSE]
    BY <1>5, <1>6 DEF KeptCall
  <1>10. caller'[t] = c /\ DOMAIN caller' = Callers
    BY <1>5
  <1>11. caller' = [u \in Callers |-> caller'[u]]
    BY <1>5
  <1>12. Begins(t)
    BY <1>4, <1>7, <1>9, <1>10, <1>11 DEF Begins, Calls
  <1>13. c.alone => Fleet!Changing(b) = {} /\ Fleet!Moving(b) = {}
    BY <1>1, <1>4
  <1> QED
    BY <1>4, <1>7, <1>8, <1>9, <1>10, <1>12, <1>13

LEMMA ChangeBeginKeeps ==
    ASSUME MoveInv, NEW t \in Callers, NEW b \in Boxes, NEW column, NEW value,
           \/ column = "settings" /\ value \in Nat
           \/ column = "status" /\ value \in {"active", "suspended", "archived"},
           Fleet!ChangeBegin(t, b, column, value)
    PROVE  MoveInv'
  <1>1. FleetTyped
    BY DEF MoveInv
  <1>2. /\ box[b].status # "none" /\ Begins(t)
        /\ caller'[t] \in BoxCalls /\ caller'[t].at = "box" /\ caller'[t].box = b /\ caller'[t].row = box[b]
        /\ UNCHANGED <<box, snaps, ops, cmds, approval, agent, storage, files, alone>>
    BY <1>1, BeginEffect
  <1>3. caller' \in [Callers -> Calls] /\ \A u \in Callers \ {t} : SameCall(caller'[u], caller[u])
    BY <1>1, <1>2, BeginsShape
  <1>4. FleetTyped'
    BY <1>1, <1>2, <1>3 DEF FleetTyped, Calls
  <1>5. BoxesSound'
    <2>1. \A u \in Callers \ {t} : caller'[u].at = "box" =>
           /\ box[caller'[u].box].status # "none" /\ caller'[u].row.status # "none" /\ caller'[u].row.node \in Nodes
      BY <1>3 DEF MoveInv, BoxesSound, SameCall
    <2>2. box[b].node \in Nodes
      BY <1>1, <1>2 DEF FleetTyped, MoveInv, BoxesSound, BoxRows
    <2>3. \A u \in Callers : caller'[u].at = "moving" => \A c \in DOMAIN caller'[u].moved :
             box[c].status # "none" /\ caller'[u].moved[c].status # "none"
      BY <1>2, <1>3 DEF MoveInv, BoxesSound, SameCall
    <2> QED
      BY <1>2, <2>1, <2>2, <2>3 DEF MoveInv, BoxesSound
  <1>6. \A u \in Callers : /\ caller'[u].at \in {"approved", "rejected", "failover"} => caller'[u] = caller[u]
                           /\ caller'[u].at = "moving" => u # t
    BY <1>2, <1>3 DEF SameCall
  <1>7. VerdictsSound' /\ FailoversSound'
    BY <1>2, <1>6, SameShots, VerdictsKept, FailoversKept DEF MoveInv
  <1>8. RestoresSound'
    BY <1>2, SameRows, SameShots, RestoresKept DEF MoveInv
  <1>9. AgentsSound' /\ ReportsSound'
    <2>1. AgentsSound'
      BY <1>2 DEF MoveInv, AgentsSound
    <2>2. \A u \in Callers : caller'[u].at = "moving" =>
             /\ caller[u].at = "moving" /\ caller'[u].node = caller[u].node /\ caller'[u].i = caller[u].i
             /\ caller'[u].moved = caller[u].moved
      BY <1>3, <1>6 DEF SameCall
    <2> QED
      BY <1>1, <1>2, <2>1, <2>2, SameRows, ReportsKept DEF MoveInv
  <1> QED
    BY <1>4, <1>5, <1>7, <1>8, <1>9 DEF MoveInv

\* The row with the column written.
LEMMA ColumnWritten ==
    ASSUME NEW c \in BoxCalls, NEW r \in BoxRows, r.status # "none", NEW w, w = [r EXCEPT ![c.column] = c.value]
    PROVE  w \in BoxRows /\ w.node = r.node /\ w.status # "none"
  <1>1. CASE c.column = "settings" /\ c.value \in Nat
    <2>1. w = [r EXCEPT !.settings = c.value]
      BY <1>1
    <2> QED
      BY <1>1, <2>1 DEF BoxRows
  <1>2. CASE c.column = "status" /\ c.value \in {"active", "suspended", "archived"}
    <2>1. w = [r EXCEPT !.status = c.value]
      BY <1>2
    <2> QED
      BY <1>2, <2>1 DEF BoxRows
  <1> QED
    BY <1>1, <1>2, BoxCallShape

LEMMA ChangeCommitEffect ==
    ASSUME MoveInv, NEW t \in Callers, Fleet!ChangeCommit(t)
    PROVE  \E r \in BoxCalls, w \in BoxRows, e \in CmdRows :
             /\ r = caller[t] /\ r.at = "box" /\ r.row \in BoxRows
             /\ w = [box[r.box] EXCEPT ![r.column] = r.value] /\ w.node = box[r.box].node /\ w.status # "none"
             /\ e = Fleet!Sync(r.row.node, r.box, [r.row EXCEPT ![r.column] = r.value])
             /\ box' \in [Boxes -> BoxRows] /\ box'[r.box] = w /\ \A b \in Boxes \ {r.box} : box'[b] = box[b]
             /\ cmds' = Append(cmds, e)
             /\ alone' = [alone EXCEPT ![r.box] = r.alone]
             /\ caller' = [caller EXCEPT ![t] = Fleet!Idle]
             /\ UNCHANGED <<snaps, ops, approval, agent, storage, files>>
  <1>1. PICK r : r = caller[t]
    OBVIOUS
  <1>2. r.at = "box" /\ r \in BoxCalls
    BY <1>1, CallerShape DEF MoveInv, Fleet!ChangeCommit
  <1>3. r.box \in Boxes /\ r.row \in BoxRows /\ box[r.box].status # "none" /\ r.row.status # "none" /\ r.row.node \in Nodes
    BY <1>1, <1>2, BoxCallShape DEF MoveInv, BoxesSound
  <1>4. PICK w : w = [box[r.box] EXCEPT ![r.column] = r.value]
    OBVIOUS
  <1>5. box[r.box] \in BoxRows
    BY <1>3 DEF MoveInv, FleetTyped
  <1>6. w \in BoxRows /\ w.node = box[r.box].node /\ w.status # "none"
    BY <1>2, <1>3, <1>4, <1>5, ColumnWritten
  <1>7. PICK x : x = [r.row EXCEPT ![r.column] = r.value]
    OBVIOUS
  <1>8. x \in BoxRows
    BY <1>2, <1>3, <1>7, ColumnWritten
  <1>9. PICK e : e = Fleet!Sync(r.row.node, r.box, x)
    OBVIOUS
  <1>10. e \in CmdRows
    BY <1>3, <1>8, <1>9 DEF CmdRows, BoxRows, Fleet!Sync
  <1>11. box' = [box EXCEPT ![r.box] = w]
    BY <1>1, <1>4 DEF Fleet!ChangeCommit
  <1>12. box' \in [Boxes -> BoxRows] /\ box'[r.box] = w /\ \A b \in Boxes \ {r.box} : box'[b] = box[b]
    BY <1>3, <1>6, <1>11 DEF MoveInv, FleetTyped
  <1>13. /\ cmds' = Append(cmds, e)
         /\ alone' = [alone EXCEPT ![r.box] = r.alone]
         /\ caller' = [caller EXCEPT ![t] = Fleet!Idle]
         /\ UNCHANGED <<snaps, ops, approval, agent, storage, files>>
    BY <1>1, <1>7, <1>9 DEF Fleet!ChangeCommit, Fleet!nodeSide
  <1>14. e = Fleet!Sync(r.row.node, r.box, [r.row EXCEPT ![r.column] = r.value])
    BY <1>7, <1>9
  <1> QED
    BY <1>1, <1>2, <1>3, <1>4, <1>6, <1>10, <1>12, <1>13, <1>14

\* One request ends: the others stay.
LEMMA CallerEnds ==
    ASSUME FleetTyped, NEW t \in Callers, caller' = [caller EXCEPT ![t] = Fleet!Idle]
    PROVE  /\ caller' \in [Callers -> Calls]
           /\ caller'[t].at = "idle" /\ \A u \in Callers \ {t} : caller'[u] = caller[u]
  BY IdleShape DEF FleetTyped, Calls

LEMMA ChangeCommitKeeps ==
    ASSUME MoveInv, NEW t \in Callers, Fleet!ChangeCommit(t)
    PROVE  MoveInv'
  <1>1. PICK r \in BoxCalls, w \in BoxRows, e \in CmdRows :
             /\ r = caller[t] /\ r.at = "box" /\ r.row \in BoxRows
             /\ w = [box[r.box] EXCEPT ![r.column] = r.value] /\ w.node = box[r.box].node /\ w.status # "none"
             /\ e = Fleet!Sync(r.row.node, r.box, [r.row EXCEPT ![r.column] = r.value])
             /\ box' \in [Boxes -> BoxRows] /\ box'[r.box] = w /\ \A b \in Boxes \ {r.box} : box'[b] = box[b]
             /\ cmds' = Append(cmds, e)
             /\ alone' = [alone EXCEPT ![r.box] = r.alone]
             /\ caller' = [caller EXCEPT ![t] = Fleet!Idle]
             /\ UNCHANGED <<snaps, ops, approval, agent, storage, files>>
    BY ChangeCommitEffect
  <1>2. r.box \in Boxes /\ r.alone \in BOOLEAN /\ box[r.box].status # "none"
    BY <1>1, BoxCallShape DEF MoveInv, BoxesSound
  <1>3. cmds' \in Seq(CmdRows)
    BY <1>1, Appended DEF MoveInv, FleetTyped
  <1>4. /\ caller' \in [Callers -> Calls]
        /\ caller'[t].at = "idle" /\ \A u \in Callers \ {t} : caller'[u] = caller[u]
    BY <1>1, CallerEnds DEF MoveInv
  <1>5. alone' \in [Boxes -> BOOLEAN]
    BY <1>1, <1>2 DEF MoveInv, FleetTyped
  <1>6. FleetTyped'
    BY <1>1, <1>3, <1>4, <1>5 DEF MoveInv, FleetTyped, Calls
  <1>7. \A u \in Callers : caller'[u].at # "idle" => caller'[u] = caller[u]
    BY <1>4
  <1>8. BoxesSound'
    <2>1. \A c \in Boxes : box[c].status # "none" => box'[c].status # "none"
      BY <1>1
    <2>2. \A c \in Boxes : box'[c].status = "none" <=> box'[c].node = NoNode
      <3>1. /\ box'[r.box] = w /\ w.node = box[r.box].node /\ w.status # "none"
            /\ \A b \in Boxes \ {r.box} : box'[b] = box[b]
        BY <1>1
      <3>2. \A c \in Boxes : box[c].status = "none" <=> box[c].node = NoNode
        BY DEF MoveInv, BoxesSound
      <3> QED
        BY <1>2, <3>1, <3>2
    <2> QED
      BY <1>7, <2>1, <2>2, BoxesKept DEF MoveInv
  <1>9. VerdictsSound' /\ FailoversSound'
    BY <1>1, <1>7, SameShots, VerdictsKept, FailoversKept DEF MoveInv
  <1>10. RestoresSound'
    BY <1>1, SameRows, SameShots, RestoresKept DEF MoveInv
  <1>11. AgentsSound' /\ ReportsSound'
    <2>1. AgentsSound'
      BY <1>1 DEF MoveInv, AgentsSound
    <2> QED
      BY <1>1, <1>7, <2>1, SameRows, ReportsKept DEF MoveInv
  <1> QED
    BY <1>6, <1>8, <1>9, <1>10, <1>11 DEF MoveInv

-----------------------------------------------------------------------------
(* Approvals.                                                              *)

LEMMA UsesShape ==
    ASSUME NEW a \in Approvals, NEW g \in GrantRows, NEW u, u = [id |-> a, row |-> g]
    PROVE  u \in Uses /\ u.id = a /\ u.row = g /\ u # Fleet!Idle
  <1>1. u \in Uses /\ u.id = a /\ u.row = g
    BY DEF Uses
  <1>2. "id" \in DOMAIN u /\ "id" \notin DOMAIN Fleet!Idle
    BY DEF Fleet!Idle
  <1> QED
    BY <1>1, <1>2

\* Approvals that exist stay: who asked, that they have been consumed, that they were raced.
ApprovalsKept ==
    \A x \in Approvals : approval[x].status # "none" =>
        /\ approval'[x].status # "none" /\ approval'[x].by = approval[x].by
        /\ approval[x].consumed => approval'[x].consumed
        /\ approval[x].raced => approval'[x].raced

LEMMA VerdictStep ==
    ASSUME FleetTyped, VerdictsSound, ApprovalsKept,
           \A x \in Approvals : approval'[x].status = "approved" => approval'[x].approver \in Owners \ {approval'[x].by},
           \A t \in Callers : caller'[t].at \in {"approved", "rejected"} => caller'[t] = caller[t]
    PROVE  VerdictsSound'
  <1>1. ASSUME NEW t \in Callers, caller'[t].at \in {"approved", "rejected"}
        PROVE  /\ approval'[caller'[t].approval].status # "none"
               /\ caller'[t].at = "approved" => caller'[t].by # approval'[caller'[t].approval].by
    <2>1. caller'[t] = caller[t] /\ caller[t].approval \in Approvals
      BY <1>1, CallerShape DEF Verdicts
    <2> QED
      BY <1>1, <2>1 DEF VerdictsSound, ApprovalsKept
  <1> QED
    BY <1>1 DEF VerdictsSound

LEMMA FailoverStep ==
    ASSUME FailoversSound, ApprovalsKept, SameSnaps(snaps, snaps'),
           \A t \in Callers : caller'[t].at = "failover" => caller'[t] = caller[t],
           \A t \in Callers, x \in Approvals : Reads(t, x)' /\ approval'[x].consumed =>
              approval[x].consumed \/ approval'[x].raced
    PROVE  FailoversSound'
  <1>1. \A t \in Callers, x \in Approvals : Reads(t, x)' => Reads(t, x) /\ caller'[t] = caller[t]
    BY DEF Reads
  <1>2. \A t \in Callers : caller'[t].at = "failover" =>
          /\ SnapOf(caller[t].source, caller[t].snap)'
          /\ caller'[t].use = Fleet!Idle => FALSE \in DualControl
    <2>1. ASSUME NEW t \in Callers, caller'[t].at = "failover"
          PROVE  /\ SnapOf(caller'[t].source, caller'[t].snap)
                 /\ caller'[t].use = Fleet!Idle => FALSE \in DualControl
      BY <2>1 DEF FailoversSound
    <2> QED
      BY <2>1 DEF SnapOf, SameSnaps
  <1>3. ASSUME NEW t \in Callers, NEW x \in Approvals, Reads(t, x)'
        PROVE  /\ Grants(caller'[t].use.row, caller'[t].source, caller'[t].target, caller'[t].snap)
               /\ approval'[x].status # "none" /\ (approval'[x].consumed => approval'[x].raced)
    <2>1. Reads(t, x) /\ caller'[t] = caller[t]
      BY <1>1, <1>3
    <2>2. /\ Grants(caller[t].use.row, caller[t].source, caller[t].target, caller[t].snap)
          /\ approval[x].status # "none" /\ (approval[x].consumed => approval[x].raced)
      BY <2>1 DEF FailoversSound
    <2> QED
      BY <1>3, <2>1, <2>2 DEF ApprovalsKept
  <1>4. ASSUME NEW t \in Callers, NEW u \in Callers, NEW x \in Approvals, Reads(t, x)', Reads(u, x)', t # u
        PROVE  approval'[x].raced
    <2>1. Reads(t, x) /\ Reads(u, x)
      BY <1>1, <1>4
    <2>2. approval[x].raced /\ approval[x].status # "none"
      BY <1>4, <2>1 DEF FailoversSound
    <2> QED
      BY <2>2 DEF ApprovalsKept
  <1> QED
    BY <1>2, <1>3, <1>4 DEF FailoversSound, Grants

LEMMA RestoreStep ==
    ASSUME RestoresSound, ApprovalsKept, UNCHANGED <<snaps, ops>>
    PROVE  RestoresSound'
  <1>1. \A i \in DOMAIN ops : /\ SnapOf(ops[i].source, ops[i].snap)' <=> SnapOf(ops[i].source, ops[i].snap)
                              /\ IsRestore(i)' <=> IsRestore(i)
                              /\ \A a \in Approvals : Has(i, a)' <=> Has(i, a)
    BY DEF SnapOf, Has, IsRestore
  <1>2. \A i \in DOMAIN ops, a \in Approvals : Has(i, a) =>
           /\ Grants(ops[i].approval.row, ops[i].source, ops[i].node, ops[i].snap)
           /\ approval'[a].status # "none" /\ approval'[a].consumed
    BY DEF RestoresSound, ApprovalsKept
  <1>3. \A i, j \in DOMAIN ops, a \in Approvals : Has(i, a) /\ Has(j, a) /\ i # j => approval'[a].raced
    BY DEF RestoresSound, ApprovalsKept
  <1>4. \A i \in DOMAIN ops : IsRestore(i) =>
          /\ SnapOf(ops[i].source, ops[i].snap)
          /\ ops[i].approval = Fleet!Idle => FALSE \in DualControl
    BY DEF RestoresSound
  <1> QED
    BY <1>1, <1>2, <1>3, <1>4 DEF RestoresSound, Grants

\* Requests go on or end while approvals change.
LEMMA CallsGoOn ==
    ASSUME MoveInv, UNCHANGED <<box, ops, agent, storage>>,
           \A t \in Callers : caller'[t] = caller[t] \/ caller'[t].at \notin {"box", "moving"}
    PROVE  BoxesSound' /\ AgentsSound' /\ ReportsSound'
  <1>1. \A t \in Callers : caller'[t].at \in {"box", "moving"} => caller'[t] = caller[t]
    OBVIOUS
  <1>2. BoxesSound'
    BY <1>1 DEF MoveInv, BoxesSound
  <1>3. AgentsSound'
    BY DEF MoveInv, AgentsSound
  <1>4. ReportsSound'
    BY <1>1, SameRows, ReportsKept DEF MoveInv
  <1> QED
    BY <1>2, <1>3, <1>4

\* An approval row that changes but stays one: requests and restores find what they know of it.
LEMMA ApprovalStepKeeps ==
    ASSUME MoveInv, NEW a \in Approvals, NEW g \in GrantRows, approval' = [approval EXCEPT ![a] = g],
           UNCHANGED <<box, snaps, ops, cmds, agent, storage, files, alone>>,
           caller' \in [Callers -> Calls],
           \A t \in Callers : caller'[t] = caller[t] \/ caller'[t].at = "idle",
           approval[a].status # "none" =>
              g.by = approval[a].by /\ g.raced = approval[a].raced /\ g.consumed = approval[a].consumed,
           g.status = "approved" => g.approver \in Owners \ {g.by}
    PROVE  MoveInv'
  <1>1. approval' \in [Approvals -> {NoGrant} \cup GrantRows] /\ approval'[a] = g
        /\ \A c \in Approvals \ {a} : approval'[c] = approval[c]
    BY DEF MoveInv, FleetTyped
  <1>2. g.status # "none"
    BY DEF GrantRows
  <1>3. ApprovalsKept
    BY <1>1, <1>2 DEF ApprovalsKept
  <1>4. FleetTyped'
    BY <1>1 DEF MoveInv, FleetTyped, Calls
  <1>5. BoxesSound' /\ AgentsSound' /\ ReportsSound'
    BY CallsGoOn
  <1>6. \A x \in Approvals : approval'[x].status = "approved" => approval'[x].approver \in Owners \ {approval'[x].by}
    BY <1>1 DEF MoveInv, VerdictsSound
  <1>7. VerdictsSound'
    BY <1>3, <1>6, VerdictStep DEF MoveInv
  <1>8. FailoversSound'
    <2>1. ASSUME NEW t \in Callers, NEW x \in Approvals, Reads(t, x)', approval'[x].consumed
          PROVE  approval[x].consumed
      <3>1. Reads(t, x)
        BY <2>1 DEF Reads
      <3>2. approval[x].status # "none"
        BY <3>1 DEF MoveInv, FailoversSound
      <3> QED
        BY <1>1, <2>1, <3>2
    <2> QED
      BY <1>3, <2>1, SameShots, FailoverStep DEF MoveInv
  <1>9. RestoresSound'
    BY <1>3, RestoreStep DEF MoveInv
  <1> QED
    BY <1>4, <1>5, <1>7, <1>8, <1>9 DEF MoveInv

LEMMA GrantShape ==
    ASSUME FleetTyped, NEW a \in Approvals, approval[a].status # "none"
    PROVE  approval[a] \in GrantRows
  BY DEF FleetTyped, NoGrant

LEMMA RequestKeeps ==
    ASSUME MoveInv, NEW a \in Approvals, NEW o \in Owners, NEW m \in Nodes, NEW n \in Nodes, NEW s \in DOMAIN snaps,
           Fleet!RequestApproval(a, o, m, n, s)
    PROVE  MoveInv'
  <1>1. PICK g : g = [status |-> "pending", by |-> o, approver |-> NoNode,
                      expired |-> FALSE, consumed |-> FALSE, raced |-> FALSE, payload |-> <<m, n, s>>]
    OBVIOUS
  <1>2. s \in Nat
    BY SeqShape DEF MoveInv, FleetTyped
  <1>3. g \in GrantRows /\ g.status = "pending"
    BY <1>1, <1>2 DEF GrantRows
  <1>4. approval' = [approval EXCEPT ![a] = g] /\ approval[a].status = "none"
        /\ UNCHANGED <<box, snaps, ops, cmds, agent, storage, files, caller, alone>>
    BY <1>1 DEF Fleet!RequestApproval, Fleet!nodeSide
  <1> QED
    BY <1>3, <1>4, ApprovalStepKeeps DEF MoveInv, FleetTyped, Calls

LEMMA ExpiredKeeps ==
    ASSUME MoveInv, NEW a \in Approvals, Fleet!ApproveExpired(a)
    PROVE  MoveInv'
  <1>1. PICK g : g = [approval[a] EXCEPT !.status = "expired"]
    OBVIOUS
  <1>2. approval[a] \in GrantRows /\ approval[a].status = "pending"
    BY GrantShape DEF MoveInv, Fleet!ApproveExpired
  <1>3. /\ g \in GrantRows /\ g.status = "expired" /\ g.by = approval[a].by /\ g.raced = approval[a].raced
        /\ g.consumed = approval[a].consumed
    BY <1>1, <1>2 DEF GrantRows
  <1>4. approval' = [approval EXCEPT ![a] = g]
        /\ UNCHANGED <<box, snaps, ops, cmds, agent, storage, files, caller, alone>>
    BY <1>1 DEF Fleet!ApproveExpired, Fleet!nodeSide
  <1> QED
    BY <1>2, <1>3, <1>4, ApprovalStepKeeps DEF MoveInv, FleetTyped, Calls

LEMMA TimePassesKeeps ==
    ASSUME MoveInv, NEW a \in Approvals, Fleet!TimePasses(a)
    PROVE  MoveInv'
  <1>1. PICK g : g = [approval[a] EXCEPT !.expired = TRUE]
    OBVIOUS
  <1>2. approval[a] \in GrantRows /\ approval[a].status \in {"pending", "approved"}
    BY GrantShape DEF MoveInv, Fleet!TimePasses
  <1>3. /\ g \in GrantRows /\ g.status = approval[a].status /\ g.by = approval[a].by /\ g.raced = approval[a].raced
        /\ g.consumed = approval[a].consumed /\ g.approver = approval[a].approver
    BY <1>1, <1>2 DEF GrantRows
  <1>4. approval' = [approval EXCEPT ![a] = g]
        /\ UNCHANGED <<box, snaps, ops, cmds, agent, storage, files, caller, alone>>
    BY <1>1 DEF Fleet!TimePasses, Fleet!nodeSide
  <1>5. g.status = "approved" => g.approver \in Owners \ {g.by}
    BY <1>3 DEF MoveInv, VerdictsSound
  <1> QED
    BY <1>2, <1>3, <1>4, <1>5, ApprovalStepKeeps DEF MoveInv, FleetTyped, Calls

LEMMA DecideBeginKeeps ==
    ASSUME MoveInv, NEW t \in Callers, NEW a \in Approvals, NEW o \in Owners,
           Fleet!ApproveBegin(t, a, o) \/ Fleet!RejectBegin(t, a, o)
    PROVE  MoveInv'
  <1>1. PICK v \in {"approved", "rejected"} : Fleet!DecideBegin(t, a, o, v) /\ (v = "approved" => approval[a].by # o)
    BY DEF Fleet!ApproveBegin, Fleet!RejectBegin
  <1>2. PICK c : c = [at |-> v, approval |-> a, by |-> o]
    OBVIOUS
  <1>3. c \in Verdicts /\ c.at = v /\ c.approval = a /\ c.by = o
    BY <1>2 DEF Verdicts
  <1>4. caller' = [caller EXCEPT ![t] = c] /\ approval[a].status = "pending"
        /\ UNCHANGED <<box, snaps, ops, cmds, approval, agent, storage, files, alone>>
    BY <1>1, <1>2 DEF Fleet!DecideBegin, Fleet!rows, Fleet!nodeSide
  <1>5. caller' \in [Callers -> Calls] /\ caller'[t] = c /\ \A u \in Callers \ {t} : caller'[u] = caller[u]
    BY <1>3, <1>4 DEF MoveInv, FleetTyped, Calls
  <1>6. FleetTyped'
    BY <1>4, <1>5 DEF MoveInv, FleetTyped, Calls
  <1>7. BoxesSound' /\ AgentsSound' /\ ReportsSound'
    BY <1>3, <1>4, <1>5, CallsGoOn
  <1>8. VerdictsSound'
    <2>1. \A u \in Callers :
          /\ caller'[u].at \in {"approved", "rejected"} => approval[caller'[u].approval].status # "none"
          /\ caller'[u].at = "approved" => caller'[u].by # approval[caller'[u].approval].by
      BY <1>1, <1>3, <1>4, <1>5 DEF MoveInv, VerdictsSound
    <2> QED
      BY <1>4, <2>1 DEF MoveInv, VerdictsSound
  <1>9. FailoversSound'
    BY <1>3, <1>4, <1>5, SameShots, FailoversKept DEF MoveInv
  <1>10. RestoresSound'
    BY <1>4, SameRows, SameShots, RestoresKept DEF MoveInv
  <1> QED
    BY <1>6, <1>7, <1>8, <1>9, <1>10 DEF MoveInv

LEMMA DecideCommitKeeps ==
    ASSUME MoveInv, NEW t \in Callers, Fleet!DecideCommit(t)
    PROVE  MoveInv'
  <1>1. PICK c : c = caller[t]
    OBVIOUS
  <1>2. PICK a : a = c.approval
    OBVIOUS
  <1>3. c \in Verdicts /\ c.at \in {"approved", "rejected"} /\ a \in Approvals /\ c.by \in Owners
    BY <1>1, <1>2, CallerShape DEF MoveInv, Fleet!DecideCommit, Verdicts
  <1>4. approval[a].status # "none" /\ (c.at = "approved" => c.by # approval[a].by)
    BY <1>1, <1>2, <1>3 DEF MoveInv, VerdictsSound
  <1>5. approval[a] \in GrantRows
    BY <1>3, <1>4, GrantShape DEF MoveInv
  <1>6. PICK g : g = [approval[a] EXCEPT !.status = c.at, !.approver = c.by]
    OBVIOUS
  <1>7. /\ g \in GrantRows /\ g.status = c.at /\ g.approver = c.by /\ g.by = approval[a].by
        /\ g.raced = approval[a].raced /\ g.consumed = approval[a].consumed
    BY <1>3, <1>5, <1>6 DEF GrantRows
  <1>8. approval' = [approval EXCEPT ![a] = g]
    BY <1>1, <1>2, <1>6 DEF Fleet!DecideCommit
  <1>9. caller' = [caller EXCEPT ![t] = Fleet!Idle]
        /\ UNCHANGED <<box, snaps, ops, cmds, agent, storage, files, alone>>
    BY DEF Fleet!DecideCommit, Fleet!nodeSide
  <1>10. caller' \in [Callers -> Calls] /\ \A u \in Callers : caller'[u] = caller[u] \/ caller'[u].at = "idle"
    BY <1>9, CallerEnds DEF MoveInv
  <1>11. g.status = "approved" => g.approver \in Owners \ {g.by}
    BY <1>3, <1>4, <1>7
  <1> QED
    BY <1>3, <1>7, <1>8, <1>9, <1>10, <1>11, ApprovalStepKeeps

-----------------------------------------------------------------------------
(* Failovers.                                                              *)

\* A failover begins with its grant or without dual control.  Of the others that have read the
\* approval it has read, the row knows.
LEMMA FailoverBeginKeeps ==
    ASSUME MoveInv, NEW t \in Callers, NEW m \in Nodes, NEW n \in Nodes, NEW s \in DOMAIN snaps,
           NEW use \in {Fleet!Idle} \cup Uses, Fleet!FailoverBegin(t, m, n, s, use),
           use = Fleet!Idle => FALSE \in DualControl,
           ApprovalsKept, approval' \in [Approvals -> {NoGrant} \cup GrantRows],
           \A x \in Approvals : approval'[x].status = "approved" => approval'[x].approver \in Owners \ {approval'[x].by},
           \A x \in Approvals : approval'[x].consumed => approval[x].consumed,
           use # Fleet!Idle =>
              /\ Grants(use.row, m, n, s) /\ approval[use.id].status # "none" /\ ~approval'[use.id].consumed
              /\ (\E u \in Callers : Reads(u, use.id)) => approval'[use.id].raced
    PROVE  MoveInv'
  <1>1. PICK c : c = [at |-> "failover", source |-> m, target |-> n, snap |-> s, use |-> use]
    OBVIOUS
  <1>2. s \in Nat
    BY SeqShape DEF MoveInv, FleetTyped
  <1>3. /\ c \in Failovers /\ c.at = "failover" /\ c.source = m /\ c.target = n /\ c.snap = s /\ c.use = use
    BY <1>1, <1>2 DEF Failovers
  <1>4. /\ caller[t] = Fleet!Idle /\ snaps[s].node = m
        /\ caller' = [caller EXCEPT ![t] = c]
        /\ UNCHANGED <<box, snaps, ops, cmds, agent, storage, files, alone>>
    BY <1>1 DEF Fleet!FailoverBegin, Fleet!nodeSide
  <1>5. caller' \in [Callers -> Calls] /\ caller'[t] = c /\ \A u \in Callers \ {t} : caller'[u] = caller[u]
    BY <1>3, <1>4 DEF MoveInv, FleetTyped, Calls
  <1>6. FleetTyped'
    BY <1>4, <1>5 DEF MoveInv, FleetTyped, Calls
  <1>7. BoxesSound' /\ AgentsSound' /\ ReportsSound'
    BY <1>3, <1>4, <1>5, CallsGoOn
  <1>8. VerdictsSound'
    BY <1>3, <1>5, VerdictStep DEF MoveInv
  <1>9. RestoresSound'
    BY <1>4, RestoreStep DEF MoveInv
  <1>10. FailoversSound'
    <2>1. \A u \in Callers, x \in Approvals : Reads(u, x)' /\ u # t => Reads(u, x) /\ caller'[u] = caller[u]
      BY <1>5 DEF Reads
    <2>2. \A x \in Approvals : Reads(t, x)' => use # Fleet!Idle /\ use.id = x
      BY <1>3, <1>5 DEF Reads
    <2>3. \A u \in Callers : caller'[u].at = "failover" =>
            /\ SnapOf(caller[u].source, caller[u].snap)'
            /\ caller'[u].use = Fleet!Idle => FALSE \in DualControl
      <3>1. SnapOf(m, s)
        BY <1>4 DEF SnapOf
      <3>2. \A u \in Callers \ {t} : caller'[u].at = "failover" =>
              /\ SnapOf(caller'[u].source, caller'[u].snap)
              /\ caller'[u].use = Fleet!Idle => FALSE \in DualControl
        BY <1>5 DEF MoveInv, FailoversSound
      <3>3. \A u \in Callers : caller'[u].at = "failover" =>
              /\ SnapOf(caller'[u].source, caller'[u].snap)
              /\ caller'[u].use = Fleet!Idle => FALSE \in DualControl
        BY <1>3, <1>5, <3>1, <3>2
      <3> QED
        BY <1>4, <3>3 DEF SnapOf
    <2>4. ASSUME NEW u \in Callers, NEW x \in Approvals, Reads(u, x)'
          PROVE  /\ Grants(caller'[u].use.row, caller'[u].source, caller'[u].target, caller'[u].snap)
                 /\ approval'[x].status # "none" /\ (approval'[x].consumed => approval'[x].raced)
      <3>1. CASE u = t
        <4>1. use # Fleet!Idle /\ use.id = x
          BY <2>2, <2>4, <3>1
        <4> QED
          BY <1>3, <1>5, <3>1, <4>1 DEF ApprovalsKept
      <3>2. CASE u # t
        <4>1. Reads(u, x) /\ caller'[u] = caller[u]
          BY <2>1, <2>4, <3>2
        <4>2. /\ Grants(caller[u].use.row, caller[u].source, caller[u].target, caller[u].snap)
              /\ approval[x].status # "none" /\ (approval[x].consumed => approval[x].raced)
          BY <4>1 DEF MoveInv, FailoversSound
        <4> QED
          BY <4>1, <4>2 DEF ApprovalsKept
      <3> QED
        BY <3>1, <3>2
    <2>5. ASSUME NEW u \in Callers, NEW v \in Callers, NEW x \in Approvals, Reads(u, x)', Reads(v, x)', u # v
          PROVE  approval'[x].raced
      <3>1. CASE u = t
        <4>1. Reads(v, x) /\ use # Fleet!Idle /\ use.id = x
          BY <2>1, <2>2, <2>5, <3>1
        <4> QED
          BY <4>1
      <3>2. CASE v = t
        <4>1. Reads(u, x) /\ use # Fleet!Idle /\ use.id = x
          BY <2>1, <2>2, <2>5, <3>2
        <4> QED
          BY <4>1
      <3>3. CASE u # t /\ v # t
        <4>1. Reads(u, x) /\ Reads(v, x)
          BY <2>1, <2>5, <3>3
        <4>2. approval[x].raced /\ approval[x].status # "none"
          BY <2>5, <4>1 DEF MoveInv, FailoversSound
        <4> QED
          BY <4>2 DEF ApprovalsKept
      <3> QED
        BY <3>1, <3>2, <3>3
    <2> QED
      BY <2>3, <2>4, <2>5 DEF FailoversSound, Grants
  <1> QED
    BY <1>6, <1>7, <1>8, <1>9, <1>10 DEF MoveInv

LEMMA FailoverApprovedKeeps ==
    ASSUME MoveInv, NEW t \in Callers, NEW m \in Nodes, NEW n \in Nodes, NEW s \in DOMAIN snaps, NEW a \in Approvals,
           Fleet!FailoverApproved(t, m, n, s, a)
    PROVE  MoveInv'
  <1>1. /\ approval[a].status = "approved" /\ ~approval[a].consumed /\ approval[a].payload = <<m, n, s>>
    BY DEF Fleet!FailoverApproved, Fleet!Consumable
  <1>2. approval[a] \in GrantRows
    BY <1>1, GrantShape DEF MoveInv
  <1>3. PICK use : use = [id |-> a, row |-> approval[a]]
    OBVIOUS
  <1>4. use \in Uses /\ use.id = a /\ use.row = approval[a] /\ use # Fleet!Idle
    BY <1>2, <1>3, UsesShape
  <1>5. Fleet!FailoverBegin(t, m, n, s, use)
    BY <1>3 DEF Fleet!FailoverApproved
  <1>6. PICK over : over = (approval[a].raced \/ Fleet!Consuming(a) # {})
    OBVIOUS
  <1>7. over \in BOOLEAN
    BY <1>6
  <1>8. PICK g : g = [approval[a] EXCEPT !.raced = over]
    OBVIOUS
  <1>9. /\ g \in GrantRows /\ g.status = "approved" /\ g.by = approval[a].by /\ g.approver = approval[a].approver
        /\ g.consumed = approval[a].consumed /\ g.raced = over
    BY <1>1, <1>2, <1>7, <1>8 DEF GrantRows
  <1>10. approval' = [approval EXCEPT ![a] = g]
    BY <1>6, <1>8 DEF Fleet!FailoverApproved
  <1>11. approval' \in [Approvals -> {NoGrant} \cup GrantRows] /\ approval'[a] = g
         /\ \A x \in Approvals \ {a} : approval'[x] = approval[x]
    BY <1>9, <1>10 DEF MoveInv, FleetTyped
  <1>12. approval[a].raced => over
    BY <1>6
  <1>13. ApprovalsKept
    BY <1>9, <1>11, <1>12 DEF ApprovalsKept
  <1>14. approval[a].approver \in Owners \ {approval[a].by}
    BY <1>1 DEF MoveInv, VerdictsSound
  <1>15. \A x \in Approvals : approval'[x].status = "approved" => approval'[x].approver \in Owners \ {approval'[x].by}
    BY <1>9, <1>11, <1>14 DEF MoveInv, VerdictsSound
  <1>16. \A x \in Approvals : approval'[x].consumed => approval[x].consumed
    BY <1>9, <1>11
  <1>17. Grants(approval[a], m, n, s)
    BY <1>1, <1>14 DEF Grants
  <1>18. (\E u \in Callers : Reads(u, a)) => over
    BY <1>6 DEF Reads, Fleet!Consuming
  <1>19. ~approval'[a].consumed /\ approval'[a].raced = over
    BY <1>1, <1>9, <1>11
  <1> QED
    BY <1>1, <1>4, <1>5, <1>11, <1>13, <1>15, <1>16, <1>17, <1>18, <1>19, FailoverBeginKeeps

LEMMA FailoverUnapprovedKeeps ==
    ASSUME MoveInv, NEW t \in Callers, NEW m \in Nodes, NEW n \in Nodes, NEW s \in DOMAIN snaps,
           Fleet!FailoverUnapproved(t, m, n, s)
    PROVE  MoveInv'
  <1>1. FALSE \in DualControl /\ Fleet!FailoverBegin(t, m, n, s, Fleet!Idle) /\ UNCHANGED approval
    BY DEF Fleet!FailoverUnapproved
  <1>2. ApprovalsKept /\ approval' \in [Approvals -> {NoGrant} \cup GrantRows]
    BY <1>1 DEF ApprovalsKept, MoveInv, FleetTyped
  <1>3. \A x \in Approvals : approval'[x].status = "approved" => approval'[x].approver \in Owners \ {approval'[x].by}
    BY <1>1 DEF MoveInv, VerdictsSound
  <1>4. \A x \in Approvals : approval'[x].consumed => approval[x].consumed
    BY <1>1
  <1> QED
    BY <1>1, <1>2, <1>3, <1>4, FailoverBeginKeeps

\* A failover commits: its approval, if it has one, is consumed.
LEMMA FailoverCommitEffect ==
    ASSUME MoveInv, NEW t \in Callers, Fleet!FailoverCommit(t)
    PROVE  /\ caller[t].at = "failover"
           /\ approval' \in [Approvals -> {NoGrant} \cup GrantRows] /\ ApprovalsKept
           /\ \A x \in Approvals : approval'[x] = approval[x] \/ (Reads(t, x) /\ approval'[x].status = "consumed")
           /\ \A x \in Approvals : Reads(t, x) => approval'[x].consumed
  <1>1. PICK c : c = caller[t]
    OBVIOUS
  <1>2. c.at = "failover" /\ (c.use # Fleet!Idle => c.use \in Uses /\ c.use.id \in Approvals)
    BY <1>1, FailoverShape DEF MoveInv, Fleet!FailoverCommit
  <1>3. CASE c.use = Fleet!Idle
    <2>1. approval' = approval
      BY <1>1, <1>3 DEF Fleet!FailoverCommit
    <2>2. \A x \in Approvals : ~Reads(t, x)
      BY <1>1, <1>3 DEF Reads
    <2> QED
      BY <1>1, <1>2, <2>1, <2>2 DEF ApprovalsKept, MoveInv, FleetTyped
  <1>4. CASE c.use # Fleet!Idle
    <2>1. PICK a : a = c.use.id
      OBVIOUS
    <2>2. a \in Approvals /\ Reads(t, a) /\ \A x \in Approvals : Reads(t, x) => x = a
      BY <1>1, <1>2, <1>4, <2>1 DEF Reads
    <2>3. approval[a].status # "none"
      BY <2>2 DEF MoveInv, FailoversSound
    <2>4. approval[a] \in GrantRows
      BY <2>2, <2>3, GrantShape DEF MoveInv
    <2>5. PICK g : g = [approval[a] EXCEPT !.status = "consumed", !.consumed = TRUE]
      OBVIOUS
    <2>6. g \in GrantRows /\ g.status = "consumed" /\ g.consumed = TRUE /\ g.by = approval[a].by /\ g.raced = approval[a].raced
      BY <2>4, <2>5 DEF GrantRows
    <2>7. approval' = [approval EXCEPT ![a] = g]
      BY <1>1, <1>4, <2>1, <2>5 DEF Fleet!FailoverCommit
    <2>8. approval' \in [Approvals -> {NoGrant} \cup GrantRows] /\ approval'[a] = g
          /\ \A x \in Approvals \ {a} : approval'[x] = approval[x]
      BY <2>2, <2>6, <2>7 DEF MoveInv, FleetTyped
    <2>9. ApprovalsKept
      BY <2>6, <2>8 DEF ApprovalsKept
    <2> QED
      BY <1>1, <1>2, <2>2, <2>6, <2>8, <2>9
  <1> QED
    BY <1>3, <1>4

\* The restore it adds.
LEMMA FailoverCommitRow ==
    ASSUME MoveInv, NEW t \in Callers, Fleet!FailoverCommit(t)
    PROVE  \E o, k, S :
             /\ o.kind = "restore" /\ o.node = caller[t].target /\ o.source = caller[t].source
             /\ o.snap = caller[t].snap /\ o.approval = caller[t].use /\ o.status = "queued"
             /\ ops' \in Seq(OpRows(Nat \cup S)) /\ DOMAIN ops \subseteq DOMAIN ops'
             /\ \A i \in DOMAIN ops : ops'[i] = ops[i]
             /\ ops'[k] = o /\ k \notin DOMAIN ops /\ k \in DOMAIN ops'
             /\ \A i \in DOMAIN ops' : i \in DOMAIN ops \/ i = k
  <1>1. PICK c : c = caller[t]
    OBVIOUS
  <1>2. c.at = "failover" /\ c \in Failovers
    BY <1>1, CallerShape DEF MoveInv, Fleet!FailoverCommit
  <1>3. c.source \in Nodes /\ c.target \in Nodes /\ c.snap \in Nat /\ c.use \in {Fleet!Idle} \cup Uses
    BY <1>2 DEF Failovers
  <1>4. PICK S : ops \in Seq(OpRows(Nat \cup S))
    BY DEF MoveInv, FleetTyped
  <1>5. PICK o : o = [node |-> c.target, kind |-> "restore", snap |-> c.snap, source |-> c.source,
                      status |-> "queued", approval |-> c.use]
    OBVIOUS
  <1>6. /\ o \in OpRows(Nat \cup S) /\ o.kind = "restore" /\ o.node = c.target /\ o.source = c.source
        /\ o.snap = c.snap /\ o.approval = c.use /\ o.status = "queued"
    BY <1>3, <1>5 DEF OpRows
  <1>7. ops' = Append(ops, o)
    <2>1. PICK p : p = Fleet!Operation(c.target, "restore", c.snap)
      OBVIOUS
    <2>2. p = [node |-> c.target, kind |-> "restore", snap |-> c.snap, source |-> c.target,
               status |-> "queued", approval |-> Fleet!Idle]
      BY <2>1 DEF Fleet!Operation
    <2>3. PICK w : w = [p EXCEPT !.source = c.source]
      OBVIOUS
    <2>4. w = [node |-> c.target, kind |-> "restore", snap |-> c.snap, source |-> c.source,
               status |-> "queued", approval |-> Fleet!Idle]
      BY <2>2, <2>3
    <2>5. [w EXCEPT !.approval = c.use] = o
      BY <1>5, <2>4
    <2>6. [p EXCEPT !.source = c.source, !.approval = c.use] = [w EXCEPT !.approval = c.use]
      BY <2>3
    <2>7. ops' = Append(ops, [p EXCEPT !.source = c.source, !.approval = c.use])
      BY <1>1, <2>1 DEF Fleet!FailoverCommit
    <2> QED
      BY <2>5, <2>6, <2>7
  <1>8. PICK k : k = Len(ops) + 1
    OBVIOUS
  <1>9. /\ ops' \in Seq(OpRows(Nat \cup S)) /\ DOMAIN ops' = 1..k /\ DOMAIN ops \subseteq DOMAIN ops'
        /\ \A i \in DOMAIN ops : ops'[i] = ops[i]
        /\ ops'[k] = o /\ k \notin DOMAIN ops
        /\ \A i \in DOMAIN ops' : i \in DOMAIN ops \/ i = k
    BY <1>4, <1>6, <1>7, <1>8, Appended
  <1>10. k \in DOMAIN ops'
    BY <1>4, <1>8, <1>9, SeqShape
  <1> QED
    BY <1>1, <1>6, <1>9, <1>10

LEMMA FailoverCommitKeeps ==
    ASSUME MoveInv, NEW t \in Callers, Fleet!FailoverCommit(t)
    PROVE  MoveInv'
  <1>1. /\ caller[t].at = "failover"
        /\ approval' \in [Approvals -> {NoGrant} \cup GrantRows] /\ ApprovalsKept
        /\ \A x \in Approvals : approval'[x] = approval[x] \/ (Reads(t, x) /\ approval'[x].status = "consumed")
        /\ \A x \in Approvals : Reads(t, x) => approval'[x].consumed
    BY FailoverCommitEffect
  <1>2. PICK o, k, S :
           /\ o.kind = "restore" /\ o.node = caller[t].target /\ o.source = caller[t].source
           /\ o.snap = caller[t].snap /\ o.approval = caller[t].use /\ o.status = "queued"
           /\ ops' \in Seq(OpRows(Nat \cup S)) /\ DOMAIN ops \subseteq DOMAIN ops'
           /\ \A i \in DOMAIN ops : ops'[i] = ops[i]
           /\ ops'[k] = o /\ k \notin DOMAIN ops /\ k \in DOMAIN ops'
           /\ \A i \in DOMAIN ops' : i \in DOMAIN ops \/ i = k
    BY FailoverCommitRow
  <1>3. caller' = [caller EXCEPT ![t] = Fleet!Idle] /\ UNCHANGED <<box, snaps, cmds, agent, storage, files, alone>>
    BY DEF Fleet!FailoverCommit, Fleet!nodeSide
  <1>4. caller' \in [Callers -> Calls] /\ caller'[t].at = "idle" /\ \A v \in Callers \ {t} : caller'[v] = caller[v]
    BY <1>3, CallerEnds DEF MoveInv
  <1>5. \A v \in Callers : caller'[v].at # "idle" => caller'[v] = caller[v] /\ v # t
    BY <1>4
  <1>6. FleetTyped'
    BY <1>1, <1>2, <1>3, <1>4 DEF MoveInv, FleetTyped, Calls
  <1>7. BoxesSound'
    BY <1>3, <1>5 DEF MoveInv, BoxesSound
  <1>8. \A x \in Approvals : approval'[x].status = "approved" => approval'[x].approver \in Owners \ {approval'[x].by}
    BY <1>1 DEF MoveInv, VerdictsSound
  <1>9. VerdictsSound'
    BY <1>1, <1>5, <1>8, VerdictStep DEF MoveInv
  <1>10. \A x \in Approvals : (\E i \in DOMAIN ops : Has(i, x)) /\ Reads(t, x) => approval'[x].raced
    BY <1>1 DEF MoveInv, RestoresSound, FailoversSound, ApprovalsKept
  <1>11. FailoversSound'
    <2>1. ASSUME NEW u \in Callers, NEW x \in Approvals, Reads(u, x)', approval'[x].consumed
          PROVE  approval[x].consumed \/ approval'[x].raced
      <3>1. Reads(u, x) /\ u # t
        BY <1>5, <2>1 DEF Reads
      <3>2. CASE Reads(t, x)
        <4>1. approval[x].raced /\ approval[x].status # "none"
          BY <3>1, <3>2 DEF MoveInv, FailoversSound
        <4> QED
          BY <1>1, <4>1 DEF ApprovalsKept
      <3>3. CASE ~Reads(t, x)
        BY <1>1, <2>1, <3>3
      <3> QED
        BY <3>2, <3>3
    <2> QED
      BY <1>1, <1>3, <1>5, <2>1, SameShots, FailoverStep DEF MoveInv
  <1>12. RestoresSound'
    <2>1. \A i \in DOMAIN ops' : IsRestore(i)' => (i \in DOMAIN ops /\ IsRestore(i) /\ ops'[i] = ops[i]) \/ i = k
      BY <1>2 DEF IsRestore
    <2>2. \A i \in DOMAIN ops', x \in Approvals :
             Has(i, x)' => (i \in DOMAIN ops /\ Has(i, x) /\ ops'[i] = ops[i]) \/ (i = k /\ Reads(t, x))
      BY <1>1, <1>2 DEF Has, Reads
    <2>3. ASSUME NEW i \in DOMAIN ops', IsRestore(i)'
          PROVE  SnapOf(ops'[i].source, ops'[i].snap) /\ (ops'[i].approval = Fleet!Idle => FALSE \in DualControl)
      <3>1. CASE i = k
        BY <1>1, <1>2, <3>1 DEF MoveInv, FailoversSound
      <3>2. CASE i \in DOMAIN ops /\ IsRestore(i) /\ ops'[i] = ops[i]
        BY <3>2 DEF MoveInv, RestoresSound
      <3> QED
        BY <2>1, <2>3, <3>1, <3>2
    <2>4. ASSUME NEW i \in DOMAIN ops', NEW x \in Approvals, Has(i, x)'
          PROVE  /\ Grants(ops'[i].approval.row, ops'[i].source, ops'[i].node, ops'[i].snap)
                 /\ approval'[x].status # "none" /\ approval'[x].consumed
      <3>1. CASE i = k /\ Reads(t, x)
        <4>1. /\ Grants(caller[t].use.row, caller[t].source, caller[t].target, caller[t].snap)
              /\ approval[x].status # "none"
          BY <3>1 DEF MoveInv, FailoversSound
        <4> QED
          BY <1>1, <1>2, <3>1, <4>1 DEF ApprovalsKept
      <3>2. CASE i \in DOMAIN ops /\ Has(i, x) /\ ops'[i] = ops[i]
        <4>1. /\ Grants(ops[i].approval.row, ops[i].source, ops[i].node, ops[i].snap)
              /\ approval[x].status # "none" /\ approval[x].consumed
          BY <3>2 DEF MoveInv, RestoresSound
        <4> QED
          BY <1>1, <3>2, <4>1 DEF ApprovalsKept
      <3> QED
        BY <2>2, <2>4, <3>1, <3>2
    <2>5. ASSUME NEW i \in DOMAIN ops', NEW j \in DOMAIN ops', NEW x \in Approvals, Has(i, x)', Has(j, x)', i # j
          PROVE  approval'[x].raced
      <3>1. CASE i = k
        <4>1. j \in DOMAIN ops /\ Has(j, x) /\ Reads(t, x)
          BY <1>2, <2>2, <2>5, <3>1
        <4> QED
          BY <1>10, <4>1
      <3>2. CASE j = k
        <4>1. i \in DOMAIN ops /\ Has(i, x) /\ Reads(t, x)
          BY <1>2, <2>2, <2>5, <3>2
        <4> QED
          BY <1>10, <4>1
      <3>3. CASE i # k /\ j # k
        <4>1. i \in DOMAIN ops /\ Has(i, x) /\ j \in DOMAIN ops /\ Has(j, x)
          BY <2>2, <2>5, <3>3
        <4>2. approval[x].raced /\ approval[x].status # "none"
          BY <2>5, <4>1 DEF MoveInv, RestoresSound
        <4> QED
          BY <1>1, <4>2 DEF ApprovalsKept
      <3> QED
        BY <3>1, <3>2, <3>3
    <2>6. \A i \in DOMAIN ops' : IsRestore(i)' =>
             SnapOf(ops[i].source, ops[i].snap)' /\ (ops'[i].approval = Fleet!Idle => FALSE \in DualControl)
      BY <1>3, <2>3 DEF SnapOf
    <2> QED
      BY <2>4, <2>5, <2>6 DEF RestoresSound, Grants
  <1>13. SameOps
    BY <1>2 DEF SameOps, SameOp
  <1>14. AgentsSound' /\ ReportsSound'
    BY <1>3, <1>5, <1>13, AgentsKept, ReportsKept DEF MoveInv
  <1> QED
    BY <1>6, <1>7, <1>9, <1>11, <1>12, <1>14 DEF MoveInv

-----------------------------------------------------------------------------
(* Agents.                                                                 *)

LEMMA WorkShape ==
    ASSUME NEW c \in Works
    PROVE  c.at \in {"op", "cmd", "waiting"} /\ c.i \in Nat /\ c.ok \in BOOLEAN
  BY DEF Works

LEMMA LeastNumber ==
    ASSUME NEW B \in SUBSET Nat, B # {}
    PROVE  \E k \in B : \A j \in B : k <= j
  <1>1. PICK k \in B : \A j \in B : ~ (<<j, k>> \in OpToRel(<, Nat))
    BY NatLessThanWellFounded, WFMin
  <1>2. ASSUME NEW j \in B, j < k PROVE FALSE
    <2>1. <<j, k>> \in OpToRel(<, Nat)
      BY <1>2 DEF OpToRel
    <2> QED
      BY <1>1, <2>1
  <1> QED
    BY <1>2

\* The oldest row of a node that waits.
LEMMA OldestQueued ==
    ASSUME NEW table, DOMAIN table \subseteq Nat, NEW n, Fleet!Queued(table, n) # {}
    PROVE  LET i == Fleet!OldestFirst(table, n)
           IN  /\ i \in DOMAIN table /\ table[i].node = n /\ table[i].status = "queued"
               /\ \A j \in DOMAIN table : table[j].node = n /\ table[j].status = "queued" => i <= j
  <1> DEFINE Q == Fleet!Queued(table, n)
  <1>1. Q \subseteq Nat /\ Q # {}
    BY DEF Fleet!Queued
  <1>2. \E i \in Q : \A j \in Q : i <= j
    BY <1>1, LeastNumber
  <1>3. PICK i : i = Fleet!OldestFirst(table, n)
    OBVIOUS
  <1>4. i = CHOOSE x \in Q : \A y \in Q : x =< y
    BY <1>3 DEF Fleet!OldestFirst, Fleet!Min
  <1> HIDE DEF Q
  <1>5. i \in Q /\ \A j \in Q : i <= j
    BY <1>2, <1>4
  <1> QED
    BY <1>3, <1>5 DEF Q, Fleet!Queued

\* What an agent's step leaves alone.
LEMMA RowsKept ==
    ASSUME MoveInv, SameOps, RestoresKnown, SameSnaps(snaps, snaps'), UNCHANGED <<box, approval, caller>>
    PROVE  BoxesSound' /\ VerdictsSound' /\ FailoversSound' /\ RestoresSound'
  <1>1. BoxesSound'
    BY DEF MoveInv, BoxesSound
  <1>2. VerdictsSound' /\ FailoversSound'
    BY VerdictsKept, FailoversKept DEF MoveInv
  <1>3. RestoresSound'
    BY RestoresKept DEF MoveInv
  <1> QED
    BY <1>1, <1>2, <1>3

LEMMA ClaimOperationKeeps ==
    ASSUME MoveInv, NEW n \in Nodes, NEW ok \in BOOLEAN, Fleet!ClaimOperation(n, ok)
    PROVE  MoveInv'
  <1>1. PICK i : i = Fleet!OldestFirst(ops, n)
    OBVIOUS
  <1>2. DOMAIN ops \subseteq Nat /\ Fleet!Queued(ops, n) # {} /\ agent[n] = Fleet!Idle
    BY OpShape DEF MoveInv, Fleet!ClaimOperation
  <1>3. i \in DOMAIN ops /\ ops[i].node = n /\ ops[i].status = "queued"
    BY <1>1, <1>2, OldestQueued
  <1>4. PICK S : ops \in Seq(OpRows(Nat \cup S))
    BY DEF MoveInv, FleetTyped
  <1>5. ops' = [ops EXCEPT ![i].status = "claimed"]
    BY <1>1 DEF Fleet!ClaimOperation
  <1>6. /\ ops' \in Seq(OpRows(Nat \cup S)) /\ DOMAIN ops' = DOMAIN ops /\ ops'[i].status = "claimed"
        /\ \A j \in DOMAIN ops \ {i} : ops'[j] = ops[j]
        /\ \A j \in DOMAIN ops : SameOp(ops'[j], ops[j])
    BY <1>3, <1>4, <1>5, OpStatusSet DEF SameOp
  <1>7. SameOps
    BY <1>6 DEF SameOps
  <1>8. PICK w : w = [at |-> "op", i |-> i, ok |-> ok]
    OBVIOUS
  <1>9. w \in Works /\ w.at = "op" /\ w.i = i /\ w.ok = ok
    BY <1>2, <1>3, <1>8 DEF Works
  <1>10. agent' = [agent EXCEPT ![n] = w]
    BY <1>1, <1>8 DEF Fleet!ClaimOperation
  <1>11. agent' \in [Nodes -> {Fleet!Idle} \cup Works] /\ agent'[n] = w /\ \A m \in Nodes \ {n} : agent'[m] = agent[m]
    BY <1>9, <1>10 DEF MoveInv, FleetTyped
  <1>12. snaps' \in Seq(SnapRows) /\ SameSnaps(snaps, snaps')
    <2>1. snaps' = IF ok /\ ops[i].kind # "restore" THEN [snaps EXCEPT ![ops[i].snap].stored = (ops[i].kind = "backup")] ELSE snaps
      BY <1>1 DEF Fleet!ClaimOperation
    <2>2. snaps \in Seq(SnapRows)
      BY DEF MoveInv, FleetTyped
    <2>3. CASE ok /\ ops[i].kind # "restore"
      <3>1. PICK kept : kept = (ops[i].kind = "backup")
        OBVIOUS
      <3>2. snaps' = [snaps EXCEPT ![ops[i].snap].stored = kept] /\ kept \in BOOLEAN
        BY <2>1, <2>3, <3>1
      <3> QED
        BY <2>2, <3>2, SnapSet
    <2>4. CASE ~(ok /\ ops[i].kind # "restore")
      BY <2>1, <2>2, <2>4 DEF SameSnaps
    <2> QED
      BY <2>3, <2>4
  <1>13. /\ storage' \in [Nodes -> Nat] /\ (\A m \in Nodes \ {n} : storage'[m] = storage[m])
         /\ (ok /\ ops[i].kind = "restore" => storage'[n] = ops[i].snap)
    <2>1. storage' = IF ok /\ ops[i].kind = "restore" THEN [storage EXCEPT ![n] = ops[i].snap] ELSE storage
      BY <1>1 DEF Fleet!ClaimOperation
    <2>2. storage \in [Nodes -> Nat]
      BY DEF MoveInv, FleetTyped
    <2>3. CASE ok /\ ops[i].kind = "restore"
      <3>1. ops[i].snap \in DOMAIN snaps
        BY <1>3, <2>3 DEF MoveInv, RestoresSound, IsRestore, SnapOf
      <3>2. ops[i].snap \in Nat
        BY <3>1, SeqShape DEF MoveInv, FleetTyped
      <3> QED
        BY <2>1, <2>2, <2>3, <3>2
    <2>4. CASE ~(ok /\ ops[i].kind = "restore")
      BY <2>1, <2>2, <2>4
    <2> QED
      BY <2>3, <2>4
  <1>14. UNCHANGED <<box, cmds, approval, files, caller, alone>>
    BY DEF Fleet!ClaimOperation
  <1>15. FleetTyped'
    BY <1>6, <1>11, <1>12, <1>13, <1>14 DEF MoveInv, FleetTyped
  <1>16. RestoresKnown
    BY <1>6 DEF RestoresKnown
  <1>17. BoxesSound' /\ VerdictsSound' /\ FailoversSound' /\ RestoresSound'
    BY <1>7, <1>12, <1>14, <1>16, RowsKept
  <1>18. AgentsSound'
    <2>1. \A m \in Nodes \ {n} : AgentSound(m)'
      <3>1. ASSUME NEW m \in Nodes \ {n} PROVE AgentSound(m)'
        <4>1. AgentSound(m)
          BY AgentsParts DEF MoveInv
        <4> QED
          BY <1>7, <1>11, <1>13, <4>1, AgentKept
      <3> QED
        BY <3>1
    <2>2. AgentSound(n)'
      <3>1. SameOp(ops'[i], ops[i]) /\ i \in DOMAIN ops'
        BY <1>3, <1>6
      <3> QED
        BY <1>3, <1>6, <1>9, <1>11, <1>13, <3>1 DEF AgentSound, SameOp
    <2> QED
      BY <2>1, <2>2 DEF AgentsSound, AgentSound
  <1>19. ReportsSound'
    <2>1. ASSUME NEW t \in Callers PROVE ReportSound(t)'
      <3>1. ReportSound(t)
        BY ReportsParts DEF MoveInv
      <3>2. caller[t].at = "moving" =>
               caller[t].node \in Nodes /\ caller[t].i # i
        BY <1>3, <3>1, MovingBoxes DEF MoveInv, ReportSound
      <3>3. caller[t].at = "moving" /\ agent'[caller[t].node].i = caller[t].i =>
               agent'[caller[t].node] = agent[caller[t].node]
        BY <1>9, <1>11, <3>2
      <3> QED
        BY <1>7, <1>14, <3>1, <3>2, <3>3, ReportKept
    <2> QED
      BY <2>1 DEF ReportsSound, ReportSound
  <1> QED
    BY <1>15, <1>17, <1>18, <1>19 DEF MoveInv

\* An agent comes to rest or takes a command: its operation, if any, stays as it is.
LEMMA AgentStepKeeps ==
    ASSUME MoveInv, NEW n \in Nodes, NEW w \in {Fleet!Idle} \cup Works, w.at \in {"idle", "cmd"},
           agent' = [agent EXCEPT ![n] = w],
           cmds' \in Seq(CmdRows), files' \in [Nodes -> FilePairs],
           UNCHANGED <<box, snaps, ops, approval, storage, caller, alone>>
    PROVE  MoveInv'
  <1>1. agent' \in [Nodes -> {Fleet!Idle} \cup Works] /\ agent'[n] = w /\ \A m \in Nodes \ {n} : agent'[m] = agent[m]
    BY DEF MoveInv, FleetTyped
  <1>2. FleetTyped'
    BY <1>1 DEF MoveInv, FleetTyped
  <1>3. BoxesSound' /\ VerdictsSound' /\ FailoversSound' /\ RestoresSound'
    BY SameRows, SameShots, RowsKept
  <1>4. \A m \in Nodes : agent'[m].at \in {"op", "waiting"} => agent'[m] = agent[m]
    BY <1>1
  <1>5. AgentsSound' /\ ReportsSound'
    BY <1>4, SameRows, AgentsKept, ReportsKept DEF MoveInv
  <1> QED
    BY <1>2, <1>3, <1>5 DEF MoveInv

LEMMA RewrittenShape ==
    ASSUME NEW f \in [Boxes -> Nat], NEW c \in CmdRows, NEW x, x = IF c.state = "active" THEN c.settings ELSE 0
    PROVE  /\ x \in Nat /\ Fleet!Rewritten(f, c) \in [Boxes -> Nat] /\ Fleet!Rewritten(f, c)[c.box] = x
           /\ \A b \in Boxes \ {c.box} : Fleet!Rewritten(f, c)[b] = f[b]
  <1>1. x \in Nat /\ c.box \in Boxes
    BY DEF CmdRows
  <1>2. Fleet!Rewritten(f, c) = [f EXCEPT ![c.box] = x]
    BY DEF Fleet!Rewritten
  <1> QED
    BY <1>1, <1>2

LEMMA TornShape ==
    ASSUME NEW f \in [Boxes -> Nat], NEW c \in CmdRows
    PROVE  Fleet!Torn(f, c) \subseteq [Boxes -> Nat]
  <1>1. Fleet!Rewritten(f, c) \in [Boxes -> Nat]
    BY RewrittenShape
  <1>2. \A kept \in SUBSET (Boxes \ {c.box}) : [b \in Boxes |-> IF b \in kept THEN f[b] ELSE 0] \in [Boxes -> Nat]
    OBVIOUS
  <1> QED
    BY <1>1, <1>2 DEF Fleet!Torn

LEMMA LeftShape ==
    ASSUME NEW f \in FilePairs, NEW c \in CmdRows
    PROVE  Fleet!Left(f, c) \subseteq FilePairs
  <1>1. f.accounts \in [Boxes -> Nat] /\ f.quotas \in [Boxes -> Nat]
    BY DEF FilePairs
  <1>2. /\ Fleet!Torn(f.accounts, c) \subseteq [Boxes -> Nat] /\ Fleet!Torn(f.quotas, c) \subseteq [Boxes -> Nat]
        /\ Fleet!Rewritten(f.accounts, c) \in [Boxes -> Nat]
    BY <1>1, TornShape, RewrittenShape
  <1>3. [accounts : Fleet!Torn(f.accounts, c), quotas : {f.quotas}] \subseteq FilePairs
    BY <1>1, <1>2 DEF FilePairs
  <1>4. [accounts : {Fleet!Rewritten(f.accounts, c)}, quotas : Fleet!Torn(f.quotas, c)] \subseteq FilePairs
    BY <1>1, <1>2 DEF FilePairs
  <1> QED
    BY <1>3, <1>4 DEF Fleet!Left

\* Agent n has claimed command i and written it, unless that failed.
CommandClaimed(n, ok, i, w) ==
    /\ cmds[i].node = n /\ cmds[i].status = "queued" /\ cmds[i].box \in Boxes
    /\ \A j \in DOMAIN cmds : cmds[j].node = n /\ cmds[j].status = "queued" => i <= j
    /\ cmds' = [cmds EXCEPT ![i].status = "claimed"]
    /\ w.at = "cmd" /\ w.i = i /\ w.ok = ok /\ agent[n] = Fleet!Idle /\ agent' = [agent EXCEPT ![n] = w]
    /\ files' \in [Nodes -> FilePairs]
    /\ \A m \in Nodes \ {n} : files'[m] = files[m]
    /\ ok => \A b \in Boxes \ {cmds[i].box} : /\ files'[n].accounts[b] = files[n].accounts[b]
                                              /\ files'[n].quotas[b] = files[n].quotas[b]
    /\ ok => LET x == IF cmds[i].state = "active" THEN cmds[i].settings ELSE 0
             IN  files'[n].accounts[cmds[i].box] = x /\ files'[n].quotas[cmds[i].box] = x
    /\ UNCHANGED <<box, snaps, ops, approval, storage, caller, alone>>

LEMMA ClaimCommandEffect ==
    ASSUME FleetTyped, NEW n \in Nodes, NEW ok \in BOOLEAN, Fleet!ClaimCommand(n, ok)
    PROVE  \E i \in DOMAIN cmds, w \in Works : CommandClaimed(n, ok, i, w)
  <1>1. PICK i : i = Fleet!OldestFirst(cmds, n)
    OBVIOUS
  <1>2. cmds \in Seq(CmdRows) /\ DOMAIN cmds \subseteq Nat /\ Fleet!Queued(cmds, n) # {} /\ agent[n] = Fleet!Idle
    BY SeqShape DEF FleetTyped, Fleet!ClaimCommand
  <1>3. /\ i \in DOMAIN cmds /\ cmds[i].node = n /\ cmds[i].status = "queued"
        /\ \A j \in DOMAIN cmds : cmds[j].node = n /\ cmds[j].status = "queued" => i <= j
    BY <1>1, <1>2, OldestQueued
  <1>4. PICK c : c = cmds[i]
    OBVIOUS
  <1>5. c \in CmdRows /\ c.box \in Boxes
    <2>1. c \in CmdRows
      BY <1>2, <1>3, <1>4, SeqShape
    <2> QED
      BY <2>1 DEF CmdRows
  <1>6. PICK w : w = [at |-> "cmd", i |-> i, ok |-> ok]
    OBVIOUS
  <1>7. w \in Works /\ w.at = "cmd" /\ w.i = i /\ w.ok = ok
    BY <1>2, <1>3, <1>6 DEF Works
  <1>8. PICK x : x = IF c.state = "active" THEN c.settings ELSE 0
    OBVIOUS
  <1>9. PICK f : f = files[n]
    OBVIOUS
  <1>10. f \in FilePairs /\ f.accounts \in [Boxes -> Nat] /\ f.quotas \in [Boxes -> Nat]
    BY <1>9 DEF FleetTyped, FilePairs
  <1>11. \E g \in FilePairs :
            /\ files' = [files EXCEPT ![n] = g]
            /\ ok => \A b \in Boxes \ {c.box} : g.accounts[b] = f.accounts[b] /\ g.quotas[b] = f.quotas[b]
            /\ ok => g.accounts[c.box] = x /\ g.quotas[c.box] = x
    <2>1. CASE ok
      <3>1. PICK p, q : p = Fleet!Rewritten(f.accounts, c) /\ q = Fleet!Rewritten(f.quotas, c)
        OBVIOUS
      <3>2. /\ p \in [Boxes -> Nat] /\ p[c.box] = x /\ \A b \in Boxes \ {c.box} : p[b] = f.accounts[b]
            /\ q \in [Boxes -> Nat] /\ q[c.box] = x /\ \A b \in Boxes \ {c.box} : q[b] = f.quotas[b]
        BY <1>5, <1>8, <1>10, <3>1, RewrittenShape
      <3>3. PICK g : g = [accounts |-> p, quotas |-> q]
        OBVIOUS
      <3>4. g \in FilePairs /\ g.accounts = p /\ g.quotas = q
        BY <3>2, <3>3 DEF FilePairs
      <3>5. files' = [files EXCEPT ![n] = g]
        BY <1>1, <1>4, <1>9, <2>1, <3>1, <3>3 DEF Fleet!ClaimCommand
      <3> QED
        BY <3>2, <3>4, <3>5
    <2>2. CASE ~ok
      <3>1. PICK g \in Fleet!Left(f, c) : files' = [files EXCEPT ![n] = g]
        BY <1>1, <1>4, <1>9, <2>2 DEF Fleet!ClaimCommand
      <3>2. g \in FilePairs
        BY <1>5, <1>10, <3>1, LeftShape
      <3> QED
        BY <2>2, <3>1, <3>2
    <2> QED
      BY <2>1, <2>2
  <1>12. PICK g \in FilePairs :
            /\ files' = [files EXCEPT ![n] = g]
            /\ ok => \A b \in Boxes \ {c.box} : g.accounts[b] = f.accounts[b] /\ g.quotas[b] = f.quotas[b]
            /\ ok => g.accounts[c.box] = x /\ g.quotas[c.box] = x
    BY <1>11
  <1>13. files' \in [Nodes -> FilePairs] /\ files'[n] = g /\ \A m \in Nodes \ {n} : files'[m] = files[m]
    BY <1>12 DEF FleetTyped
  <1>14. /\ cmds' = [cmds EXCEPT ![i].status = "claimed"] /\ agent' = [agent EXCEPT ![n] = w]
         /\ UNCHANGED <<box, snaps, ops, approval, storage, caller, alone>>
    BY <1>1, <1>6 DEF Fleet!ClaimCommand
  <1>15. CommandClaimed(n, ok, i, w)
    BY <1>2, <1>3, <1>4, <1>5, <1>7, <1>8, <1>9, <1>12, <1>13, <1>14 DEF CommandClaimed
  <1> QED
    BY <1>3, <1>7, <1>15

LEMMA ClaimCommandKeeps ==
    ASSUME MoveInv, NEW n \in Nodes, NEW ok \in BOOLEAN, Fleet!ClaimCommand(n, ok)
    PROVE  MoveInv'
  <1>1. \E i \in DOMAIN cmds, w \in Works : CommandClaimed(n, ok, i, w)
    <2>1. FleetTyped
      BY DEF MoveInv
    <2> QED
      BY <2>1, ClaimCommandEffect
  <1>2. PICK i \in DOMAIN cmds, w \in Works :
             /\ cmds' = [cmds EXCEPT ![i].status = "claimed"]
             /\ w.at = "cmd" /\ agent' = [agent EXCEPT ![n] = w]
             /\ files' \in [Nodes -> FilePairs]
             /\ UNCHANGED <<box, snaps, ops, approval, storage, caller, alone>>
    BY <1>1 DEF CommandClaimed
  <1>3. cmds' \in Seq(CmdRows)
    <2>1. cmds \in Seq(CmdRows)
      BY DEF MoveInv, FleetTyped
    <2>2. PICK x : x = "claimed"
      OBVIOUS
    <2>3. /\ cmds' = [cmds EXCEPT ![i].status = x] /\ i \in DOMAIN cmds
          /\ x \in {"queued", "claimed", "completed", "failed"}
      BY <1>2, <2>2
    <2> QED
      BY <2>1, <2>3, CmdStatusSet
  <1> QED
    BY <1>2, <1>3, AgentStepKeeps

LEMMA ReportCommandKeeps ==
    ASSUME MoveInv, CommandsOrdered, NEW n \in Nodes, NEW x \in {"completed", "failed"}, Fleet!ReportCommand(n, x)
    PROVE  MoveInv'
  <1>1. agent[n].i \in DOMAIN cmds
    BY DEF CommandsOrdered, Fleet!ReportCommand
  <1>2. /\ cmds' = [cmds EXCEPT ![agent[n].i].status = x] /\ agent' = [agent EXCEPT ![n] = Fleet!Idle]
        /\ UNCHANGED <<box, snaps, ops, approval, storage, files, caller, alone>>
    BY DEF Fleet!ReportCommand
  <1>3. cmds' \in Seq(CmdRows)
    <2>1. cmds \in Seq(CmdRows) /\ x \in {"queued", "claimed", "completed", "failed"}
      BY DEF MoveInv, FleetTyped
    <2> QED
      BY <1>1, <1>2, <2>1, CmdStatusSet
  <1>4. files' \in [Nodes -> FilePairs]
    BY <1>2 DEF MoveInv, FleetTyped
  <1> QED
    BY <1>2, <1>3, <1>4, IdleShape, AgentStepKeeps

LEMMA AgentLostKeeps ==
    ASSUME MoveInv, NEW n \in Nodes, Fleet!AgentLost(n)
    PROVE  MoveInv'
  <1>1. /\ agent' = [agent EXCEPT ![n] = Fleet!Idle]
        /\ UNCHANGED <<box, snaps, ops, cmds, approval, storage, files, caller, alone>>
    BY DEF Fleet!AgentLost, Fleet!rows
  <1>2. files' \in [Nodes -> FilePairs] /\ cmds' \in Seq(CmdRows)
    BY <1>1 DEF MoveInv, FleetTyped
  <1> QED
    BY <1>1, <1>2, IdleShape, AgentStepKeeps

\* Agent n has reported an operation: what the others know of theirs stays.
LEMMA ReportEnds ==
    ASSUME MoveInv, NEW n \in Nodes, agent' = [agent EXCEPT ![n] = Fleet!Idle],
           SameOps, RestoresKnown, SameSnaps(snaps, snaps'),
           UNCHANGED <<box, approval, storage, caller>>
    PROVE  /\ agent' \in [Nodes -> {Fleet!Idle} \cup Works] /\ BoxesSound' /\ VerdictsSound' /\ FailoversSound'
           /\ RestoresSound' /\ AgentsSound' /\ ReportsSound'
  <1>1. agent' \in [Nodes -> {Fleet!Idle} \cup Works] /\ agent'[n] = Fleet!Idle
        /\ \A m \in Nodes \ {n} : agent'[m] = agent[m]
    BY DEF MoveInv, FleetTyped
  <1>2. \A m \in Nodes : agent'[m].at \in {"op", "waiting"} => agent'[m] = agent[m]
    BY <1>1, IdleShape
  <1>3. AgentsSound' /\ ReportsSound'
    BY <1>2, AgentsKept, ReportsKept DEF MoveInv
  <1>4. BoxesSound' /\ VerdictsSound' /\ FailoversSound' /\ RestoresSound'
    BY RowsKept
  <1> QED
    BY <1>1, <1>3, <1>4

LEMMA ReportFailureKeeps ==
    ASSUME MoveInv, NEW n \in Nodes, Fleet!ReportFailure(n)
    PROVE  MoveInv'
  <1>1. PICK i : i = agent[n].i
    OBVIOUS
  <1>2. agent[n].at \in {"op", "waiting"}
    BY DEF Fleet!ReportFailure
  <1>3. i \in DOMAIN ops
    BY <1>1, <1>2 DEF MoveInv, AgentsSound
  <1>4. PICK S : ops \in Seq(OpRows(Nat \cup S))
    BY DEF MoveInv, FleetTyped
  <1>5. ops' = [ops EXCEPT ![i].status = "failed"]
    BY <1>1 DEF Fleet!ReportFailure
  <1>6. /\ ops' \in Seq(OpRows(Nat \cup S)) /\ DOMAIN ops' = DOMAIN ops /\ SameOps
        /\ ops'[i].status = "failed" /\ \A j \in DOMAIN ops \ {i} : ops'[j] = ops[j]
    BY <1>3, <1>4, <1>5, OpStatusSet DEF SameOps, SameOp
  <1>7. snaps' \in Seq(SnapRows) /\ SameSnaps(snaps, snaps')
    <2>1. snaps' = CASE ops[i].kind = "backup" -> [snaps EXCEPT ![ops[i].snap].status = "failed"]
                     [] ops[i].kind = "delete" -> [snaps EXCEPT ![ops[i].snap].status = "ready"]
                     [] OTHER -> snaps
      BY <1>1 DEF Fleet!ReportFailure
    <2>2. snaps \in Seq(SnapRows)
      BY DEF MoveInv, FleetTyped
    <2>3. \/ \E x \in {"failed", "ready"} : snaps' = [snaps EXCEPT ![ops[i].snap].status = x]
          \/ snaps' = snaps
      BY <2>1
    <2>4. CASE snaps' = snaps
      BY <2>2, <2>4 DEF SameSnaps
    <2>5. ASSUME NEW x \in {"failed", "ready"}, snaps' = [snaps EXCEPT ![ops[i].snap].status = x]
          PROVE  snaps' \in Seq(SnapRows) /\ SameSnaps(snaps, snaps')
      <3>1. x \in {"creating", "ready", "deleting", "deleted", "failed"}
        OBVIOUS
      <3> QED
        BY <2>2, <2>5, <3>1, SnapSet
    <2> QED
      BY <2>3, <2>4, <2>5
  <1>8. agent' = [agent EXCEPT ![n] = Fleet!Idle]
        /\ UNCHANGED <<box, cmds, approval, storage, files, caller, alone>>
    BY DEF Fleet!ReportFailure
  <1>9. RestoresKnown
    BY <1>6 DEF RestoresKnown
  <1>10. /\ agent' \in [Nodes -> {Fleet!Idle} \cup Works] /\ BoxesSound' /\ VerdictsSound' /\ FailoversSound'
         /\ RestoresSound' /\ AgentsSound' /\ ReportsSound'
    BY <1>6, <1>7, <1>8, <1>9, ReportEnds
  <1>11. FleetTyped'
    BY <1>6, <1>7, <1>8, <1>10 DEF MoveInv, FleetTyped
  <1> QED
    BY <1>10, <1>11 DEF MoveInv

LEMMA SameCardinality == \A S : Fleet!Cardinality(S) = Cardinality(S)
  BY DEF Fleet!Cardinality, Cardinality

\* The deletions that retention queues.
LEMMA RetentionShape ==
    ASSUME snaps \in Seq(SnapRows), NEW n \in Nodes
    PROVE  \E S : /\ Fleet!RetentionOps(n) \in Seq(OpRows(S))
                  /\ \A k \in DOMAIN Fleet!RetentionOps(n) : LET o == Fleet!RetentionOps(n)[k] IN o.kind = "delete" /\ o.approval = Fleet!Idle
  <1> DEFINE R == Fleet!Retired(n)
             pick(k) == CHOOSE i \in R : Fleet!Cardinality({j \in R : j >= i}) = k
  <1>1. IsFiniteSet(R)
    <2>1. DOMAIN snaps = 1..Len(snaps) /\ Len(snaps) \in Nat
      BY SeqShape
    <2>2. R \subseteq 1..Len(snaps)
      BY <2>1 DEF Fleet!Retired
    <2>3. IsFiniteSet(1..Len(snaps))
      BY <2>1, FS_Interval
    <2> QED
      BY <2>2, <2>3, FS_Subset
  <1>2. Fleet!Cardinality(R) \in Nat
    BY <1>1, FS_CardinalityType, SameCardinality
  <1>3. Fleet!RetentionOps(n) = [k \in 1..Fleet!Cardinality(R) |-> Fleet!Operation(n, "delete", pick(k))]
    BY Zenon DEF Fleet!RetentionOps
  <1> HIDE DEF pick, R
  <1>4. PICK m, S : m = Fleet!Cardinality(R) /\ S = {pick(k) : k \in 1..m}
    OBVIOUS
  <1>5. PICK q : q = Fleet!RetentionOps(n)
    OBVIOUS
  <1>6. q = [k \in 1..m |-> Fleet!Operation(n, "delete", pick(k))]
    BY <1>3, <1>4, <1>5
  <1>7. \A k \in 1..m : pick(k) \in S
    BY <1>4
  <1>8. \A k \in 1..m : Fleet!Operation(n, "delete", pick(k)) \in OpRows(S)
                        /\ Fleet!Operation(n, "delete", pick(k)).kind = "delete"
                        /\ Fleet!Operation(n, "delete", pick(k)).approval = Fleet!Idle
    BY <1>7 DEF Fleet!Operation, OpRows
  <1>9. q \in [1..m -> OpRows(S)] /\ \A k \in DOMAIN q : q[k].kind = "delete" /\ q[k].approval = Fleet!Idle
    BY <1>6, <1>8
  <1>10. q \in Seq(OpRows(S))
    BY <1>2, <1>4, <1>9, SeqDef
  <1> QED
    BY <1>5, <1>9, <1>10

LEMMA Joined ==
    ASSUME NEW S, NEW q \in Seq(S), NEW r \in Seq(S), NEW p, p = q \o r
    PROVE  /\ p \in Seq(S) /\ DOMAIN q \subseteq DOMAIN p
           /\ \A i \in DOMAIN q : p[i] = q[i]
           /\ \A i \in DOMAIN p : i \in DOMAIN q \/ (i - Len(q) \in DOMAIN r /\ p[i] = r[i - Len(q)])
           /\ \A k \in DOMAIN r : k + Len(q) \in DOMAIN p /\ p[k + Len(q)] = r[k] /\ k + Len(q) \notin DOMAIN q
  <1>1. /\ Len(q) \in Nat /\ DOMAIN q = 1..Len(q) /\ Len(r) \in Nat /\ DOMAIN r = 1..Len(r)
    BY SeqShape
  <1>2. /\ p \in Seq(S) /\ Len(p) = Len(q) + Len(r)
        /\ \A i \in 1..Len(p) : p[i] = IF i <= Len(q) THEN q[i] ELSE r[i - Len(q)]
    BY ConcatProperties
  <1>3. DOMAIN p = 1..Len(p)
    BY <1>2, SeqShape
  <1> QED
    BY <1>1, <1>2, <1>3

LEMMA ReportOperationKeeps ==
    ASSUME MoveInv, NEW n \in Nodes, Fleet!ReportOperation(n)
    PROVE  MoveInv'
  <1>1. PICK i : i = agent[n].i
    OBVIOUS
  <1>2. agent[n].at = "op"
    BY DEF Fleet!ReportOperation
  <1>3. i \in DOMAIN ops
    BY <1>1, <1>2 DEF MoveInv, AgentsSound
  <1>4. PICK S : ops \in Seq(OpRows(Nat \cup S))
    BY DEF MoveInv, FleetTyped
  <1>5. PICK done : done = [ops EXCEPT ![i].status = "completed"]
    OBVIOUS
  <1>6. /\ done \in Seq(OpRows(Nat \cup S)) /\ DOMAIN done = DOMAIN ops
        /\ done[i].status = "completed" /\ \A j \in DOMAIN ops \ {i} : done[j] = ops[j]
        /\ \A j \in DOMAIN ops : SameOp(done[j], ops[j])
    BY <1>3, <1>4, <1>5, OpStatusSet DEF SameOp
  <1>7. PICK s : s = IF ops[i].kind = "backup" THEN "ready" ELSE "deleted"
    OBVIOUS
  <1>8. PICK after : after = [snaps EXCEPT ![ops[i].snap].status = s]
    OBVIOUS
  <1>9. after \in Seq(SnapRows) /\ DOMAIN after = DOMAIN snaps /\ SameSnaps(snaps, after)
    <2>1. s \in {"creating", "ready", "deleting", "deleted", "failed"}
      BY <1>7
    <2>2. snaps \in Seq(SnapRows)
      BY DEF MoveInv, FleetTyped
    <2> QED
      BY <1>8, <2>1, <2>2, SnapSet
  <1>10. /\ IF ops[i].kind = "backup"
              THEN /\ snaps' = [j \in DOMAIN after |-> IF j \in Fleet!Retired(n) THEN [after[j] EXCEPT !.status = "deleting"]
                                                                                        ELSE after[j]]
                   /\ ops' = done \o Fleet!RetentionOps(n)
              ELSE snaps' = after /\ ops' = done
         /\ agent' = [agent EXCEPT ![n] = Fleet!Idle]
         /\ UNCHANGED <<box, cmds, approval, storage, files, caller, alone>>
    BY <1>1, <1>5, <1>7, <1>8 DEF Fleet!ReportOperation
  <1>11. snaps' \in Seq(SnapRows) /\ SameSnaps(snaps, snaps')
    <2>1. CASE ops[i].kind = "backup"
      <3>1. \A j \in DOMAIN after : after[j] \in SnapRows /\ [after[j] EXCEPT !.status = "deleting"] \in SnapRows
               /\ [after[j] EXCEPT !.status = "deleting"].node = after[j].node
        <4>1. \A j \in DOMAIN after : after[j] \in SnapRows
          BY <1>9, SeqShape
        <4>2. \A r \in SnapRows : [r EXCEPT !.status = "deleting"] \in SnapRows
                                  /\ [r EXCEPT !.status = "deleting"].node = r.node
          BY DEF SnapRows
        <4> QED
          BY <4>1, <4>2
      <3>2. DOMAIN after = 1..Len(after) /\ Len(after) \in Nat
        BY <1>9, SeqShape
      <3>3. DOMAIN snaps' = DOMAIN after /\ \A j \in DOMAIN after : snaps'[j] \in SnapRows /\ snaps'[j].node = after[j].node
        BY <1>10, <2>1, <3>1
      <3>4. snaps' = [j \in DOMAIN after |-> snaps'[j]]
        BY <1>10, <2>1
      <3>5. snaps' \in [1..Len(after) -> SnapRows]
        BY <3>2, <3>3, <3>4
      <3>6. snaps' \in Seq(SnapRows)
        BY <3>2, <3>5, SeqDef
      <3> QED
        BY <1>9, <3>3, <3>6 DEF SameSnaps
    <2>2. CASE ops[i].kind # "backup"
      BY <1>9, <1>10, <2>2
    <2> QED
      BY <2>1, <2>2
  <1>12. /\ \E T : ops' \in Seq(OpRows(Nat \cup T))
         /\ DOMAIN ops \subseteq DOMAIN ops'
         /\ \A j \in DOMAIN ops : ops'[j] = done[j]
         /\ \A j \in DOMAIN ops' : j \in DOMAIN ops \/ (ops'[j].kind = "delete" /\ ops'[j].approval = Fleet!Idle)
    <2>1. CASE ops[i].kind = "backup"
      <3>1. PICK U : /\ Fleet!RetentionOps(n) \in Seq(OpRows(U))
                     /\ \A k \in DOMAIN Fleet!RetentionOps(n) :
                           LET o == Fleet!RetentionOps(n)[k] IN o.kind = "delete" /\ o.approval = Fleet!Idle
        BY RetentionShape DEF MoveInv, FleetTyped
      <3>2. PICK q : q = Fleet!RetentionOps(n)
        OBVIOUS
      <3>3. PICK T : T = S \cup U
        OBVIOUS
      <3>4. OpRows(U) \subseteq OpRows(Nat \cup T) /\ OpRows(Nat \cup S) \subseteq OpRows(Nat \cup T)
        BY <3>3 DEF OpRows
      <3>5. q \in Seq(OpRows(Nat \cup T)) /\ done \in Seq(OpRows(Nat \cup T))
        BY <1>6, <3>1, <3>2, <3>4, SeqMonotonic
      <3>6. ops' = done \o q
        BY <1>10, <2>1, <3>2
      <3>7. /\ ops' \in Seq(OpRows(Nat \cup T)) /\ DOMAIN done \subseteq DOMAIN ops'
            /\ \A j \in DOMAIN done : ops'[j] = done[j]
            /\ \A j \in DOMAIN ops' : j \in DOMAIN done \/ (j - Len(done) \in DOMAIN q /\ ops'[j] = q[j - Len(done)])
        BY <3>5, <3>6, Joined
      <3>8. \A k \in DOMAIN q : q[k].kind = "delete" /\ q[k].approval = Fleet!Idle
        BY <3>1, <3>2
      <3> QED
        BY <1>6, <3>7, <3>8
    <2>2. CASE ops[i].kind # "backup"
      BY <1>6, <1>10, <2>2
    <2> QED
      BY <2>1, <2>2
  <1>13. SameOps /\ RestoresKnown
    BY <1>6, <1>12 DEF SameOps, RestoresKnown
  <1>14. /\ agent' \in [Nodes -> {Fleet!Idle} \cup Works] /\ BoxesSound' /\ VerdictsSound' /\ FailoversSound'
         /\ RestoresSound' /\ AgentsSound' /\ ReportsSound'
    BY <1>10, <1>11, <1>13, ReportEnds
  <1>15. FleetTyped'
    BY <1>10, <1>11, <1>12, <1>14 DEF MoveInv, FleetTyped
  <1> QED
    BY <1>14, <1>15 DEF MoveInv

-----------------------------------------------------------------------------
(* The completion of a restore.                                            *)

\* It has loaded the mailboxes of the source, and the requests about them are not alone any more.
MoveBegun(t, n, B) ==
    /\ agent[n].at = "op" /\ agent[n].ok /\ ops[agent[n].i].kind = "restore"
    /\ B = {b \in Boxes : box[b].node = ops[agent[n].i].source}
    /\ Begins(t)
    /\ caller'[t] \in Moves /\ caller'[t].at = "moving" /\ caller'[t].node = n /\ caller'[t].i = agent[n].i
    /\ caller'[t].moved = [b \in B |-> box[b]]
    /\ caller'[t].alone => \A b \in B : Fleet!Changing(b) = {}
    /\ \A u \in Callers \ {t} : (\E b \in B : u \in Fleet!Changing(b)) => caller'[u] = [caller[u] EXCEPT !.alone = FALSE]
    /\ \A u \in Callers \ {t} : caller[u].at = "moving" => caller'[u] = caller[u]
    /\ agent' \in [Nodes -> {Fleet!Idle} \cup Works]
    /\ agent'[n].at = "waiting" /\ agent'[n].i = agent[n].i /\ agent'[n].ok = agent[n].ok
    /\ \A m \in Nodes \ {n} : agent'[m] = agent[m]
    /\ UNCHANGED <<box, snaps, ops, cmds, approval, storage, files, alone>>

LEMMA MoveBeginEffect ==
    ASSUME FleetTyped, NEW t \in Callers, NEW n \in Nodes, Fleet!MoveBegin(t, n)
    PROVE  \E B : MoveBegun(t, n, B)
  <1>1. PICK B : B = {b \in Boxes : box[b].node = ops[agent[n].i].source}
    OBVIOUS
  <1>2. PICK lonely : lonely = (\A b \in B : Fleet!Changing(b) = {})
    OBVIOUS
  <1>3. lonely \in BOOLEAN
    BY <1>2
  <1>4. PICK x : x = [b \in B |-> box[b]]
    OBVIOUS
  <1>5. PICK r : r = [at |-> "moving", node |-> n, i |-> agent[n].i, moved |-> x, alone |-> lonely]
    OBVIOUS
  <1>6. agent[n].at = "op" /\ agent[n].ok /\ ops[agent[n].i].kind = "restore" /\ caller[t].at = "idle"
    BY IdleShape DEF Fleet!MoveBegin
  <1>7. agent[n] \in Works /\ agent[n].i \in Nat
    BY <1>6, AgentShape, WorkShape
  <1>8. x \in UNION {[A -> BoxRows] : A \in SUBSET Boxes}
    <2>1. x \in [B -> BoxRows] /\ B \in SUBSET Boxes
      BY <1>1, <1>4 DEF FleetTyped
    <2> QED
      BY <2>1
  <1>9. r \in Moves /\ r.at = "moving" /\ r.node = n /\ r.i = agent[n].i /\ r.moved = x /\ r.alone = lonely
    BY <1>3, <1>5, <1>7, <1>8 DEF Moves
  <1>10. caller' = [u \in Callers |->
                      IF u = t THEN r
                      ELSE IF \E b \in B : u \in Fleet!Changing(b) THEN [caller[u] EXCEPT !.alone = FALSE]
                      ELSE caller[u]]
    BY <1>1, <1>2, <1>4, <1>5 DEF Fleet!MoveBegin
  <1>11. \A b \in B : \A u \in Fleet!Changing(b) : u \in Callers /\ caller[u] \in BoxCalls /\ caller[u].at = "box"
    BY CallerShape DEF Fleet!Changing
  <1>12. /\ \A u \in Callers \ {t} : KeptCall(caller'[u], caller[u])
         /\ \A u \in Callers \ {t} : (\E b \in B : u \in Fleet!Changing(b)) => caller'[u] = [caller[u] EXCEPT !.alone = FALSE]
         /\ \A u \in Callers \ {t} : caller[u].at = "moving" => caller'[u] = caller[u]
    BY <1>10, <1>11 DEF KeptCall
  <1>13. caller'[t] = r /\ DOMAIN caller' = Callers
    BY <1>10
  <1>14. caller' = [u \in Callers |-> caller'[u]]
    BY <1>10
  <1>15. Begins(t)
    BY <1>6, <1>9, <1>12, <1>13, <1>14 DEF Begins, Calls
  <1>16. PICK w : w = [agent[n] EXCEPT !.at = "waiting"]
    OBVIOUS
  <1>17. w \in Works /\ w.at = "waiting" /\ w.i = agent[n].i /\ w.ok = agent[n].ok
    BY <1>7, <1>16 DEF Works
  <1>18. agent' = [agent EXCEPT ![n] = w]
    BY <1>16 DEF Fleet!MoveBegin
  <1>19. agent' \in [Nodes -> {Fleet!Idle} \cup Works] /\ agent'[n] = w /\ \A m \in Nodes \ {n} : agent'[m] = agent[m]
    BY <1>17, <1>18 DEF FleetTyped
  <1>20. UNCHANGED <<box, snaps, ops, cmds, approval, storage, files, alone>>
    BY DEF Fleet!MoveBegin, Fleet!rows
  <1>21. MoveBegun(t, n, B)
    BY <1>1, <1>2, <1>4, <1>6, <1>9, <1>12, <1>13, <1>15, <1>17, <1>19, <1>20 DEF MoveBegun
  <1> QED
    BY <1>21

LEMMA MoveBeginKeeps ==
    ASSUME MoveInv, NEW t \in Callers, NEW n \in Nodes, Fleet!MoveBegin(t, n)
    PROVE  MoveInv'
  <1>1. FleetTyped
    BY DEF MoveInv
  <1>2. PICK B : MoveBegun(t, n, B)
    BY <1>1, MoveBeginEffect
  <1>3. /\ Begins(t) /\ caller'[t].at = "moving" /\ caller'[t].node = n /\ caller'[t].i = agent[n].i
        /\ agent' \in [Nodes -> {Fleet!Idle} \cup Works]
        /\ agent'[n].at = "waiting" /\ agent'[n].i = agent[n].i /\ agent'[n].ok = agent[n].ok
        /\ \A m \in Nodes \ {n} : agent'[m] = agent[m]
        /\ agent[n].at = "op" /\ agent[n].ok /\ ops[agent[n].i].kind = "restore"
        /\ UNCHANGED <<box, snaps, ops, cmds, approval, storage, files, alone>>
    BY <1>2 DEF MoveBegun
  <1>4. caller' \in [Callers -> Calls] /\ \A u \in Callers \ {t} : SameCall(caller'[u], caller[u])
    BY <1>1, <1>3, BeginsShape
  <1>5. FleetTyped'
    BY <1>1, <1>3, <1>4 DEF FleetTyped, Calls
  <1>6. /\ DOMAIN caller'[t].moved = B /\ B \subseteq Boxes /\ \A b \in B : caller'[t].moved[b] = box[b]
        /\ \A b \in B : box[b].node = ops[agent[n].i].source
    BY <1>2 DEF MoveBegun
  <1>7. /\ agent[n].i \in DOMAIN ops /\ ops[agent[n].i].node = n /\ ops[agent[n].i].status # "queued"
        /\ storage[n] = ops[agent[n].i].snap
    BY <1>3 DEF MoveInv, AgentsSound
  <1>8. BoxesSound'
    <2>1. \A u \in Callers \ {t} : caller'[u].at = "box" =>
             /\ box[caller'[u].box].status # "none" /\ caller'[u].row.status # "none" /\ caller'[u].row.node \in Nodes
      BY <1>4 DEF MoveInv, BoxesSound, SameCall
    <2>2. \A b \in B : box[b].status # "none"
      <3>1. ops[agent[n].i].source \in Nodes
        BY <1>1, <1>7, OpShape
      <3> QED
        BY <1>6, <3>1, FleetAssumption DEF MoveInv, BoxesSound
    <2>3. \A u \in Callers \ {t} : caller'[u].at = "moving" => \A b \in DOMAIN caller'[u].moved :
             box[b].status # "none" /\ caller'[u].moved[b].status # "none"
      BY <1>4 DEF MoveInv, BoxesSound, SameCall
    <2>4. \A b \in DOMAIN caller'[t].moved : box[b].status # "none" /\ caller'[t].moved[b].status # "none"
      BY <1>6, <2>2
    <2>5. /\ \A u \in Callers : caller'[u].at = "box" =>
             /\ box[caller'[u].box].status # "none" /\ caller'[u].row.status # "none" /\ caller'[u].row.node \in Nodes
          /\ \A u \in Callers : caller'[u].at = "moving" => \A b \in DOMAIN caller'[u].moved :
             box[b].status # "none" /\ caller'[u].moved[b].status # "none"
      BY <1>3, <2>1, <2>3, <2>4
    <2> QED
      BY <1>3, <2>5 DEF MoveInv, BoxesSound
  <1>9. \A u \in Callers : caller'[u].at \in {"approved", "rejected", "failover"} => caller'[u] = caller[u]
    BY <1>3, <1>4 DEF SameCall
  <1>10. VerdictsSound' /\ FailoversSound'
    BY <1>3, <1>9, SameShots, VerdictsKept, FailoversKept DEF MoveInv
  <1>11. RestoresSound'
    BY <1>3, SameRows, SameShots, RestoresKept DEF MoveInv
  <1>12. AgentsSound'
    <2>1. ASSUME NEW m \in Nodes PROVE AgentSound(m)'
      <3>1. AgentSound(m)
        BY AgentsParts DEF MoveInv
      <3>2. CASE m = n
        BY <1>3, <1>7, <3>2 DEF AgentSound
      <3>3. CASE m # n
        BY <1>3, <3>1, <3>3 DEF AgentSound
      <3> QED
        BY <3>2, <3>3
    <2> QED
      BY <2>1 DEF AgentsSound, AgentSound
  <1>13. ReportsSound'
    <2>1. ASSUME NEW u \in Callers PROVE ReportSound(u)'
      <3>1. CASE u = t
        <4>1. /\ caller'[u].node = n /\ caller'[u].i = agent[n].i /\ DOMAIN caller'[u].moved = B
              /\ \A b \in B : caller'[u].moved[b].node = ops[agent[n].i].source
          BY <1>3, <1>6, <3>1
        <4>2. ops' = ops /\ storage' = storage
          BY <1>3
        <4> QED
          BY <1>3, <1>7, <4>1, <4>2 DEF ReportSound
      <3>2. CASE u # t /\ caller'[u].at = "moving"
        <4>1. /\ caller[u].at = "moving" /\ caller'[u].node = caller[u].node /\ caller'[u].i = caller[u].i
              /\ caller'[u].moved = caller[u].moved
          BY <1>4, <3>2 DEF SameCall
        <4>2. ReportSound(u) /\ caller[u].node \in Nodes
          BY <1>1, <4>1, ReportsParts, MovingBoxes DEF MoveInv
        <4>3. CASE caller[u].node = n
          BY <1>3, <4>1, <4>2, <4>3 DEF ReportSound
        <4>4. CASE caller[u].node # n
          BY <1>3, <4>1, <4>2, <4>4 DEF ReportSound
        <4> QED
          BY <4>3, <4>4
      <3>3. CASE caller'[u].at # "moving"
        BY <3>3 DEF ReportSound
      <3> QED
        BY <3>1, <3>2, <3>3
    <2> QED
      BY <2>1 DEF ReportsSound, ReportSound
  <1> QED
    BY <1>5, <1>8, <1>10, <1>11, <1>12, <1>13 DEF MoveInv

\* Every member of a finite set has one place in its sequence.
LEMMA SetInSequence ==
    ASSUME NEW B, IsFiniteSet(B), NEW q, q = Fleet!SetToSeq(B)
    PROVE  /\ q \in Seq(B)
           /\ \A b \in B : \E k \in DOMAIN q : q[k] = b
           /\ \A j, k \in DOMAIN q : q[j] = q[k] => j = k
  <1>1. PICK m : m = Cardinality(B)
    OBVIOUS
  <1>2. m \in Nat /\ ExistsBijection(1..m, B)
    BY <1>1, FS_CardinalityType
  <1>3. q = CHOOSE f \in [1..m -> B] : Fleet!IsInjective(f)
    BY <1>1, SameCardinality DEF Fleet!SetToSeq
  <1>4. \E f \in [1..m -> B] : Fleet!IsInjective(f)
    BY <1>2 DEF ExistsBijection, Bijection, Injection, IsInjective, Fleet!IsInjective
  <1>5. q \in [1..m -> B] /\ Fleet!IsInjective(q)
    BY <1>3, <1>4
  <1>6. \A j, k \in 1..m : q[j] = q[k] => j = k
    BY <1>5 DEF Fleet!IsInjective
  <1>7. q \in Injection(1..m, B)
    BY <1>5, <1>6 DEF Injection, IsInjective
  <1>8. Cardinality(1..m) = m
    BY <1>2, FS_Interval
  <1>9. q \in Surjection(1..m, B)
    BY <1>1, <1>7, <1>8, FS_Injection
  <1>10. \A b \in B : \E k \in 1..m : q[k] = b
    BY <1>9 DEF Surjection
  <1>11. q \in Seq(B)
    BY <1>2, <1>5, SeqDef
  <1> QED
    BY <1>5, <1>6, <1>10, <1>11

\* It has moved the mailboxes it loaded, with a command for each (added).
MoveDone(t, r, added) ==
    /\ r = caller[t] /\ r \in Moves /\ r.at = "moving"
    /\ box' \in [Boxes -> BoxRows]
    /\ \A b \in DOMAIN r.moved :
          box'[b].node = r.node /\ box'[b].status = box[b].status /\ box'[b].settings = box[b].settings
    /\ \A b \in Boxes \ DOMAIN r.moved : box'[b] = box[b]
    /\ added \in Seq(CmdRows) /\ cmds' = cmds \o added
    /\ \A k \in DOMAIN added : /\ added[k].node = r.node /\ added[k].box \in DOMAIN r.moved /\ added[k].status = "queued"
                               /\ added[k].state = r.moved[added[k].box].status
                               /\ added[k].settings = r.moved[added[k].box].settings
    /\ \A b \in DOMAIN r.moved : \E k \in DOMAIN added : added[k].box = b
    /\ \A j, k \in DOMAIN added : added[j].box = added[k].box => j = k
    /\ alone' \in [Boxes -> BOOLEAN]
    /\ \A b \in Boxes : alone'[b] = IF b \in DOMAIN r.moved THEN r.alone ELSE alone[b]
    /\ ops' = [ops EXCEPT ![r.i].status = "completed"]
    /\ agent' \in [Nodes -> {Fleet!Idle} \cup Works]
    /\ \A m \in Nodes : agent'[m] = agent[m] \/ agent'[m] = Fleet!Idle
    /\ caller' = [caller EXCEPT ![t] = Fleet!Idle]
    /\ UNCHANGED <<snaps, approval, storage, files>>

LEMMA MoveCommitEffect ==
    ASSUME MoveInv, NEW t \in Callers, Fleet!MoveCommit(t)
    PROVE  \E r, added : MoveDone(t, r, added)
  <1>1. PICK r, n : r = caller[t] /\ n = r.node
    OBVIOUS
  <1>2. r.at = "moving" /\ r \in Moves
    BY <1>1, CallerShape DEF MoveInv, Fleet!MoveCommit
  <1>3. PICK B : B = DOMAIN r.moved
    OBVIOUS
  <1>4. n \in Nodes /\ B \subseteq Boxes /\ IsFiniteSet(B) /\ r.alone \in BOOLEAN /\ \A b \in B : r.moved[b] \in BoxRows
    <2>1. n \in Nodes /\ B \subseteq Boxes /\ r.alone \in BOOLEAN /\ \A b \in B : r.moved[b] \in BoxRows
      BY <1>1, <1>2, <1>3, MoveShape
    <2>2. IsFiniteSet(B)
      BY <2>1, FleetAssumption, FS_Subset
    <2> QED
      BY <2>1, <2>2
  <1>5. PICK order : order = Fleet!SetToSeq(B)
    OBVIOUS
  <1>6. /\ order \in Seq(B)
        /\ \A b \in B : \E k \in DOMAIN order : order[k] = b
        /\ \A j, k \in DOMAIN order : order[j] = order[k] => j = k
    BY <1>4, <1>5, SetInSequence
  <1>7. Len(order) \in Nat /\ DOMAIN order = 1..Len(order) /\ \A k \in DOMAIN order : order[k] \in B
    BY <1>6, SeqShape
  <1>8. PICK added : added = [k \in DOMAIN order |-> Fleet!Sync(n, order[k], r.moved[order[k]])]
    OBVIOUS
  <1>9. \A b \in B : LET e == Fleet!Sync(n, b, r.moved[b]) IN
          /\ e \in CmdRows /\ e.node = n /\ e.box = b /\ e.status = "queued"
          /\ e.state = r.moved[b].status /\ e.settings = r.moved[b].settings
    <2>1. ASSUME NEW b \in B, NEW e, e = Fleet!Sync(n, b, r.moved[b])
          PROVE  /\ e \in CmdRows /\ e.node = n /\ e.box = b /\ e.status = "queued"
                 /\ e.state = r.moved[b].status /\ e.settings = r.moved[b].settings
      <3>1. PICK x : x = r.moved[b]
        OBVIOUS
      <3>2. x \in BoxRows /\ b \in Boxes
        BY <1>4, <3>1
      <3>3. e = [node |-> n, box |-> b, status |-> "queued", state |-> x.status, settings |-> x.settings]
        BY <2>1, <3>1 DEF Fleet!Sync
      <3>4. e \in CmdRows /\ e.node = n /\ e.box = b /\ e.status = "queued" /\ e.state = x.status /\ e.settings = x.settings
        BY <1>4, <3>2, <3>3 DEF CmdRows, BoxRows
      <3> QED
        BY <3>1, <3>4
    <2> QED
      BY <2>1
  <1>10. /\ DOMAIN added = DOMAIN order /\ added \in [1..Len(order) -> CmdRows]
         /\ \A k \in DOMAIN order :
              /\ added[k].node = n /\ added[k].box = order[k] /\ added[k].status = "queued"
              /\ added[k].state = r.moved[order[k]].status /\ added[k].settings = r.moved[order[k]].settings
    BY <1>7, <1>8, <1>9
  <1>11. added \in Seq(CmdRows)
    BY <1>7, <1>10, SeqDef
  <1>12. box' = [b \in Boxes |-> IF b \in B THEN [box[b] EXCEPT !.node = n] ELSE box[b]]
    BY <1>1, <1>3 DEF Fleet!MoveCommit
  <1>13. \A w \in BoxRows : LET v == [w EXCEPT !.node = n] IN
           v \in BoxRows /\ v.node = n /\ v.status = w.status /\ v.settings = w.settings
    BY <1>4 DEF BoxRows
  <1>14. /\ box' \in [Boxes -> BoxRows]
         /\ \A b \in B : box'[b].node = n /\ box'[b].status = box[b].status /\ box'[b].settings = box[b].settings
         /\ \A b \in Boxes \ B : box'[b] = box[b]
    <2>1. box \in [Boxes -> BoxRows]
      BY DEF MoveInv, FleetTyped
    <2> QED
      BY <1>4, <1>12, <1>13, <2>1
  <1>15. alone' = [b \in Boxes |-> IF b \in B THEN r.alone ELSE alone[b]]
    BY <1>1, <1>3 DEF Fleet!MoveCommit
  <1>16. alone' \in [Boxes -> BOOLEAN] /\ \A b \in Boxes : alone'[b] = IF b \in B THEN r.alone ELSE alone[b]
    <2>1. alone \in [Boxes -> BOOLEAN]
      BY DEF MoveInv, FleetTyped
    <2> QED
      BY <1>4, <1>15, <2>1
  <1>17. /\ cmds' = cmds \o added /\ ops' = [ops EXCEPT ![r.i].status = "completed"]
         /\ agent' = IF agent[n].at = "waiting" /\ agent[n].i = r.i THEN [agent EXCEPT ![n] = Fleet!Idle] ELSE agent
         /\ caller' = [caller EXCEPT ![t] = Fleet!Idle]
         /\ UNCHANGED <<snaps, approval, storage, files>>
    BY <1>1, <1>3, <1>5, <1>8 DEF Fleet!MoveCommit
  <1>18. /\ \A k \in DOMAIN added : /\ added[k].node = n /\ added[k].box \in B /\ added[k].status = "queued"
                                    /\ added[k].state = r.moved[added[k].box].status
                                    /\ added[k].settings = r.moved[added[k].box].settings
         /\ \A b \in B : \E k \in DOMAIN added : added[k].box = b
         /\ \A j, k \in DOMAIN added : added[j].box = added[k].box => j = k
    BY <1>6, <1>7, <1>10
  <1>19. /\ agent' \in [Nodes -> {Fleet!Idle} \cup Works]
         /\ \A m \in Nodes : agent'[m] = agent[m] \/ agent'[m] = Fleet!Idle
    <2>1. agent \in [Nodes -> {Fleet!Idle} \cup Works]
      BY DEF MoveInv, FleetTyped
    <2> QED
      BY <1>4, <1>17, <2>1
  <1>20. MoveDone(t, r, added)
    BY <1>1, <1>2, <1>3, <1>11, <1>14, <1>16, <1>17, <1>18, <1>19 DEF MoveDone
  <1> QED
    BY <1>20

LEMMA MoveCommitKeeps ==
    ASSUME MoveInv, NEW t \in Callers, Fleet!MoveCommit(t)
    PROVE  MoveInv'
  <1>1. PICK r, added : MoveDone(t, r, added)
    BY MoveCommitEffect
  <1>2. /\ r = caller[t] /\ r.at = "moving" /\ r \in Moves /\ ops' = [ops EXCEPT ![r.i].status = "completed"]
        /\ agent' \in [Nodes -> {Fleet!Idle} \cup Works]
        /\ \A m \in Nodes : agent'[m] = agent[m] \/ agent'[m] = Fleet!Idle
        /\ caller' = [caller EXCEPT ![t] = Fleet!Idle]
        /\ box' \in [Boxes -> BoxRows] /\ alone' \in [Boxes -> BOOLEAN]
        /\ added \in Seq(CmdRows) /\ cmds' = cmds \o added
        /\ UNCHANGED <<snaps, approval, storage, files>>
    BY <1>1 DEF MoveDone
  <1>3. PICK i : i = r.i
    OBVIOUS
  <1>4. i \in DOMAIN ops /\ ops[i].status # "queued"
    BY <1>2, <1>3 DEF MoveInv, ReportsSound
  <1>5. PICK S : ops \in Seq(OpRows(Nat \cup S))
    BY DEF MoveInv, FleetTyped
  <1>6. /\ ops' \in Seq(OpRows(Nat \cup S)) /\ DOMAIN ops' = DOMAIN ops /\ ops'[i].status = "completed"
        /\ \A j \in DOMAIN ops \ {i} : ops'[j] = ops[j]
        /\ \A j \in DOMAIN ops : SameOp(ops'[j], ops[j])
    <2>1. ops' = [ops EXCEPT ![i].status = "completed"]
      BY <1>2, <1>3
    <2> QED
      BY <1>4, <1>5, <2>1, OpStatusSet DEF SameOp
  <1>7. SameOps /\ RestoresKnown
    BY <1>6 DEF SameOps, RestoresKnown
  <1>8. caller' \in [Callers -> Calls] /\ \A u \in Callers : caller'[u].at # "idle" => caller'[u] = caller[u]
    BY <1>2, CallerEnds DEF MoveInv
  <1>9. cmds' \in Seq(CmdRows)
    BY <1>2, Joined DEF MoveInv, FleetTyped
  <1>10. FleetTyped'
    BY <1>2, <1>6, <1>8, <1>9 DEF MoveInv, FleetTyped, Calls
  <1>11. BoxesSound'
    <2>1. /\ \A b \in DOMAIN r.moved : box'[b].node = r.node /\ box'[b].status = box[b].status
          /\ \A b \in Boxes \ DOMAIN r.moved : box'[b] = box[b]
      BY <1>1 DEF MoveDone
    <2>2. r.node \in Nodes /\ \A b \in DOMAIN r.moved : box[b].status # "none"
      BY <1>2, MoveShape DEF MoveInv, BoxesSound
    <2>3. \A b \in Boxes : box'[b].status = box[b].status
      BY <2>1
    <2>4. \A b \in Boxes : box'[b].status = "none" <=> box'[b].node = NoNode
      BY <2>1, <2>2, <2>3, FleetAssumption DEF MoveInv, BoxesSound
    <2> QED
      BY <1>8, <2>3, <2>4, BoxesKept DEF MoveInv
  <1>12. VerdictsSound' /\ FailoversSound'
    BY <1>2, <1>8, SameShots, VerdictsKept, FailoversKept DEF MoveInv
  <1>13. RestoresSound'
    BY <1>2, <1>7, SameShots, RestoresKept DEF MoveInv
  <1>14. AgentsSound' /\ ReportsSound'
    <2>1. \A m \in Nodes : agent'[m].at \in {"op", "waiting"} => agent'[m] = agent[m]
      BY <1>2, IdleShape
    <2> QED
      BY <1>2, <1>7, <1>8, <2>1, AgentsKept, ReportsKept DEF MoveInv
  <1> QED
    BY <1>10, <1>11, <1>12, <1>13, <1>14 DEF MoveInv

-----------------------------------------------------------------------------
(* Commands and accounts.                                                  *)

\* Commands are added behind the others, for mailboxes of B.
CmdsGrown(B) ==
    /\ DOMAIN cmds \subseteq DOMAIN cmds' /\ \A i \in DOMAIN cmds : cmds'[i] = cmds[i]
    /\ \A j \in DOMAIN cmds' \ DOMAIN cmds :
          cmds'[j].status = "queued" /\ cmds'[j].box \in B /\ \A i \in DOMAIN cmds : i < j

LastOf(b) ==
    alone[b] /\ box[b].node # NoNode =>
        \E i \in DOMAIN cmds :
            /\ Mine(i, box[b].node, b)
            /\ \A j \in DOMAIN cmds : Mine(j, box[b].node, b) => j <= i
            /\ cmds[i].state = box[b].status /\ cmds[i].settings = box[b].settings

LEMMA LastParts == LastSound <=> \A b \in Boxes : LastOf(b)
  BY DEF LastSound, LastOf

\* Commands keep what they say and do not wait again, and none is written by the step.
LEMMA FilesKept ==
    ASSUME FilesSound, UNCHANGED files, DOMAIN cmds \subseteq DOMAIN cmds',
           \A j \in DOMAIN cmds : /\ cmds'[j].node = cmds[j].node /\ cmds'[j].box = cmds[j].box
                                  /\ cmds'[j].state = cmds[j].state /\ cmds'[j].settings = cmds[j].settings
                                  /\ cmds'[j].status = "queued" => cmds[j].status = "queued",
           \A m \in Nodes, j \in DOMAIN cmds' : cmds'[j].node = m /\ Written(j, m)' => j \in DOMAIN cmds /\ Written(j, m)
    PROVE  FilesSound'
  <1>1. SUFFICES ASSUME NEW n \in Nodes, NEW b \in Boxes, NEW i \in DOMAIN cmds',
                        Mine(i, n, b)', Written(i, n)', Followed(i, n, b)'
                 PROVE  Says(n, b, IF cmds[i].state = "active" THEN cmds[i].settings ELSE 0)'
    BY DEF FilesSound
  <1>2. i \in DOMAIN cmds /\ Written(i, n) /\ Mine(i, n, b)
    BY <1>1 DEF Mine
  <1>3. Followed(i, n, b)
    <2>1. ASSUME NEW j \in DOMAIN cmds, j > i, cmds[j].node = n
          PROVE  cmds[j].status = "queued" \/ (cmds[j].box # b /\ Written(j, n))
      <3>1. j \in DOMAIN cmds' /\ cmds'[j].node = n
        BY <2>1
      <3>2. cmds'[j].status = "queued" \/ (cmds'[j].box # b /\ Written(j, n)')
        BY <1>1, <2>1, <3>1 DEF Followed
      <3> QED
        BY <2>1, <3>1, <3>2
    <2> QED
      BY <2>1 DEF Followed
  <1>4. Says(n, b, IF cmds[i].state = "active" THEN cmds[i].settings ELSE 0)
    BY <1>2, <1>3 DEF FilesSound
  <1> QED
    BY <1>2, <1>4 DEF Says

LEMMA GrownKeeps ==
    ASSUME CommandsOrdered, FilesSound, NEW B, CmdsGrown(B), cmds' \in Seq(CmdRows), UNCHANGED files,
           \A n \in Nodes : agent'[n].at = "cmd" => agent'[n] = agent[n]
    PROVE  CommandsOrdered' /\ FilesSound'
  <1>1. DOMAIN cmds' \subseteq Nat
    BY SeqShape
  <1>2. CommandsOrdered'
    <2>1. ASSUME NEW i \in DOMAIN cmds', NEW j \in DOMAIN cmds', i < j, cmds'[i].node = cmds'[j].node,
                 cmds'[i].status = "queued"
          PROVE  cmds'[j].status = "queued"
      <3>1. CASE j \notin DOMAIN cmds
        BY <3>1 DEF CmdsGrown
      <3>2. CASE j \in DOMAIN cmds
        <4>1. i \in DOMAIN cmds
          BY <1>1, <2>1, <3>2 DEF CmdsGrown
        <4> QED
          BY <2>1, <3>2, <4>1 DEF CmdsGrown, CommandsOrdered
      <3> QED
        BY <3>1, <3>2
    <2>2. ASSUME NEW n \in Nodes, agent'[n].at = "cmd"
          PROVE  /\ agent'[n].i \in DOMAIN cmds'
                 /\ cmds'[agent'[n].i].node = n /\ cmds'[agent'[n].i].status = "claimed"
      BY <2>2 DEF CmdsGrown, CommandsOrdered
    <2> QED
      BY <2>1, <2>2 DEF CommandsOrdered
  <1>3. FilesSound'
    <2>1. ASSUME NEW m \in Nodes, NEW j \in DOMAIN cmds', Written(j, m)'
          PROVE  j \in DOMAIN cmds /\ Written(j, m)
      <3>1. CASE cmds'[j].status = "completed"
        BY <3>1 DEF CmdsGrown, Written
      <3>2. CASE agent'[m].at = "cmd" /\ agent'[m].i = j /\ agent'[m].ok
        BY <3>2 DEF CommandsOrdered, Written
      <3> QED
        BY <2>1, <3>1, <3>2 DEF Written
    <2>2. /\ DOMAIN cmds \subseteq DOMAIN cmds' /\ \A j \in DOMAIN cmds : cmds'[j] = cmds[j]
      BY DEF CmdsGrown
    <2> QED
      BY <2>1, <2>2, FilesKept
  <1> QED
    BY <1>2, <1>3

LEMMA LastKept ==
    ASSUME NEW B, CmdsGrown(B), NEW b \in Boxes \ B, LastOf(b), box'[b] = box[b], alone'[b] = alone[b]
    PROVE  LastOf(b)'
  <1>1. SUFFICES ASSUME alone'[b], box'[b].node # NoNode PROVE LastOf(b)'
    BY DEF LastOf
  <1>2. PICK i \in DOMAIN cmds :
            /\ Mine(i, box[b].node, b)
            /\ \A j \in DOMAIN cmds : Mine(j, box[b].node, b) => j <= i
            /\ cmds[i].state = box[b].status /\ cmds[i].settings = box[b].settings
    BY <1>1 DEF LastOf
  <1>3. i \in DOMAIN cmds' /\ cmds'[i] = cmds[i]
    BY DEF CmdsGrown
  <1>4. \A j \in DOMAIN cmds' : cmds'[j].node = box[b].node /\ cmds'[j].box = b => j \in DOMAIN cmds /\ cmds[j] = cmds'[j]
    BY DEF CmdsGrown
  <1>5. \A j \in DOMAIN cmds' : cmds'[j].node = box[b].node /\ cmds'[j].box = b => j <= i
    BY <1>2, <1>4 DEF Mine
  <1>6. cmds'[i].node = box[b].node /\ cmds'[i].box = b
    BY <1>2, <1>3 DEF Mine
  <1> QED
    BY <1>2, <1>3, <1>5, <1>6 DEF LastOf, Mine

\* A last command for mailbox b that says what the row says.
LEMMA LastAdded ==
    ASSUME NEW b \in Boxes, NEW i \in DOMAIN cmds', cmds'[i].node = box'[b].node, cmds'[i].box = b,
           \A j \in DOMAIN cmds' : cmds'[j].node = box'[b].node /\ cmds'[j].box = b => j <= i,
           cmds'[i].state = box'[b].status, cmds'[i].settings = box'[b].settings
    PROVE  LastOf(b)'
  BY DEF LastOf, Mine

LEMMA AloneKept ==
    ASSUME AloneSound, MoveInv,
           \A u \in Callers : caller'[u].at \in {"box", "moving"} => caller'[u] = caller[u],
           \A u \in Callers : caller'[u].at = "box" /\ caller[u].alone => box'[caller[u].box] = box[caller[u].box],
           \A u \in Callers : caller'[u].at = "moving" /\ caller[u].alone => \A b \in DOMAIN caller[u].moved :
              box'[b].status = box[b].status /\ box'[b].settings = box[b].settings
    PROVE  AloneSound'
  <1>1. ASSUME NEW t \in Callers, caller'[t].at = "box", caller'[t].alone
        PROVE  /\ caller'[t].row = box'[caller'[t].box]
               /\ \A u \in Callers : caller'[u].at = "box" /\ caller'[u].box = caller'[t].box => u = t
               /\ \A u \in Callers : caller'[u].at = "moving" => caller'[t].box \notin DOMAIN caller'[u].moved
    <2>1. caller'[t] = caller[t] /\ caller[t].at = "box" /\ caller[t].alone
      BY <1>1
    <2>2. caller[t].row = box[caller[t].box] /\ box'[caller[t].box] = box[caller[t].box]
      BY <1>1, <2>1 DEF AloneSound
    <2>3. \A u \in Callers : caller'[u].at = "box" /\ caller'[u].box = caller'[t].box => u = t
      BY <2>1 DEF AloneSound
    <2>4. \A u \in Callers : caller'[u].at = "moving" => caller'[t].box \notin DOMAIN caller'[u].moved
      BY <2>1 DEF AloneSound
    <2> QED
      BY <2>1, <2>2, <2>3, <2>4
  <1>2. ASSUME NEW t \in Callers, caller'[t].at = "moving", caller'[t].alone, NEW b \in DOMAIN caller'[t].moved
        PROVE  /\ caller'[t].moved[b].status = box'[b].status /\ caller'[t].moved[b].settings = box'[b].settings
               /\ \A u \in Callers : ~(caller'[u].at = "box" /\ caller'[u].box = b)
    <2>1. caller'[t] = caller[t] /\ caller[t].at = "moving" /\ caller[t].alone /\ b \in DOMAIN caller[t].moved
      BY <1>2
    <2>2. box'[b].status = box[b].status /\ box'[b].settings = box[b].settings
      BY <1>2, <2>1
    <2>3. caller[t].moved[b].status = box[b].status /\ caller[t].moved[b].settings = box[b].settings
      BY <2>1 DEF AloneSound
    <2>4. \A u \in Callers : ~(caller'[u].at = "box" /\ caller'[u].box = b)
      BY <2>1 DEF AloneSound
    <2> QED
      BY <2>1, <2>2, <2>3, <2>4
  <1> QED
    BY <1>1, <1>2 DEF AloneSound

\* The rows of mailboxes and commands stay, and what requests and agents do with them.
LEMMA AccountStepKeeps ==
    ASSUME AccountInv, MoveInv', UNCHANGED <<box, cmds, files, alone>>,
           \A u \in Callers : caller'[u].at \in {"box", "moving"} => caller'[u] = caller[u],
           \A n \in Nodes : agent'[n].at = "cmd" => agent'[n] = agent[n]
    PROVE  AccountInv'
  <1>1. CmdsGrown({})
    BY DEF CmdsGrown
  <1>2. cmds' \in Seq(CmdRows)
    BY DEF MoveInv, FleetTyped
  <1>3. CommandsOrdered' /\ FilesSound'
    BY <1>1, <1>2, GrownKeeps DEF AccountInv
  <1>4. \A b \in Boxes : LastOf(b)'
    BY <1>1, LastKept, LastParts DEF AccountInv
  <1>5. LastSound'
    BY <1>4 DEF LastSound, LastOf
  <1>6. AloneSound'
    BY AloneKept DEF AccountInv
  <1> QED
    BY <1>3, <1>5, <1>6 DEF AccountInv

\* A command appended for one mailbox is its last.
LEMMA CommandAdded ==
    ASSUME cmds \in Seq(CmdRows), NEW e \in CmdRows, e.status = "queued", cmds' = Append(cmds, e)
    PROVE  /\ cmds' \in Seq(CmdRows) /\ CmdsGrown({e.box})
           /\ Len(cmds) + 1 \in DOMAIN cmds' /\ cmds'[Len(cmds) + 1] = e
           /\ \A j \in DOMAIN cmds' : j <= Len(cmds) + 1
  <1>1. Len(cmds) \in Nat /\ DOMAIN cmds = 1..Len(cmds)
    BY SeqShape
  <1>2. /\ cmds' \in Seq(CmdRows) /\ DOMAIN cmds' = 1..(Len(cmds) + 1) /\ DOMAIN cmds \subseteq DOMAIN cmds'
        /\ \A i \in DOMAIN cmds : cmds'[i] = cmds[i]
        /\ cmds'[Len(cmds) + 1] = e
        /\ \A i \in DOMAIN cmds' : i \in DOMAIN cmds \/ i = Len(cmds) + 1
    BY Appended
  <1>3. CmdsGrown({e.box})
    <2>1. ASSUME NEW j \in DOMAIN cmds' \ DOMAIN cmds
          PROVE  cmds'[j].status = "queued" /\ cmds'[j].box \in {e.box} /\ \A i \in DOMAIN cmds : i < j
      <3>1. j = Len(cmds) + 1
        BY <1>2, <2>1
      <3> QED
        BY <1>1, <1>2, <3>1
    <2> QED
      BY <1>2, <2>1 DEF CmdsGrown
  <1> QED
    BY <1>1, <1>2, <1>3

LEMMA CreateMailboxAccounts ==
    ASSUME AccountInv, MoveInv', NEW b \in Boxes, NEW n \in Nodes, Fleet!CreateMailbox(b, n)
    PROVE  AccountInv'
  <1>1. PICK w : w = [node |-> n, status |-> "active", settings |-> 1]
    OBVIOUS
  <1>2. /\ box[b].status = "none" /\ box' = [box EXCEPT ![b] = w] /\ cmds' = Append(cmds, Fleet!Sync(n, b, box'[b]))
        /\ UNCHANGED <<caller, agent, files, alone>>
    BY <1>1 DEF Fleet!CreateMailbox, Fleet!nodeSide
  <1>3. box \in [Boxes -> BoxRows] /\ cmds \in Seq(CmdRows)
    BY DEF AccountInv, MoveInv, FleetTyped
  <1>4. box'[b] = w /\ \A c \in Boxes \ {b} : box'[c] = box[c]
    BY <1>2, <1>3
  <1>5. PICK e : e = Fleet!Sync(n, b, w)
    OBVIOUS
  <1>6. /\ e \in CmdRows /\ e.status = "queued" /\ e.box = b /\ e.node = w.node /\ w.node = n
        /\ e.state = w.status /\ e.settings = w.settings
    BY <1>1, <1>5 DEF Fleet!Sync, CmdRows
  <1>7. /\ cmds' \in Seq(CmdRows) /\ CmdsGrown({b})
        /\ Len(cmds) + 1 \in DOMAIN cmds' /\ cmds'[Len(cmds) + 1] = e
        /\ \A j \in DOMAIN cmds' : j <= Len(cmds) + 1
    <2>1. cmds' = Append(cmds, e)
      BY <1>2, <1>4, <1>5
    <2> QED
      BY <1>3, <1>6, <2>1, CommandAdded
  <1>8. CommandsOrdered' /\ FilesSound'
    BY <1>2, <1>7, GrownKeeps DEF AccountInv
  <1>9. LastOf(b)'
    BY <1>4, <1>6, <1>7, LastAdded
  <1>10. \A c \in Boxes \ {b} : LastOf(c)'
    BY <1>2, <1>4, <1>7, LastKept, LastParts DEF AccountInv
  <1>11. LastSound'
    BY <1>9, <1>10 DEF LastSound, LastOf
  <1>12. AloneSound'
    <2>1. \A u \in Callers : caller[u].at = "box" => caller[u].box \in Boxes \ {b}
      BY <1>2, CallerShape, BoxCallShape DEF AccountInv, MoveInv, BoxesSound
    <2>2. \A u \in Callers : caller[u].at = "moving" => DOMAIN caller[u].moved \subseteq Boxes
      BY MovingBoxes DEF AccountInv, MoveInv
    <2>3. \A u \in Callers : caller[u].at = "moving" => b \notin DOMAIN caller[u].moved
      BY <1>2 DEF AccountInv, MoveInv, BoxesSound
    <2>4. AloneSound /\ MoveInv
      BY DEF AccountInv
    <2> QED
      BY <1>2, <1>4, <2>1, <2>2, <2>3, <2>4, AloneKept
  <1> QED
    BY <1>8, <1>11, <1>12 DEF AccountInv

LEMMA ChangeCommitAccounts ==
    ASSUME AccountInv, MoveInv', NEW t \in Callers, Fleet!ChangeCommit(t)
    PROVE  AccountInv'
  <1> MoveInv /\ AloneSound
    BY DEF AccountInv
  <1>1. PICK r \in BoxCalls, w \in BoxRows, e \in CmdRows :
             /\ r = caller[t] /\ r.at = "box" /\ r.row \in BoxRows
             /\ w = [box[r.box] EXCEPT ![r.column] = r.value] /\ w.node = box[r.box].node /\ w.status # "none"
             /\ e = Fleet!Sync(r.row.node, r.box, [r.row EXCEPT ![r.column] = r.value])
             /\ box' \in [Boxes -> BoxRows] /\ box'[r.box] = w /\ \A b \in Boxes \ {r.box} : box'[b] = box[b]
             /\ cmds' = Append(cmds, e)
             /\ alone' = [alone EXCEPT ![r.box] = r.alone]
             /\ caller' = [caller EXCEPT ![t] = Fleet!Idle]
             /\ UNCHANGED <<snaps, ops, approval, agent, storage, files>>
    BY ChangeCommitEffect
  <1>2. r.box \in Boxes /\ r.alone \in BOOLEAN
    BY BoxCallShape
  <1>3. caller'[t].at = "idle" /\ \A u \in Callers \ {t} : caller'[u] = caller[u]
    BY <1>1, CallerEnds DEF MoveInv
  <1>4. PICK x : x = [r.row EXCEPT ![r.column] = r.value]
    OBVIOUS
  <1>5. e = [node |-> r.row.node, box |-> r.box, status |-> "queued", state |-> x.status, settings |-> x.settings]
    BY <1>1, <1>4 DEF Fleet!Sync
  <1>6. e.status = "queued" /\ e.box = r.box /\ e.node = r.row.node /\ e.state = x.status /\ e.settings = x.settings
    BY <1>5
  <1>7. /\ cmds' \in Seq(CmdRows) /\ CmdsGrown({r.box})
        /\ Len(cmds) + 1 \in DOMAIN cmds' /\ cmds'[Len(cmds) + 1] = e
        /\ \A j \in DOMAIN cmds' : j <= Len(cmds) + 1
    <2>1. cmds \in Seq(CmdRows) /\ cmds' = Append(cmds, e)
      BY <1>1 DEF MoveInv, FleetTyped
    <2> QED
      BY <1>6, <2>1, CommandAdded
  <1>8. CommandsOrdered' /\ FilesSound'
    BY <1>1, <1>7, GrownKeeps DEF AccountInv
  <1>9. alone'[r.box] = r.alone /\ \A b \in Boxes \ {r.box} : alone'[b] = alone[b]
    <2>1. alone \in [Boxes -> BOOLEAN] /\ alone' = [alone EXCEPT ![r.box] = r.alone]
      BY <1>1 DEF MoveInv, FleetTyped
    <2> QED
      BY <1>2, <2>1
  <1>10. LastOf(r.box)'
    <2>1. CASE r.alone
      <3>1. r.row = box[r.box]
        BY <1>1, <2>1 DEF AloneSound
      <3>2. x = w
        BY <1>1, <1>4, <3>1
      <3>3. e.node = box'[r.box].node /\ e.state = box'[r.box].status /\ e.settings = box'[r.box].settings
        <4>1. box'[r.box] = w /\ w.node = box[r.box].node
          BY <1>1
        <4> QED
          BY <1>6, <3>1, <3>2, <4>1
      <3> QED
        BY <1>2, <1>6, <1>7, <3>3, LastAdded
    <2>2. CASE ~r.alone
      BY <1>9, <2>2 DEF LastOf
    <2> QED
      BY <2>1, <2>2
  <1>11. \A b \in Boxes \ {r.box} : LastOf(b)'
    <2>1. \A b \in Boxes \ {r.box} : box'[b] = box[b]
      BY <1>1
    <2> QED
      BY <1>7, <1>9, <2>1, LastKept, LastParts DEF AccountInv
  <1>12. LastSound'
    BY <1>10, <1>11 DEF LastSound, LastOf
  <1>13. AloneSound'
    <2>1. caller[t].at = "box" /\ caller[t].box = r.box /\ \A b \in Boxes \ {r.box} : box'[b] = box[b]
      BY <1>1
    <2>2. \A u \in Callers : caller'[u].at \in {"box", "moving"} => caller'[u] = caller[u] /\ u # t
      BY <1>3
    <2>3. \A u \in Callers : caller[u].at = "box" => caller[u].box \in Boxes
      BY CallerShape, BoxCallShape DEF MoveInv
    <2>4. \A u \in Callers : caller'[u].at = "box" /\ caller[u].alone => box'[caller[u].box] = box[caller[u].box]
      <3>1. ASSUME NEW u \in Callers, caller'[u].at = "box", caller[u].alone
            PROVE  caller[u].box \in Boxes \ {r.box}
        BY <2>1, <2>2, <2>3, <3>1 DEF AloneSound
      <3> QED
        BY <2>1, <3>1
    <2>5. \A u \in Callers : caller[u].at = "moving" => DOMAIN caller[u].moved \subseteq Boxes
      BY MovingBoxes DEF MoveInv
    <2>6. \A u \in Callers : caller'[u].at = "moving" /\ caller[u].alone => \A b \in DOMAIN caller[u].moved :
              box'[b].status = box[b].status /\ box'[b].settings = box[b].settings
      <3>1. ASSUME NEW u \in Callers, caller'[u].at = "moving", caller[u].alone, NEW b \in DOMAIN caller[u].moved
            PROVE  b \in Boxes \ {r.box}
        BY <2>1, <2>2, <2>5, <3>1 DEF AloneSound
      <3> QED
        BY <2>1, <3>1
    <2> QED
      BY <2>2, <2>4, <2>6, AloneKept
  <1> QED
    BY <1>8, <1>12, <1>13 DEF AccountInv

\* Requests are marked as overlapped: rows, commands and accounts stay.
LEMMA MarkedKeeps ==
    ASSUME AccountInv, MoveInv', UNCHANGED <<box, cmds, files, alone>>,
           \A n \in Nodes : agent'[n].at = "cmd" => agent'[n] = agent[n]
    PROVE  CommandsOrdered' /\ FilesSound' /\ LastSound'
  <1>1. CmdsGrown({})
    BY DEF CmdsGrown
  <1>2. cmds' \in Seq(CmdRows)
    BY DEF MoveInv, FleetTyped
  <1>3. CommandsOrdered' /\ FilesSound'
    BY <1>1, <1>2, GrownKeeps DEF AccountInv
  <1>4. \A b \in Boxes : LastOf(b)'
    BY <1>1, LastKept, LastParts DEF AccountInv
  <1>5. LastSound'
    BY <1>4 DEF LastSound, LastOf
  <1> QED
    BY <1>3, <1>5

\* A request that is still alone is as it was.
LEMMA StillAlone ==
    ASSUME NEW c \in Calls, NEW d, KeptCall(d, c), d.at \in {"box", "moving"}, d.alone
    PROVE  d = c
  BY CallMarked, MoveMarked DEF KeptCall

\* The others that are still alone, when request t begins and marks those of M.
LEMMA OthersAlone ==
    ASSUME FleetTyped, NEW t \in Callers, Begins(t), NEW M,
           \A u \in Callers \ {t} : u \in M => caller[u].at \in {"box", "moving"} /\ caller'[u] = [caller[u] EXCEPT !.alone = FALSE],
           NEW u \in Callers \ {t}, caller'[u].at \in {"box", "moving"}, caller'[u].alone
    PROVE  caller'[u] = caller[u] /\ u \notin M
  <1>1. caller[u] \in Calls /\ KeptCall(caller'[u], caller[u])
    BY DEF FleetTyped, Calls, Begins
  <1>2. caller'[u] = caller[u]
    BY <1>1, StillAlone
  <1>3. ASSUME u \in M PROVE FALSE
    <2>1. caller[u] \in BoxCalls \cup Moves /\ caller'[u] = [caller[u] EXCEPT !.alone = FALSE]
      BY <1>3, CallerShape
    <2> QED
      BY <2>1, CallMarked, MoveMarked
  <1> QED
    BY <1>2, <1>3

LEMMA ChangeBeginAccounts ==
    ASSUME AccountInv, MoveInv', NEW t \in Callers, NEW b \in Boxes, NEW column, NEW value,
           \/ column = "settings" /\ value \in Nat
           \/ column = "status" /\ value \in {"active", "suspended", "archived"},
           Fleet!ChangeBegin(t, b, column, value)
    PROVE  AccountInv'
  <1> MoveInv /\ AloneSound /\ FleetTyped
    BY DEF AccountInv, MoveInv
  <1>1. /\ Begins(t)
        /\ caller'[t].at = "box" /\ caller'[t].box = b /\ caller'[t].row = box[b]
        /\ caller'[t].alone => Fleet!Changing(b) = {} /\ Fleet!Moving(b) = {}
        /\ \A u \in Callers \ {t} : u \in Fleet!Changing(b) \cup Fleet!Moving(b) =>
              caller'[u] = [caller[u] EXCEPT !.alone = FALSE]
        /\ UNCHANGED <<box, snaps, ops, cmds, approval, agent, storage, files, alone>>
    BY BeginEffect
  <1>2. \A u \in Callers \ {t} : SameCall(caller'[u], caller[u])
    BY <1>1, BeginsShape
  <1>3. \A u \in Callers \ {t} :
           /\ caller'[u].at = "box" => caller[u].at = "box" /\ caller'[u].box = caller[u].box
           /\ caller'[u].at = "moving" => caller[u].at = "moving" /\ caller'[u].moved = caller[u].moved
    BY <1>2 DEF SameCall
  <1>4. CommandsOrdered' /\ FilesSound' /\ LastSound'
    BY <1>1, MarkedKeeps
  <1>5. \A u \in Callers \ {t} : caller'[u].at \in {"box", "moving"} /\ caller'[u].alone =>
           caller'[u] = caller[u] /\ u \notin Fleet!Changing(b) \cup Fleet!Moving(b)
    <2>1. PICK M : M = Fleet!Changing(b) \cup Fleet!Moving(b)
      OBVIOUS
    <2>2. \A u \in Callers \ {t} : u \in M => caller[u].at \in {"box", "moving"} /\ caller'[u] = [caller[u] EXCEPT !.alone = FALSE]
      BY <1>1, <2>1 DEF Fleet!Changing, Fleet!Moving
    <2> QED
      BY <1>1, <2>1, <2>2, OthersAlone
  <1>6. AloneSound'
    <2>1. ASSUME NEW u \in Callers, caller'[u].at = "box", caller'[u].alone
          PROVE  /\ caller'[u].row = box'[caller'[u].box]
                 /\ \A v \in Callers : caller'[v].at = "box" /\ caller'[v].box = caller'[u].box => v = u
                 /\ \A v \in Callers : caller'[v].at = "moving" => caller'[u].box \notin DOMAIN caller'[v].moved
      <3>1. CASE u = t
        <4>1. Fleet!Changing(b) = {} /\ Fleet!Moving(b) = {}
          BY <1>1, <2>1, <3>1
        <4>2. \A v \in Callers : caller'[v].at = "box" /\ caller'[v].box = b => v = t
          BY <1>3, <4>1 DEF Fleet!Changing
        <4>3. \A v \in Callers : caller'[v].at = "moving" => b \notin DOMAIN caller'[v].moved
          BY <1>1, <1>3, <4>1 DEF Fleet!Moving
        <4> QED
          BY <1>1, <3>1, <4>2, <4>3
      <3>2. CASE u # t
        <4>1. caller'[u] = caller[u] /\ caller[u].at = "box" /\ caller[u].alone /\ caller[u].box # b
          BY <1>5, <2>1, <3>2 DEF Fleet!Changing
        <4>2. \A v \in Callers : caller'[v].at = "box" /\ caller'[v].box = caller'[u].box => v = u
          BY <1>1, <1>3, <4>1 DEF AloneSound
        <4>3. \A v \in Callers : caller'[v].at = "moving" => caller'[u].box \notin DOMAIN caller'[v].moved
          BY <1>1, <1>3, <4>1 DEF AloneSound
        <4>4. caller'[u].row = box'[caller'[u].box]
          BY <1>1, <4>1 DEF AloneSound
        <4> QED
          BY <4>2, <4>3, <4>4
      <3> QED
        BY <3>1, <3>2
    <2>2. ASSUME NEW u \in Callers, caller'[u].at = "moving", caller'[u].alone, NEW c \in DOMAIN caller'[u].moved
          PROVE  /\ caller'[u].moved[c].status = box'[c].status /\ caller'[u].moved[c].settings = box'[c].settings
                 /\ \A v \in Callers : ~(caller'[v].at = "box" /\ caller'[v].box = c)
      <3>1. u # t
        BY <1>1, <2>2
      <3>2. caller'[u] = caller[u] /\ caller[u].at = "moving" /\ caller[u].alone /\ b \notin DOMAIN caller[u].moved
        BY <1>5, <2>2, <3>1 DEF Fleet!Moving
      <3>3. \A v \in Callers : ~(caller'[v].at = "box" /\ caller'[v].box = c)
        BY <1>1, <1>3, <2>2, <3>2 DEF AloneSound
      <3>4. caller[u].moved[c].status = box[c].status /\ caller[u].moved[c].settings = box[c].settings
        BY <2>2, <3>2 DEF AloneSound
      <3> QED
        BY <1>1, <3>2, <3>3, <3>4
    <2> QED
      BY <2>1, <2>2 DEF AloneSound
  <1> QED
    BY <1>4, <1>6 DEF AccountInv

LEMMA MoveBeginAccounts ==
    ASSUME AccountInv, MoveInv', NEW t \in Callers, NEW n \in Nodes, Fleet!MoveBegin(t, n)
    PROVE  AccountInv'
  <1> MoveInv /\ AloneSound /\ FleetTyped
    BY DEF AccountInv, MoveInv
  <1>1. PICK B : MoveBegun(t, n, B)
    BY MoveBeginEffect
  <1>2. /\ Begins(t) /\ B \subseteq Boxes
        /\ caller'[t].at = "moving" /\ DOMAIN caller'[t].moved = B /\ \A b \in B : caller'[t].moved[b] = box[b]
        /\ caller'[t].alone => \A b \in B : Fleet!Changing(b) = {}
        /\ \A u \in Callers \ {t} : (\E b \in B : u \in Fleet!Changing(b)) => caller'[u] = [caller[u] EXCEPT !.alone = FALSE]
        /\ agent'[n].at = "waiting" /\ \A m \in Nodes \ {n} : agent'[m] = agent[m]
        /\ UNCHANGED <<box, cmds, files, alone>>
    <2>1. /\ B = {b \in Boxes : box[b].node = ops[agent[n].i].source} /\ caller'[t].moved = [b \in B |-> box[b]]
      BY <1>1 DEF MoveBegun
    <2>2. B \subseteq Boxes /\ DOMAIN caller'[t].moved = B /\ \A b \in B : caller'[t].moved[b] = box[b]
      BY <2>1
    <2> QED
      BY <1>1, <2>2 DEF MoveBegun
  <1>3. \A u \in Callers \ {t} : SameCall(caller'[u], caller[u])
    BY <1>2, BeginsShape
  <1>4. \A u \in Callers \ {t} :
           /\ caller'[u].at = "box" => caller[u].at = "box" /\ caller'[u].box = caller[u].box
           /\ caller'[u].at = "moving" => caller[u].at = "moving" /\ caller'[u].moved = caller[u].moved
    BY <1>3 DEF SameCall
  <1>5. CommandsOrdered' /\ FilesSound' /\ LastSound'
    <2>1. \A m \in Nodes : agent'[m].at = "cmd" => agent'[m] = agent[m]
      BY <1>2
    <2> QED
      BY <1>2, <2>1, MarkedKeeps
  <1>6. \A u \in Callers \ {t} : caller'[u].at \in {"box", "moving"} /\ caller'[u].alone =>
           caller'[u] = caller[u] /\ \A b \in B : u \notin Fleet!Changing(b)
    <2>1. PICK M : M = UNION {Fleet!Changing(b) : b \in B}
      OBVIOUS
    <2>2. \A u \in Callers \ {t} : u \in M => caller[u].at \in {"box", "moving"} /\ caller'[u] = [caller[u] EXCEPT !.alone = FALSE]
      BY <1>2, <2>1 DEF Fleet!Changing
    <2>3. \A u \in Callers \ {t} : caller'[u].at \in {"box", "moving"} /\ caller'[u].alone => caller'[u] = caller[u] /\ u \notin M
      BY <1>2, <2>2, OthersAlone
    <2> QED
      BY <2>1, <2>3
  <1>7. AloneSound'
    <2>1. ASSUME NEW u \in Callers, caller'[u].at = "box", caller'[u].alone
          PROVE  /\ caller'[u].row = box'[caller'[u].box]
                 /\ \A v \in Callers : caller'[v].at = "box" /\ caller'[v].box = caller'[u].box => v = u
                 /\ \A v \in Callers : caller'[v].at = "moving" => caller'[u].box \notin DOMAIN caller'[v].moved
      <3>1. u # t
        BY <1>2, <2>1
      <3>2. caller'[u] = caller[u] /\ caller[u].at = "box" /\ caller[u].alone /\ caller[u].box \notin B
        BY <1>6, <2>1, <3>1 DEF Fleet!Changing
      <3>3. \A v \in Callers : caller'[v].at = "box" /\ caller'[v].box = caller'[u].box => v = u
        BY <1>2, <1>4, <3>2 DEF AloneSound
      <3>4. \A v \in Callers : caller'[v].at = "moving" => caller'[u].box \notin DOMAIN caller'[v].moved
        BY <1>2, <1>4, <3>2 DEF AloneSound
      <3>5. caller'[u].row = box'[caller'[u].box]
        BY <1>2, <3>2 DEF AloneSound
      <3> QED
        BY <3>3, <3>4, <3>5
    <2>2. ASSUME NEW u \in Callers, caller'[u].at = "moving", caller'[u].alone, NEW c \in DOMAIN caller'[u].moved
          PROVE  /\ caller'[u].moved[c].status = box'[c].status /\ caller'[u].moved[c].settings = box'[c].settings
                 /\ \A v \in Callers : ~(caller'[v].at = "box" /\ caller'[v].box = c)
      <3>1. CASE u = t
        <4>1. c \in B /\ caller'[u].moved[c] = box[c]
          BY <1>2, <2>2, <3>1
        <4>2. Fleet!Changing(c) = {}
          BY <1>2, <2>2, <3>1, <4>1
        <4>3. \A v \in Callers : ~(caller'[v].at = "box" /\ caller'[v].box = c)
          BY <1>2, <1>4, <4>2 DEF Fleet!Changing
        <4> QED
          BY <1>2, <4>1, <4>3
      <3>2. CASE u # t
        <4>1. caller'[u] = caller[u] /\ caller[u].at = "moving" /\ caller[u].alone
          BY <1>6, <2>2, <3>2
        <4>2. \A v \in Callers : ~(caller'[v].at = "box" /\ caller'[v].box = c)
          BY <1>2, <1>4, <2>2, <4>1 DEF AloneSound
        <4>3. caller[u].moved[c].status = box[c].status /\ caller[u].moved[c].settings = box[c].settings
          BY <2>2, <4>1 DEF AloneSound
        <4> QED
          BY <1>2, <4>1, <4>2, <4>3
      <3> QED
        BY <3>1, <3>2
    <2> QED
      BY <2>1, <2>2 DEF AloneSound
  <1> QED
    BY <1>5, <1>7 DEF AccountInv

LEMMA MoveCommitAccounts ==
    ASSUME AccountInv, MoveInv', NEW t \in Callers, Fleet!MoveCommit(t)
    PROVE  AccountInv'
  <1> MoveInv /\ AloneSound /\ FleetTyped
    BY DEF AccountInv, MoveInv
  <1>1. PICK r, added : MoveDone(t, r, added)
    BY MoveCommitEffect
  <1>2. /\ r = caller[t] /\ r \in Moves /\ r.at = "moving"
        /\ \A b \in DOMAIN r.moved :
              box'[b].node = r.node /\ box'[b].status = box[b].status /\ box'[b].settings = box[b].settings
        /\ \A b \in Boxes \ DOMAIN r.moved : box'[b] = box[b]
        /\ \A m \in Nodes : agent'[m] = agent[m] \/ agent'[m] = Fleet!Idle
        /\ caller' = [caller EXCEPT ![t] = Fleet!Idle] /\ UNCHANGED files
        /\ \A b \in Boxes : alone'[b] = IF b \in DOMAIN r.moved THEN r.alone ELSE alone[b]
    BY <1>1 DEF MoveDone
  <1>3. /\ added \in Seq(CmdRows) /\ cmds' = cmds \o added
        /\ \A k \in DOMAIN added : /\ added[k].node = r.node /\ added[k].box \in DOMAIN r.moved /\ added[k].status = "queued"
                                   /\ added[k].state = r.moved[added[k].box].status
                                   /\ added[k].settings = r.moved[added[k].box].settings
        /\ \A b \in DOMAIN r.moved : \E k \in DOMAIN added : added[k].box = b
        /\ \A j, k \in DOMAIN added : added[j].box = added[k].box => j = k
    BY <1>1 DEF MoveDone
  <1>4. cmds \in Seq(CmdRows)
    BY DEF FleetTyped
  <1>5. /\ cmds' \in Seq(CmdRows) /\ DOMAIN cmds \subseteq DOMAIN cmds'
        /\ \A i \in DOMAIN cmds : cmds'[i] = cmds[i]
        /\ \A i \in DOMAIN cmds' : i \in DOMAIN cmds \/ (i - Len(cmds) \in DOMAIN added /\ cmds'[i] = added[i - Len(cmds)])
        /\ \A k \in DOMAIN added : k + Len(cmds) \in DOMAIN cmds' /\ cmds'[k + Len(cmds)] = added[k]
    BY <1>3, <1>4, Joined
  <1>6. Len(cmds) \in Nat /\ DOMAIN cmds = 1..Len(cmds) /\ DOMAIN added \subseteq Nat \ {0} /\ DOMAIN cmds' \subseteq Nat
    BY <1>3, <1>4, <1>5, SeqShape
  <1>7. \A j \in DOMAIN cmds' \ DOMAIN cmds : \A i \in DOMAIN cmds : i < j
    BY <1>6
  <1>8. CmdsGrown(DOMAIN r.moved)
    BY <1>3, <1>5, <1>7 DEF CmdsGrown
  <1>9. caller'[t].at = "idle" /\ \A u \in Callers \ {t} : caller'[u] = caller[u]
    BY <1>2, CallerEnds
  <1>10. CommandsOrdered' /\ FilesSound'
    <2>1. \A m \in Nodes : agent'[m].at = "cmd" => agent'[m] = agent[m]
      BY <1>2, IdleShape
    <2> QED
      BY <1>2, <1>5, <1>8, <2>1, GrownKeeps DEF AccountInv
  <1>11. DOMAIN r.moved \subseteq Boxes
    BY <1>2, MoveShape
  <1>12. ASSUME NEW b \in DOMAIN r.moved PROVE LastOf(b)'
    <2>1. CASE r.alone
      <3>1. r.moved[b].status = box[b].status /\ r.moved[b].settings = box[b].settings
        BY <1>2, <2>1 DEF AloneSound
      <3>2. PICK k \in DOMAIN added : added[k].box = b
        BY <1>3
      <3>3. PICK i : i = k + Len(cmds)
        OBVIOUS
      <3>4. i \in DOMAIN cmds' /\ cmds'[i] = added[k]
        BY <1>5, <3>3
      <3>5. ASSUME NEW j \in DOMAIN cmds', cmds'[j].box = b
            PROVE  j <= i
        <4>1. CASE j \in DOMAIN cmds
          BY <1>6, <3>3, <4>1
        <4>2. CASE j - Len(cmds) \in DOMAIN added /\ cmds'[j] = added[j - Len(cmds)]
          <5>1. j - Len(cmds) = k
            BY <1>3, <3>2, <3>5, <4>2
          <5> QED
            BY <1>6, <3>3, <5>1
        <4> QED
          BY <1>5, <4>1, <4>2
      <3>6. /\ cmds'[i].node = box'[b].node /\ cmds'[i].box = b
            /\ cmds'[i].state = box'[b].status /\ cmds'[i].settings = box'[b].settings
        BY <1>2, <1>3, <3>1, <3>2, <3>4
      <3> QED
        BY <1>11, <3>4, <3>5, <3>6, LastAdded
    <2>2. CASE ~r.alone
      BY <1>2, <1>11, <2>2 DEF LastOf
    <2> QED
      BY <2>1, <2>2
  <1>13. \A b \in Boxes \ DOMAIN r.moved : LastOf(b)'
    <2>1. \A b \in Boxes \ DOMAIN r.moved : alone'[b] = alone[b] /\ box'[b] = box[b]
      BY <1>2
    <2> QED
      BY <1>8, <2>1, LastKept, LastParts DEF AccountInv
  <1>14. LastSound'
    BY <1>12, <1>13 DEF LastSound, LastOf
  <1>15. AloneSound'
    <2>1. \A u \in Callers : caller[u].at = "box" => caller[u].box \in Boxes
      BY CallerShape, BoxCallShape
    <2>2. \A u \in Callers : caller[u].at = "box" /\ caller[u].alone => caller[u].box \notin DOMAIN r.moved
      BY <1>2 DEF AloneSound
    <2>3. \A u \in Callers : caller[u].at = "moving" => DOMAIN caller[u].moved \subseteq Boxes
      BY MovingBoxes
    <2>4. \A b \in Boxes : box'[b].status = box[b].status /\ box'[b].settings = box[b].settings
      BY <1>2
    <2>5. \A u \in Callers : caller'[u].at \in {"box", "moving"} => caller'[u] = caller[u]
      BY <1>9
    <2>6. \A u \in Callers : caller'[u].at = "box" /\ caller[u].alone => box'[caller[u].box] = box[caller[u].box]
      BY <1>2, <2>1, <2>2, <2>5
    <2>7. \A u \in Callers : caller'[u].at = "moving" /\ caller[u].alone => \A b \in DOMAIN caller[u].moved :
              box'[b].status = box[b].status /\ box'[b].settings = box[b].settings
      BY <2>3, <2>4, <2>5
    <2> QED
      BY <2>5, <2>6, <2>7, AloneKept
  <1> QED
    BY <1>10, <1>14, <1>15 DEF AccountInv

\* The status of a command changes: the last commands and the requests stay.
LEMMA StatusKeeps ==
    ASSUME AccountInv, DOMAIN cmds' = DOMAIN cmds, UNCHANGED <<box, caller, alone>>,
           \A j \in DOMAIN cmds : /\ cmds'[j].node = cmds[j].node /\ cmds'[j].box = cmds[j].box
                                  /\ cmds'[j].state = cmds[j].state /\ cmds'[j].settings = cmds[j].settings
    PROVE  LastSound' /\ AloneSound'
  <1>1. LastSound'
    <2>1. ASSUME NEW b \in Boxes, alone'[b], box'[b].node # NoNode
          PROVE  \E i \in DOMAIN cmds' :
            /\ Mine(i, box[b].node, b)'
            /\ \A j \in DOMAIN cmds' : Mine(j, box[b].node, b)' => j <= i
            /\ cmds'[i].state = box'[b].status /\ cmds'[i].settings = box'[b].settings
      <3>1. PICK i \in DOMAIN cmds :
              /\ Mine(i, box[b].node, b)
              /\ \A j \in DOMAIN cmds : Mine(j, box[b].node, b) => j <= i
              /\ cmds[i].state = box[b].status /\ cmds[i].settings = box[b].settings
        BY <2>1 DEF AccountInv, LastSound
      <3>2. \A j \in DOMAIN cmds' : Mine(j, box[b].node, b)' => Mine(j, box[b].node, b)
        BY DEF Mine
      <3>3. Mine(i, box[b].node, b)'
        BY <3>1 DEF Mine
      <3> QED
        BY <3>1, <3>2, <3>3
    <2> QED
      BY <2>1 DEF LastSound, Mine
  <1>2. AloneSound'
    BY AloneKept DEF AccountInv
  <1> QED
    BY <1>1, <1>2

LEMMA ClaimCommandAccounts ==
    ASSUME AccountInv, MoveInv', NEW n \in Nodes, NEW ok \in BOOLEAN, Fleet!ClaimCommand(n, ok)
    PROVE  AccountInv'
  <1> MoveInv /\ CommandsOrdered /\ FilesSound /\ FleetTyped
    BY DEF AccountInv, MoveInv
  <1>1. PICK i \in DOMAIN cmds, w \in Works : CommandClaimed(n, ok, i, w)
    BY ClaimCommandEffect
  <1>2. /\ cmds[i].node = n /\ cmds[i].status = "queued" /\ cmds[i].box \in Boxes
        /\ \A j \in DOMAIN cmds : cmds[j].node = n /\ cmds[j].status = "queued" => i <= j
        /\ cmds' = [cmds EXCEPT ![i].status = "claimed"]
        /\ w.at = "cmd" /\ w.i = i /\ w.ok = ok /\ agent' = [agent EXCEPT ![n] = w]
        /\ \A m \in Nodes \ {n} : files'[m] = files[m]
        /\ ok => \A b \in Boxes \ {cmds[i].box} : /\ files'[n].accounts[b] = files[n].accounts[b]
                                                  /\ files'[n].quotas[b] = files[n].quotas[b]
        /\ UNCHANGED <<box, caller, alone>>
    BY <1>1 DEF CommandClaimed
  <1>3. cmds \in Seq(CmdRows)
    BY DEF FleetTyped
  <1>4. /\ DOMAIN cmds' = DOMAIN cmds /\ cmds'[i].status = "claimed"
        /\ \A j \in DOMAIN cmds \ {i} : cmds'[j] = cmds[j]
        /\ \A j \in DOMAIN cmds : /\ cmds'[j].node = cmds[j].node /\ cmds'[j].box = cmds[j].box
                                  /\ cmds'[j].state = cmds[j].state /\ cmds'[j].settings = cmds[j].settings
    BY <1>2, <1>3, CmdStatusSet
  <1>5. DOMAIN cmds \subseteq Nat
    BY <1>3, SeqShape
  <1>6. agent'[n] = w /\ \A m \in Nodes \ {n} : agent'[m] = agent[m]
    BY <1>2 DEF FleetTyped
  <1>7. CommandsOrdered'
    <2>1. ASSUME NEW j \in DOMAIN cmds', NEW k \in DOMAIN cmds', j < k, cmds'[j].node = cmds'[k].node,
                 cmds'[j].status = "queued"
          PROVE  cmds'[k].status = "queued"
      <3>1. j # i /\ cmds[j].status = "queued" /\ cmds[j].node = cmds[k].node
        BY <1>4, <2>1
      <3>2. cmds[k].status = "queued"
        BY <1>4, <2>1, <3>1 DEF CommandsOrdered
      <3>3. k # i
        <4>1. ASSUME k = i PROVE FALSE
          <5>1. i <= j
            BY <1>2, <1>4, <2>1, <3>1, <4>1
          <5> QED
            BY <1>4, <1>5, <2>1, <4>1, <5>1
        <4> QED
          BY <4>1
      <3> QED
        BY <1>4, <2>1, <3>2, <3>3
    <2>2. ASSUME NEW m \in Nodes, agent'[m].at = "cmd"
          PROVE  /\ agent'[m].i \in DOMAIN cmds'
                 /\ cmds'[agent'[m].i].node = m /\ cmds'[agent'[m].i].status = "claimed"
      <3>1. CASE m = n
        BY <1>2, <1>4, <1>6, <3>1
      <3>2. CASE m # n
        <4>1. agent'[m] = agent[m] /\ agent[m].i \in DOMAIN cmds /\ cmds[agent[m].i].node = m
              /\ cmds[agent[m].i].status = "claimed"
          BY <1>6, <2>2, <3>2 DEF CommandsOrdered
        <4> QED
          BY <1>2, <1>4, <4>1
      <3> QED
        BY <3>1, <3>2
    <2> QED
      BY <2>1, <2>2 DEF CommandsOrdered
  <1>8. \A m \in Nodes, k \in DOMAIN cmds : k # i /\ Written(k, m)' => Written(k, m) /\ cmds[k].status # "queued"
    <2>1. ASSUME NEW m \in Nodes, NEW k \in DOMAIN cmds, k # i, Written(k, m)'
          PROVE  Written(k, m) /\ cmds[k].status # "queued"
      <3>1. cmds'[k] = cmds[k]
        BY <1>4, <2>1
      <3>2. CASE cmds'[k].status = "completed"
        BY <3>1, <3>2 DEF Written
      <3>3. CASE agent'[m].at = "cmd" /\ agent'[m].i = k /\ agent'[m].ok
        <4>1. m # n
          BY <1>2, <1>6, <2>1, <3>3
        <4>2. agent[m].at = "cmd" /\ agent[m].i = k /\ agent[m].ok
          BY <1>6, <3>3, <4>1
        <4>3. cmds[k].status = "claimed"
          BY <4>2 DEF CommandsOrdered
        <4> QED
          BY <4>2, <4>3 DEF Written
      <3> QED
        BY <2>1, <3>2, <3>3 DEF Written
    <2> QED
      BY <2>1
  <1>9. FilesSound'
    <2>1. SUFFICES ASSUME NEW m \in Nodes, NEW b \in Boxes, NEW k \in DOMAIN cmds',
                          Mine(k, m, b)', Written(k, m)', Followed(k, m, b)'
                   PROVE  Says(m, b, IF cmds[k].state = "active" THEN cmds[k].settings ELSE 0)'
      BY DEF FilesSound
    <2>2. k \in DOMAIN cmds /\ cmds[k].node = m /\ cmds[k].box = b
      BY <1>4, <2>1 DEF Mine
    <2>3. CASE k = i
      <3>1. m = n /\ b = cmds[i].box
        BY <1>2, <2>2, <2>3
      <3>2. ok
        BY <1>2, <1>4, <1>6, <2>1, <2>3, <3>1 DEF Written
      <3>3. PICK x : x = IF cmds[i].state = "active" THEN cmds[i].settings ELSE 0
        OBVIOUS
      <3>4. files'[n].accounts[b] = x /\ files'[n].quotas[b] = x
        BY <1>1, <3>1, <3>2, <3>3 DEF CommandClaimed
      <3>5. x = IF cmds'[k].state = "active" THEN cmds'[k].settings ELSE 0
        BY <1>4, <2>3, <3>3
      <3> QED
        BY <3>1, <3>4, <3>5 DEF Says
    <2>4. CASE k # i
      <3>1. cmds'[k] = cmds[k] /\ Mine(k, m, b)
        BY <1>4, <2>2, <2>4 DEF Mine
      <3>2. Written(k, m) /\ cmds[k].status # "queued"
        BY <1>8, <2>1, <2>2, <2>4
      <3>3. Followed(k, m, b)
        <4>1. ASSUME NEW j \in DOMAIN cmds, j > k, cmds[j].node = m
              PROVE  cmds[j].status = "queued" \/ (cmds[j].box # b /\ Written(j, m))
          <5>1. CASE j = i
            BY <1>2, <5>1
          <5>2. CASE j # i
            <6>1. cmds'[j] = cmds[j] /\ j \in DOMAIN cmds'
              BY <1>4, <5>2
            <6>2. cmds'[j].status = "queued" \/ (cmds'[j].box # b /\ Written(j, m)')
              BY <2>1, <4>1, <6>1 DEF Followed
            <6> QED
              BY <1>8, <4>1, <5>2, <6>1, <6>2
          <5> QED
            BY <5>1, <5>2
        <4> QED
          BY <4>1 DEF Followed
      <3>4. Says(m, b, IF cmds[k].state = "active" THEN cmds[k].settings ELSE 0)
        BY <2>2, <3>1, <3>2, <3>3 DEF FilesSound
      <3>5. CASE m # n
        <4>1. files'[m] = files[m]
          BY <1>2, <3>5
        <4> QED
          BY <3>1, <3>4, <4>1 DEF Says
      <3>6. CASE m = n
        <4>1. k < i
          <5>1. ~(i < k)
            BY <1>2, <2>2, <3>2, <3>6 DEF CommandsOrdered
          <5> QED
            BY <1>5, <2>2, <2>4, <5>1
        <4>2. cmds'[i].box # b /\ Written(i, m)'
          <5>1. i \in DOMAIN cmds' /\ i > k /\ cmds'[i].node = m /\ cmds'[i].status # "queued"
            BY <1>2, <1>4, <1>5, <2>2, <3>6, <4>1
          <5> QED
            BY <2>1, <5>1 DEF Followed
        <4>3. ok
          BY <1>2, <1>4, <1>6, <3>6, <4>2 DEF Written
        <4>4. b \in Boxes \ {cmds[i].box}
          BY <1>4, <4>2
        <4>5. files'[m].accounts[b] = files[m].accounts[b] /\ files'[m].quotas[b] = files[m].quotas[b]
          BY <1>2, <3>6, <4>3, <4>4
        <4> QED
          BY <3>1, <3>4, <4>5 DEF Says
      <3> QED
        BY <3>5, <3>6
    <2> QED
      BY <2>3, <2>4
  <1>10. LastSound' /\ AloneSound'
    BY <1>2, <1>4, StatusKeeps
  <1> QED
    BY <1>7, <1>9, <1>10 DEF AccountInv

LEMMA ReportCommandAccounts ==
    ASSUME AccountInv, MoveInv', NEW n \in Nodes, NEW x \in {"completed", "failed"}, Fleet!ReportCommand(n, x)
    PROVE  AccountInv'
  <1> MoveInv /\ CommandsOrdered /\ FilesSound /\ FleetTyped
    BY DEF AccountInv, MoveInv
  <1>1. PICK i : i = agent[n].i
    OBVIOUS
  <1>2. /\ agent[n].at = "cmd" /\ (agent[n].ok \/ x = "failed")
        /\ cmds' = [cmds EXCEPT ![i].status = x] /\ agent' = [agent EXCEPT ![n] = Fleet!Idle]
        /\ UNCHANGED <<box, files, caller, alone>>
    BY <1>1 DEF Fleet!ReportCommand
  <1>3. i \in DOMAIN cmds /\ cmds[i].node = n /\ cmds[i].status = "claimed"
    BY <1>1, <1>2 DEF CommandsOrdered
  <1>4. cmds \in Seq(CmdRows)
    BY DEF FleetTyped
  <1>5. /\ DOMAIN cmds' = DOMAIN cmds /\ cmds'[i].status = x
        /\ \A j \in DOMAIN cmds \ {i} : cmds'[j] = cmds[j]
        /\ \A j \in DOMAIN cmds : /\ cmds'[j].node = cmds[j].node /\ cmds'[j].box = cmds[j].box
                                  /\ cmds'[j].state = cmds[j].state /\ cmds'[j].settings = cmds[j].settings
    BY <1>2, <1>3, <1>4, CmdStatusSet
  <1>6. agent'[n].at = "idle" /\ \A m \in Nodes \ {n} : agent'[m] = agent[m]
    BY <1>2, IdleShape DEF FleetTyped
  <1>7. \A j \in DOMAIN cmds : cmds'[j].status = "queued" <=> cmds[j].status = "queued"
    BY <1>3, <1>5
  <1>8. CommandsOrdered'
    <2>1. ASSUME NEW j \in DOMAIN cmds', NEW k \in DOMAIN cmds', j < k, cmds'[j].node = cmds'[k].node,
                 cmds'[j].status = "queued"
          PROVE  cmds'[k].status = "queued"
      BY <1>5, <1>7, <2>1 DEF CommandsOrdered
    <2>2. ASSUME NEW m \in Nodes, agent'[m].at = "cmd"
          PROVE  /\ agent'[m].i \in DOMAIN cmds'
                 /\ cmds'[agent'[m].i].node = m /\ cmds'[agent'[m].i].status = "claimed"
      <3>1. m # n /\ agent'[m] = agent[m]
        BY <1>6, <2>2
      <3>2. agent[m].i \in DOMAIN cmds /\ cmds[agent[m].i].node = m /\ cmds[agent[m].i].status = "claimed"
        BY <2>2, <3>1 DEF CommandsOrdered
      <3> QED
        BY <1>3, <1>5, <3>1, <3>2
    <2> QED
      BY <2>1, <2>2 DEF CommandsOrdered
  <1>9. \A m \in Nodes, k \in DOMAIN cmds : cmds'[k].node = m /\ Written(k, m)' => Written(k, m)
    <2>1. ASSUME NEW m \in Nodes, NEW k \in DOMAIN cmds, cmds'[k].node = m, Written(k, m)'
          PROVE  Written(k, m)
      <3>1. CASE k = i
        <4>1. m = n
          BY <1>3, <1>5, <2>1, <3>1
        <4>2. cmds'[k].status = "completed"
          BY <1>6, <2>1, <4>1 DEF Written
        <4>3. agent[n].ok
          BY <1>2, <1>5, <3>1, <4>2
        <4> QED
          BY <1>1, <1>2, <3>1, <4>1, <4>3 DEF Written
      <3>2. CASE k # i
        <4>1. cmds'[k] = cmds[k]
          BY <1>5, <3>2
        <4>2. CASE m = n
          BY <1>6, <2>1, <4>1, <4>2 DEF Written
        <4>3. CASE m # n
          BY <1>6, <2>1, <4>1, <4>3 DEF Written
        <4> QED
          BY <4>2, <4>3
      <3> QED
        BY <3>1, <3>2
    <2> QED
      BY <2>1
  <1>10. FilesSound'
    BY <1>2, <1>5, <1>7, <1>9, FilesKept
  <1>11. LastSound' /\ AloneSound'
    BY <1>2, <1>5, StatusKeeps
  <1> QED
    BY <1>8, <1>10, <1>11 DEF AccountInv

-----------------------------------------------------------------------------
(* Every step of the mail fleet.                                           *)

LEMMA FleetStart == Fleet!Init => AccountInv
  <1>1. SUFFICES ASSUME Fleet!Init PROVE AccountInv
    OBVIOUS
  <1>2. /\ box = [b \in Boxes |-> [node |-> NoNode, status |-> "none", settings |-> 0]]
        /\ snaps = <<>> /\ ops = <<>> /\ cmds = <<>>
        /\ approval = [a \in Approvals |-> NoGrant]
        /\ agent = [n \in Nodes |-> Fleet!Idle]
        /\ storage = [n \in Nodes |-> 0]
        /\ files = [n \in Nodes |-> [accounts |-> [b \in Boxes |-> 0], quotas |-> [b \in Boxes |-> 0]]]
        /\ caller = [t \in Callers |-> Fleet!Idle]
        /\ alone = [b \in Boxes |-> TRUE]
    BY <1>1 DEF Fleet!Init, NoGrant
  <1>3. FleetTyped
    <2>1. box \in [Boxes -> BoxRows] /\ approval \in [Approvals -> {NoGrant} \cup GrantRows]
      BY <1>2 DEF BoxRows
    <2>2. snaps \in Seq(SnapRows) /\ cmds \in Seq(CmdRows) /\ ops \in Seq(OpRows(Nat \cup {}))
      BY <1>2, EmptySeq
    <2>3. \E S : ops \in Seq(OpRows(Nat \cup S))
      BY <2>2
    <2>4. /\ agent \in [Nodes -> {Fleet!Idle} \cup Works]
          /\ storage \in [Nodes -> Nat]
          /\ caller \in [Callers -> {Fleet!Idle} \cup BoxCalls \cup Verdicts \cup Failovers \cup Moves]
          /\ alone \in [Boxes -> BOOLEAN]
      BY <1>2
    <2>5. files \in [Nodes -> FilePairs]
      <3>1. PICK g : g = [accounts |-> [b \in Boxes |-> 0], quotas |-> [b \in Boxes |-> 0]]
        OBVIOUS
      <3>2. g \in FilePairs
        BY <3>1 DEF FilePairs
      <3>3. files = [n \in Nodes |-> g]
        BY <1>2, <3>1
      <3> QED
        BY <3>2, <3>3
    <2> QED
      BY <2>1, <2>2, <2>3, <2>4, <2>5 DEF FleetTyped
  <1>4. /\ DOMAIN snaps = {} /\ DOMAIN ops = {} /\ DOMAIN cmds = {}
        /\ \A n \in Nodes : agent[n].at = "idle"
        /\ \A t \in Callers : caller[t].at = "idle"
        /\ \A a \in Approvals : approval[a].status = "none"
        /\ \A b \in Boxes : box[b].status = "none" /\ box[b].node = NoNode
    BY <1>2, IdleShape DEF NoGrant
  <1>5. BoxesSound /\ VerdictsSound /\ AgentsSound /\ ReportsSound
    BY <1>4 DEF BoxesSound, VerdictsSound, AgentsSound, ReportsSound
  <1>6. FailoversSound /\ RestoresSound
    BY <1>4 DEF FailoversSound, RestoresSound, Reads, Has
  <1>7. CommandsOrdered /\ FilesSound /\ LastSound /\ AloneSound
    BY <1>4 DEF CommandsOrdered, FilesSound, LastSound, AloneSound
  <1> QED
    BY <1>3, <1>5, <1>6, <1>7 DEF AccountInv, MoveInv

\* A step that leaves the mailboxes and their accounts alone.
Apart == UNCHANGED <<box, cmds, files, alone>>

LEMMA NodeSteps ==
    ASSUME AccountInv, NEW n \in Nodes,
           \/ Fleet!ProvisionFails(n) \/ Fleet!HeartbeatLate(n) \/ Fleet!CreateBackup(n)
           \/ \E status \in {"active", "maintenance", "disabled"} : Fleet!UpdateNodeStatus(n, status)
           \/ \E m, k, d \in BOOLEAN : Fleet!Heartbeat(n, m, k, d)
    PROVE  AccountInv' /\ Apart
  <1> MoveInv
    BY DEF AccountInv
  <1>1. UNCHANGED <<box, cmds, approval, agent, storage, files, caller, alone>>
    BY DEF Fleet!ProvisionFails, Fleet!HeartbeatLate, Fleet!CreateBackup, Fleet!UpdateNodeStatus, Fleet!Heartbeat,
           Fleet!nodeSide
  <1>2. \/ UNCHANGED <<snaps, ops>>
        \/ snaps' = Fleet!WithSnapshot(n) /\ ops' = Append(ops, Fleet!Operation(n, "backup", Len(snaps) + 1))
    BY DEF Fleet!ProvisionFails, Fleet!HeartbeatLate, Fleet!CreateBackup, Fleet!UpdateNodeStatus, Fleet!Heartbeat,
           Fleet!nodeSide
  <1>3. MoveInv'
    BY <1>1, <1>2, NodeStepKeeps, BackupKeeps
  <1>4. AccountInv'
    BY <1>1, <1>3, AccountStepKeeps
  <1> QED
    BY <1>1, <1>4 DEF Apart

LEMMA AgentSteps ==
    ASSUME AccountInv, NEW n \in Nodes,
           \/ Fleet!ReportOperation(n) \/ Fleet!ReportFailure(n) \/ Fleet!AgentLost(n)
           \/ \E ok \in BOOLEAN : Fleet!ClaimOperation(n, ok)
    PROVE  AccountInv' /\ Apart
  <1> MoveInv
    BY DEF AccountInv
  <1>1. UNCHANGED <<box, cmds, files, alone, caller>>
    BY DEF Fleet!ReportOperation, Fleet!ReportFailure, Fleet!AgentLost, Fleet!ClaimOperation, Fleet!rows
  <1>2. \E w : agent' = [agent EXCEPT ![n] = w] /\ w.at \in {"idle", "op"}
    <2>1. CASE agent' = [agent EXCEPT ![n] = Fleet!Idle]
      BY <2>1, IdleShape
    <2>2. CASE \E ok \in BOOLEAN : Fleet!ClaimOperation(n, ok)
      <3>1. PICK ok \in BOOLEAN : Fleet!ClaimOperation(n, ok)
        BY <2>2
      <3>2. PICK w : w = [at |-> "op", i |-> Fleet!OldestFirst(ops, n), ok |-> ok]
        OBVIOUS
      <3>3. agent' = [agent EXCEPT ![n] = w]
        BY <3>1, <3>2 DEF Fleet!ClaimOperation
      <3>4. w.at \in {"idle", "op"}
        BY <3>2
      <3> QED
        BY <3>3, <3>4
    <2> QED
      BY <2>1, <2>2 DEF Fleet!ReportOperation, Fleet!ReportFailure, Fleet!AgentLost
  <1>3. \A m \in Nodes : agent'[m].at = "cmd" => agent'[m] = agent[m]
    BY <1>2 DEF MoveInv, FleetTyped
  <1>4. MoveInv'
    BY ReportOperationKeeps, ReportFailureKeeps, AgentLostKeeps, ClaimOperationKeeps
  <1>5. AccountInv'
    BY <1>1, <1>3, <1>4, AccountStepKeeps
  <1> QED
    BY <1>1, <1>5 DEF Apart

LEMMA ApprovalSteps ==
    ASSUME AccountInv,
           \/ \E a \in Approvals :
                \/ \E o \in Owners, m, n \in Nodes, s \in DOMAIN snaps : Fleet!RequestApproval(a, o, m, n, s)
                \/ Fleet!ApproveExpired(a) \/ Fleet!TimePasses(a)
           \/ \E t \in Callers :
                \/ \E a \in Approvals, o \in Owners : Fleet!ApproveBegin(t, a, o) \/ Fleet!RejectBegin(t, a, o)
                \/ \E m, n \in Nodes, s \in DOMAIN snaps :
                     Fleet!FailoverUnapproved(t, m, n, s) \/ \E a \in Approvals : Fleet!FailoverApproved(t, m, n, s, a)
                \/ Fleet!DecideCommit(t) \/ Fleet!FailoverCommit(t)
    PROVE  AccountInv' /\ Apart
  <1> MoveInv
    BY DEF AccountInv
  <1>1. UNCHANGED <<box, cmds, files, alone, agent>>
    <2>1. ASSUME NEW a \in Approvals,
                 \/ \E o \in Owners, m, n \in Nodes, s \in DOMAIN snaps : Fleet!RequestApproval(a, o, m, n, s)
                 \/ Fleet!ApproveExpired(a) \/ Fleet!TimePasses(a)
          PROVE  UNCHANGED <<box, cmds, files, alone, agent>>
      BY <2>1 DEF Fleet!RequestApproval, Fleet!ApproveExpired, Fleet!TimePasses, Fleet!nodeSide
    <2>2. ASSUME NEW t \in Callers, NEW a \in Approvals, NEW o \in Owners,
                 Fleet!ApproveBegin(t, a, o) \/ Fleet!RejectBegin(t, a, o)
          PROVE  UNCHANGED <<box, cmds, files, alone, agent>>
      BY <2>2 DEF Fleet!ApproveBegin, Fleet!RejectBegin, Fleet!DecideBegin, Fleet!rows, Fleet!nodeSide
    <2>3. ASSUME NEW t \in Callers,
                 \/ \E m, n \in Nodes, s \in DOMAIN snaps :
                     Fleet!FailoverUnapproved(t, m, n, s) \/ \E a \in Approvals : Fleet!FailoverApproved(t, m, n, s, a)
                 \/ Fleet!DecideCommit(t) \/ Fleet!FailoverCommit(t)
          PROVE  UNCHANGED <<box, cmds, files, alone, agent>>
      <3>1. ASSUME NEW m, NEW n, NEW s, NEW use, Fleet!FailoverBegin(t, m, n, s, use)
            PROVE  UNCHANGED <<box, cmds, files, alone, agent>>
        BY <3>1 DEF Fleet!FailoverBegin, Fleet!nodeSide
      <3>2. CASE Fleet!DecideCommit(t) \/ Fleet!FailoverCommit(t)
        BY <3>2 DEF Fleet!DecideCommit, Fleet!FailoverCommit, Fleet!nodeSide
      <3> QED
        BY <2>3, <3>1, <3>2 DEF Fleet!FailoverApproved, Fleet!FailoverUnapproved
    <2> QED
      BY <2>1, <2>2, <2>3
  <1>2. \/ caller' = caller
        \/ \E t \in Callers : \E c : caller' = [caller EXCEPT ![t] = c] /\ c.at \in {"idle", "approved", "rejected", "failover"}
    <2>1. ASSUME NEW t \in Callers, NEW a \in Approvals, NEW o \in Owners,
                 Fleet!ApproveBegin(t, a, o) \/ Fleet!RejectBegin(t, a, o)
          PROVE  \E c : caller' = [caller EXCEPT ![t] = c] /\ c.at \in {"approved", "rejected"}
      <3>1. PICK v \in {"approved", "rejected"} : Fleet!DecideBegin(t, a, o, v)
        BY <2>1 DEF Fleet!ApproveBegin, Fleet!RejectBegin
      <3>2. PICK c : c = [at |-> v, approval |-> a, by |-> o]
        OBVIOUS
      <3>3. caller' = [caller EXCEPT ![t] = c]
        BY <3>1, <3>2 DEF Fleet!DecideBegin
      <3>4. c.at \in {"approved", "rejected"}
        BY <3>2
      <3> QED
        BY <3>3, <3>4
    <2>2. ASSUME NEW t \in Callers, NEW m \in Nodes, NEW n \in Nodes, NEW s \in DOMAIN snaps,
                 Fleet!FailoverUnapproved(t, m, n, s) \/ \E a \in Approvals : Fleet!FailoverApproved(t, m, n, s, a)
          PROVE  \E c : caller' = [caller EXCEPT ![t] = c] /\ c.at = "failover"
      <3>1. PICK use : Fleet!FailoverBegin(t, m, n, s, use)
        BY <2>2 DEF Fleet!FailoverApproved, Fleet!FailoverUnapproved
      <3>2. PICK c : c = [at |-> "failover", source |-> m, target |-> n, snap |-> s, use |-> use]
        OBVIOUS
      <3>3. caller' = [caller EXCEPT ![t] = c]
        BY <3>1, <3>2 DEF Fleet!FailoverBegin
      <3>4. c.at = "failover"
        BY <3>2
      <3> QED
        BY <3>3, <3>4
    <2>3. ASSUME NEW t \in Callers, Fleet!DecideCommit(t) \/ Fleet!FailoverCommit(t)
          PROVE  caller' = [caller EXCEPT ![t] = Fleet!Idle]
      BY <2>3 DEF Fleet!DecideCommit, Fleet!FailoverCommit
    <2>4. ASSUME NEW a \in Approvals,
                 \/ \E o \in Owners, m, n \in Nodes, s \in DOMAIN snaps : Fleet!RequestApproval(a, o, m, n, s)
                 \/ Fleet!ApproveExpired(a) \/ Fleet!TimePasses(a)
          PROVE  caller' = caller
      BY <2>4 DEF Fleet!RequestApproval, Fleet!ApproveExpired, Fleet!TimePasses
    <2> QED
      BY <2>1, <2>2, <2>3, <2>4, IdleShape
  <1>3. \A u \in Callers : caller'[u].at \in {"box", "moving"} => caller'[u] = caller[u]
    BY <1>2 DEF MoveInv, FleetTyped
  <1>4. MoveInv'
    BY RequestKeeps, ExpiredKeeps, TimePassesKeeps, DecideBeginKeeps, FailoverApprovedKeeps, FailoverUnapprovedKeeps,
       DecideCommitKeeps, FailoverCommitKeeps
  <1>5. AccountInv'
    BY <1>1, <1>3, <1>4, AccountStepKeeps
  <1> QED
    BY <1>1, <1>5 DEF Apart

\* A request on a mailbox begins.
LEMMA ChangeSteps ==
    ASSUME AccountInv, NEW t \in Callers, NEW b \in Boxes,
           \/ Fleet!ChangeSettings(t, b) \/ Fleet!SuspendMailbox(t, b)
           \/ Fleet!RestoreMailbox(t, b) \/ Fleet!ArchiveMailbox(t, b)
    PROVE  AccountInv' /\ Apart
  <1> MoveInv
    BY DEF AccountInv
  <1>1. PICK column, value : /\ \/ column = "settings" /\ value \in Nat
                                \/ column = "status" /\ value \in {"active", "suspended", "archived"}
                             /\ Fleet!ChangeBegin(t, b, column, value)
    <2>1. box[b].settings + 1 \in Nat
      BY DEF MoveInv, FleetTyped, BoxRows
    <2> QED
      BY <2>1 DEF Fleet!ChangeSettings, Fleet!SuspendMailbox, Fleet!RestoreMailbox, Fleet!ArchiveMailbox
  <1>2. MoveInv'
    BY <1>1, ChangeBeginKeeps
  <1>3. AccountInv'
    BY <1>1, <1>2, ChangeBeginAccounts
  <1> QED
    BY <1>1, <1>3 DEF Apart, Fleet!ChangeBegin, Fleet!rows, Fleet!nodeSide

\* The steps that write mailboxes, commands or accounts.
WritingStep ==
    \/ \E n \in Nodes :
         \/ \E ok \in BOOLEAN : Fleet!ClaimCommand(n, ok)
         \/ \E status \in {"completed", "failed"} : Fleet!ReportCommand(n, status)
         \/ \E b \in Boxes : Fleet!CreateMailbox(b, n)
    \/ \E t \in Callers :
         \/ \E n \in Nodes : Fleet!MoveBegin(t, n)
         \/ Fleet!MoveCommit(t) \/ Fleet!ChangeCommit(t)

LEMMA BoxSteps ==
    ASSUME AccountInv, WritingStep
    PROVE  AccountInv'
  <1> MoveInv /\ CommandsOrdered
    BY DEF AccountInv
  <1>1. ASSUME NEW t \in Callers, NEW n \in Nodes, Fleet!MoveBegin(t, n) PROVE AccountInv'
    BY <1>1, MoveBeginKeeps, MoveBeginAccounts
  <1>2. ASSUME NEW t \in Callers, Fleet!MoveCommit(t) PROVE AccountInv'
    BY <1>2, MoveCommitKeeps, MoveCommitAccounts
  <1>3. ASSUME NEW n \in Nodes, NEW ok \in BOOLEAN, Fleet!ClaimCommand(n, ok) PROVE AccountInv'
    BY <1>3, ClaimCommandKeeps, ClaimCommandAccounts
  <1>4. ASSUME NEW n \in Nodes, NEW status \in {"completed", "failed"}, Fleet!ReportCommand(n, status)
        PROVE  AccountInv'
    BY <1>4, ReportCommandKeeps, ReportCommandAccounts
  <1>5. ASSUME NEW n \in Nodes, NEW b \in Boxes, Fleet!CreateMailbox(b, n) PROVE AccountInv'
    BY <1>5, CreateMailboxKeeps, CreateMailboxAccounts
  <1>6. ASSUME NEW t \in Callers, Fleet!ChangeCommit(t) PROVE AccountInv'
    BY <1>6, ChangeCommitKeeps, ChangeCommitAccounts
  <1> QED
    BY <1>1, <1>2, <1>3, <1>4, <1>5, <1>6 DEF WritingStep

LEMMA FleetCases ==
    ASSUME AccountInv, [Fleet!Next]_(Fleet!vars)
    PROVE  AccountInv' /\ (Apart \/ WritingStep)
  <1>1. CASE WritingStep
    BY <1>1, BoxSteps
  <1>2. ASSUME NEW n \in Nodes,
               \/ Fleet!ProvisionFails(n) \/ Fleet!HeartbeatLate(n) \/ Fleet!CreateBackup(n)
               \/ \E status \in {"active", "maintenance", "disabled"} : Fleet!UpdateNodeStatus(n, status)
               \/ \E m, k, d \in BOOLEAN : Fleet!Heartbeat(n, m, k, d)
        PROVE  AccountInv' /\ Apart
    BY <1>2, NodeSteps
  <1>3. ASSUME NEW n \in Nodes,
               \/ Fleet!ReportOperation(n) \/ Fleet!ReportFailure(n) \/ Fleet!AgentLost(n)
               \/ \E ok \in BOOLEAN : Fleet!ClaimOperation(n, ok)
        PROVE  AccountInv' /\ Apart
    BY <1>3, AgentSteps
  <1>4. ASSUME NEW t \in Callers, NEW b \in Boxes,
               \/ Fleet!ChangeSettings(t, b) \/ Fleet!SuspendMailbox(t, b)
               \/ Fleet!RestoreMailbox(t, b) \/ Fleet!ArchiveMailbox(t, b)
        PROVE  AccountInv' /\ Apart
    BY <1>4, ChangeSteps
  <1>5. ASSUME \/ \E a \in Approvals :
                    \/ \E o \in Owners, m, n \in Nodes, s \in DOMAIN snaps : Fleet!RequestApproval(a, o, m, n, s)
                    \/ Fleet!ApproveExpired(a) \/ Fleet!TimePasses(a)
               \/ \E t \in Callers :
                    \/ \E a \in Approvals, o \in Owners : Fleet!ApproveBegin(t, a, o) \/ Fleet!RejectBegin(t, a, o)
                    \/ \E m, n \in Nodes, s \in DOMAIN snaps :
                         Fleet!FailoverUnapproved(t, m, n, s) \/ \E a \in Approvals : Fleet!FailoverApproved(t, m, n, s, a)
                    \/ Fleet!DecideCommit(t) \/ Fleet!FailoverCommit(t)
        PROVE  AccountInv' /\ Apart
    BY <1>5, ApprovalSteps
  <1>6. CASE UNCHANGED Fleet!vars
    <2>1. UNCHANGED <<box, snaps, ops, cmds, approval, agent, storage, files, caller, alone>>
      BY <1>6 DEF Fleet!vars
    <2>2. MoveInv'
      BY <2>1, NodeStepKeeps DEF AccountInv
    <2> QED
      BY <2>1, <2>2, AccountStepKeeps DEF Apart
  <1>7. CASE Fleet!Next
    BY <1>1, <1>2, <1>3, <1>4, <1>5, <1>7, Zenon DEF Fleet!Next, WritingStep
  <1> QED
    BY <1>6, <1>7

\* The files follow the rows.
LEMMA FollowsFromInv == AccountInv => AccountsFollow
  <1>1. SUFFICES ASSUME AccountInv, NEW b \in Boxes, NEW n, n = box[b].node, NEW mine, mine = Fleet!Commands(n, b),
                        n # NoNode, alone[b], mine # {}, cmds[Fleet!Max(mine)].status = "completed",
                        \A j \in DOMAIN cmds : j > Fleet!Max(mine) /\ cmds[j].node = n =>
                           cmds[j].status \in {"queued", "completed"}
                 PROVE  Says(n, b, IF box[b].status = "active" THEN box[b].settings ELSE 0)
    BY DEF AccountsFollow, Fleet!AccountsFollow, Says
  <1>2. PICK i \in DOMAIN cmds :
            /\ Mine(i, n, b)
            /\ \A j \in DOMAIN cmds : Mine(j, n, b) => j <= i
            /\ cmds[i].state = box[b].status /\ cmds[i].settings = box[b].settings
    BY <1>1 DEF AccountInv, LastSound
  <1>3. DOMAIN cmds \subseteq Nat
    BY SeqShape DEF AccountInv, MoveInv, FleetTyped
  <1>4. i \in mine /\ \A j \in mine : j <= i /\ j \in Nat
    BY <1>1, <1>2, <1>3 DEF Fleet!Commands, Mine
  <1>5. PICK k : k = Fleet!Max(mine)
    OBVIOUS
  <1>6. k = CHOOSE x \in mine : \A y \in mine : x >= y
    BY <1>5 DEF Fleet!Max
  <1>7. \A y \in mine : i >= y
    BY <1>4
  <1>8. k \in mine /\ \A y \in mine : k >= y
    BY <1>4, <1>6, <1>7
  <1>9. k = i
    BY <1>4, <1>8
  <1>10. Written(i, n)
    BY <1>1, <1>5, <1>9 DEF Written
  <1>11. Followed(i, n, b)
    <2>1. ASSUME NEW j \in DOMAIN cmds, j > i, cmds[j].node = n
          PROVE  cmds[j].status = "queued" \/ (cmds[j].box # b /\ Written(j, n))
      <3>1. cmds[j].status \in {"queued", "completed"}
        BY <1>1, <1>5, <1>9, <2>1
      <3>2. cmds[j].box # b
        BY <1>2, <1>3, <2>1 DEF Mine
      <3> QED
        BY <3>1, <3>2 DEF Written
    <2> QED
      BY <2>1 DEF Followed
  <1>12. n \in Nodes
    BY <1>1 DEF AccountInv, MoveInv, FleetTyped, BoxRows
  <1>13. Says(n, b, IF cmds[i].state = "active" THEN cmds[i].settings ELSE 0)
    <2>1. FilesSound /\ Mine(i, n, b)
      BY <1>1, <1>2 DEF AccountInv
    <2> QED
      BY <1>10, <1>11, <1>12, <2>1 DEF FilesSound
  <1> QED
    BY <1>2, <1>13

\* Once the last command for a mailbox on its node has completed, the node's files say what the
\* mailbox row says, whatever failed, crashed or moved before, unless the last change of the
\* mailbox overlapped another or a later command of the node did not complete
\* (queue_mailbox_sync, claim_mail_node_command, write_account).
THEOREM AccountsAlwaysFollow == Fleet!Spec => []AccountsFollow
  <1>1. AccountInv /\ [Fleet!Next]_(Fleet!vars) => AccountInv'
    BY FleetCases
  <1> QED
    BY <1>1, FleetStart, FollowsFromInv, PTL DEF Fleet!Spec

\* Only a report of a restore moves a mailbox from one node to another.
LEMMA MovedByReport ==
    ASSUME AccountInv, [Fleet!Next]_(Fleet!vars), NEW b \in Boxes, box[b].node # NoNode, box'[b].node # box[b].node
    PROVE  \E t \in Callers : \E r, added : MoveDone(t, r, added) /\ b \in DOMAIN r.moved
  <1> MoveInv
    BY DEF AccountInv
  <1>1. box[b].status # "none"
    BY DEF MoveInv, BoxesSound
  <1>2. WritingStep
    BY FleetCases DEF Apart
  <1>3. ASSUME NEW n \in Nodes, NEW c \in Boxes, Fleet!CreateMailbox(c, n) PROVE FALSE
    BY <1>1, <1>3 DEF Fleet!CreateMailbox, MoveInv, FleetTyped
  <1>4. ASSUME NEW t \in Callers, Fleet!ChangeCommit(t) PROVE FALSE
    <2>1. PICK r \in BoxCalls, w \in BoxRows, e \in CmdRows :
             /\ r = caller[t] /\ r.at = "box" /\ r.row \in BoxRows
             /\ w = [box[r.box] EXCEPT ![r.column] = r.value] /\ w.node = box[r.box].node /\ w.status # "none"
             /\ e = Fleet!Sync(r.row.node, r.box, [r.row EXCEPT ![r.column] = r.value])
             /\ box' \in [Boxes -> BoxRows] /\ box'[r.box] = w /\ \A c \in Boxes \ {r.box} : box'[c] = box[c]
             /\ cmds' = Append(cmds, e)
             /\ alone' = [alone EXCEPT ![r.box] = r.alone]
             /\ caller' = [caller EXCEPT ![t] = Fleet!Idle]
             /\ UNCHANGED <<snaps, ops, approval, agent, storage, files>>
      BY <1>4, ChangeCommitEffect
    <2>2. w.node = box[r.box].node /\ box'[r.box] = w /\ \A c \in Boxes \ {r.box} : box'[c] = box[c]
      BY <2>1
    <2> QED
      BY <2>2
  <1>5. ASSUME NEW n \in Nodes,
               \/ \E t \in Callers : Fleet!MoveBegin(t, n)
               \/ \E ok \in BOOLEAN : Fleet!ClaimCommand(n, ok)
               \/ \E status \in {"completed", "failed"} : Fleet!ReportCommand(n, status)
        PROVE  FALSE
    BY <1>5 DEF Fleet!MoveBegin, Fleet!ClaimCommand, Fleet!ReportCommand, Fleet!rows
  <1>6. PICK t \in Callers : Fleet!MoveCommit(t)
    BY <1>2, <1>3, <1>4, <1>5 DEF WritingStep
  <1>7. PICK r, added : MoveDone(t, r, added)
    BY <1>6, MoveCommitEffect
  <1>8. b \in DOMAIN r.moved
    BY <1>7 DEF MoveDone
  <1> QED
    BY <1>7, <1>8

\* A report of a restore, approved if it had to be, moves mailbox b.
MovesUnderApproval(b) ==
    \E t \in Callers :
      LET r == caller[t]
          o == ops[r.i]
      IN
      /\ r.at = "moving" /\ b \in DOMAIN r.moved /\ o.source = r.moved[b].node
      /\ o.kind = "restore" /\ o.node = box'[b].node /\ ops'[r.i].status = "completed"
      /\ snaps[o.snap].node = o.source
      /\ agent[o.node].at = "waiting" /\ agent[o.node].i = r.i => storage[o.node] = o.snap
      /\ o.approval = Fleet!Idle => FALSE \in DualControl
      /\ o.approval # Fleet!Idle =>
           /\ o.approval.row.payload = <<o.source, o.node, o.snap>>
           /\ o.approval.row.approver \in Owners \ {o.approval.row.by}
           /\ \A j \in DOMAIN ops : j # r.i /\ ops[j].approval # Fleet!Idle /\ ops[j].approval.id = o.approval.id
                => approval[o.approval.id].raced

LEMMA MoveGranted ==
    ASSUME MoveInv, NEW t \in Callers, NEW r, NEW added, MoveDone(t, r, added), NEW b \in DOMAIN r.moved
    PROVE  MovesUnderApproval(b)
  <1>1. r = caller[t] /\ r.at = "moving" /\ box'[b].node = r.node /\ ops' = [ops EXCEPT ![r.i].status = "completed"]
    BY DEF MoveDone
  <1>2. PICK i, n : i = r.i /\ n = r.node
    OBVIOUS
  <1>3. PICK o : o = ops[i]
    OBVIOUS
  <1>4. /\ i \in DOMAIN ops /\ o.node = n /\ o.kind = "restore" /\ r.moved[b].node = o.source
        /\ agent[n].at = "waiting" /\ agent[n].i = i => agent[n].ok
    BY <1>1, <1>2, <1>3 DEF MoveInv, ReportsSound
  <1>5. n \in Nodes
    BY <1>2, MoveShape DEF MoveDone
  <1>6. agent[n].at = "waiting" /\ agent[n].i = i => storage[n] = o.snap
    BY <1>3, <1>4, <1>5 DEF MoveInv, AgentsSound
  <1>7. PICK S : ops \in Seq(OpRows(Nat \cup S))
    BY DEF MoveInv, FleetTyped
  <1>8. ops'[i].status = "completed"
    <2>1. ops' = [ops EXCEPT ![i].status = "completed"]
      BY <1>1, <1>2
    <2> QED
      BY <1>4, <1>7, <2>1, OpStatusSet
  <1>9. SnapOf(o.source, o.snap) /\ (o.approval = Fleet!Idle => FALSE \in DualControl)
    BY <1>3, <1>4 DEF MoveInv, RestoresSound, IsRestore
  <1>10. o.approval # Fleet!Idle =>
           /\ o.approval.row.payload = <<o.source, o.node, o.snap>>
           /\ o.approval.row.approver \in Owners \ {o.approval.row.by}
           /\ \A j \in DOMAIN ops : j # i /\ ops[j].approval # Fleet!Idle /\ ops[j].approval.id = o.approval.id
                => approval[o.approval.id].raced
    <2>1. SUFFICES ASSUME o.approval # Fleet!Idle
                   PROVE  /\ Grants(o.approval.row, o.source, o.node, o.snap)
                          /\ \A j \in DOMAIN ops : j # i /\ Has(j, o.approval.id) => approval[o.approval.id].raced
      BY DEF Grants, Has
    <2>2. o.approval.id \in Approvals
      BY <1>3, <1>4, <2>1, OpShape DEF MoveInv
    <2>3. Has(i, o.approval.id)
      BY <1>3, <1>4, <2>1 DEF Has
    <2>4. RestoresSound
      BY DEF MoveInv
    <2> QED
      BY <1>3, <1>4, <2>2, <2>3, <2>4 DEF RestoresSound
  <1>11. /\ o.node = box'[b].node /\ o.source = r.moved[b].node /\ snaps[o.snap].node = o.source
         /\ agent[o.node].at = "waiting" /\ agent[o.node].i = i => storage[o.node] = o.snap
    BY <1>1, <1>2, <1>4, <1>6, <1>9 DEF SnapOf
  <1> QED
    BY <1>1, <1>2, <1>3, <1>4, <1>8, <1>9, <1>10, <1>11 DEF MovesUnderApproval

\* Mailboxes move only on a report of a restore of a snapshot of the node they were found on, and
\* while the agent waits for the answer that snapshot is what its storage holds.  Unless the
\* backend ran without dual control, another owner than the requester approved exactly this
\* source, target and snapshot, and no other failover has used the approval, except one that
\* read it at the same time (queue_mail_node_failover, consume_security_approval,
\* complete_mail_node_operation).
THEOREM MovesApproved == Fleet!Spec => MoveApproved
  <1>1. AccountInv /\ [Fleet!Next]_(Fleet!vars) => AccountInv'
    BY FleetCases
  <1>2. AccountInv /\ [Fleet!Next]_(Fleet!vars) =>
        [\A b \in Boxes :
           box[b].node # NoNode /\ box'[b].node # box[b].node =>
             \E t \in Callers :
               LET r == caller[t]
                   o == ops[r.i]
               IN
               /\ r.at = "moving" /\ b \in DOMAIN r.moved /\ o.source = r.moved[b].node
               /\ o.kind = "restore" /\ o.node = box'[b].node /\ ops'[r.i].status = "completed"
               /\ snaps[o.snap].node = o.source
               /\ agent[o.node].at = "waiting" /\ agent[o.node].i = r.i => storage[o.node] = o.snap
               /\ o.approval = Fleet!Idle => FALSE \in DualControl
               /\ o.approval # Fleet!Idle =>
                    /\ o.approval.row.payload = <<o.source, o.node, o.snap>>
                    /\ o.approval.row.approver \in Owners \ {o.approval.row.by}
                    /\ \A j \in DOMAIN ops : j # r.i /\ ops[j].approval # Fleet!Idle /\ ops[j].approval.id = o.approval.id
                         => approval[o.approval.id].raced]_(Fleet!vars)
    <2>1. SUFFICES ASSUME AccountInv, [Fleet!Next]_(Fleet!vars), NEW b \in Boxes,
                          box[b].node # NoNode, box'[b].node # box[b].node
                   PROVE  MovesUnderApproval(b)
      BY Zenon DEF MovesUnderApproval
    <2>2. PICK t \in Callers : \E r, added : MoveDone(t, r, added) /\ b \in DOMAIN r.moved
      BY <2>1, MovedByReport
    <2>3. PICK r, added : MoveDone(t, r, added) /\ b \in DOMAIN r.moved
      BY <2>2
    <2> QED
      BY <2>1, <2>3, MoveGranted DEF AccountInv
  <1> QED
    BY <1>1, <1>2, FleetStart, PTL DEF Fleet!Spec, MoveApproved, Fleet!MoveApproved
=============================================================================
