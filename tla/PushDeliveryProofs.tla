------------------------- MODULE PushDeliveryProofs -------------------------
(***************************************************************************)
(* Proofs about PushDelivery, for any number of messages, endpoints,       *)
(* workers and crashes and any batch size: a final message status is the   *)
(* one its deliveries have, a delivery is handed over once and once more   *)
(* for each crash and each lost answer, and Push implements DeliveryQueue. *)
(***************************************************************************)
EXTENDS PushDelivery, TLAPS

-----------------------------------------------------------------------------
(* The inductive invariant.                                                *)

Final == {"delivered", "failed", "partial"}

\* Only a message that exists has deliveries, and a delivery that waits has an
\* attempt left.
RowsSound ==
    \A d \in Deliveries :
        /\ message[d[1]] = "none" => row[d] = Absent
        /\ row[d].status \in Waiting => row[d].attempts < MaxAttempts

\* What a worker has handled, does and has yet to do are parts of its batch,
\* and all of the batch waits.
BatchSound ==
    \A w \in Workers :
        /\ worker[w].todo \cup worker[w].now \subseteq worker[w].batch
        /\ worker[w].todo \cap worker[w].now = {}
        /\ \A c, d \in worker[w].now : c = d
        /\ \A d \in worker[w].batch : row[d].status \in Waiting

\* No two workers have locked the same delivery (FOR UPDATE SKIP LOCKED).
BatchesExclusive ==
    \A v, w \in Workers : v # w => worker[v].batch \cap worker[w].batch = {}

\* Of its batch a worker holds the rows as they are stored or as an outcome made
\* them; a delivery it will call delivered was accepted.
BatchMemory ==
    \A w \in Workers : \A d \in worker[w].batch :
        /\ d \in worker[w].todo => worker[w].mem[d] = row[d]
        /\ d \notin worker[w].todo => \E o \in Outcomes :
              worker[w].mem[d] = After(row[d], o) /\ (o = "ok" => accepted[d] > 0)

\* The siblings it has loaded may be stale, but only while they wait: a row that
\* has ended, or never was, stays so.
SiblingMemory ==
    \A w \in Workers : \A d \in Deliveries \ worker[w].batch :
        (d[1] \in worker[w].loaded /\ worker[w].mem[d].status \notin Waiting) =>
            worker[w].mem[d] = row[d]

\* A status to be written is that of the deliveries in memory; a message that was
\* looked at is refreshed before the commit.
SumSound ==
    \A w \in Workers : \A m \in Messages :
        LET busy == \E d \in worker[w].now : d[1] = m
        IN  /\ m \notin worker[w].loaded => worker[w].sum[m] = "none"
            /\ m \notin worker[w].loaded /\ ~busy => worker[w].was[m] = "none"
            /\ m \in worker[w].loaded /\ ~busy =>
                  worker[w].sum[m] = Aggregate(StatusesOf(m, worker[w].mem))
            /\ m \in worker[w].loaded => message[m] # "none"

\* Worker w was told that delivery d was accepted and has yet to commit it.
SentUncommitted(w, d) ==
    d \in worker[w].batch \ worker[w].todo /\ worker[w].mem[d].status = "delivered"

\* An acceptance that no transaction remembers was forgotten by a crash, or its
\* answer never came.
AcceptedSound ==
    \A d \in Deliveries :
        /\ accepted[d] <= 1 + crashes + lost[d]
        /\ row[d].status = "absent" => accepted[d] = 0
        /\ row[d].status \in Waiting /\ accepted[d] > crashes + lost[d] =>
              \E w \in Workers : SentUncommitted(w, d)

PushInv ==
    /\ TypeOK /\ RowsSound /\ BatchSound /\ BatchesExclusive /\ BatchMemory
    /\ SiblingMemory /\ SumSound /\ AcceptedSound /\ FinalStatusTrue

-----------------------------------------------------------------------------
(* The operators of run_once.                                              *)

LEMMA DeliveryParts ==
    ASSUME NEW d \in Deliveries
    PROVE  d[1] \in Messages /\ d[2] \in Endpoints /\ d = <<d[1], d[2]>>
BY DEF Deliveries

\* An attempt at a waiting row with an attempt left yields a row that has ended
\* or has an attempt left; it is delivered exactly when the provider's acceptance
\* arrived.
LEMMA AfterRow ==
    ASSUME NEW r \in Row, r.attempts < MaxAttempts, NEW o \in Outcomes
    PROVE  /\ After(r, o) \in Row
           /\ After(r, o).status \in Terminal \cup {"retry"}
           /\ After(r, o).status = "retry" => After(r, o).attempts < MaxAttempts
           /\ After(r, o).status = "delivered" <=> o = "ok"
<1>1. r.attempts \in 0..MaxAttempts /\ MaxAttempts \in Nat
  BY DeliveryAssumption DEF Row
<1>2. After(r, o).attempts \in 0..MaxAttempts
  BY <1>1 DEF After
<1>3. /\ After(r, o).status \in Terminal \cup {"retry"}
      /\ After(r, o).status = "retry" => After(r, o).attempts < MaxAttempts
      /\ After(r, o).status = "delivered" <=> o = "ok"
  BY DEF After, Terminal, Unsuccessful, Outcomes
<1>4. After(r, o) = [status |-> After(r, o).status, attempts |-> After(r, o).attempts]
  BY DEF After
<1> QED BY <1>2, <1>3, <1>4 DEF Row, Statuses, Waiting

\* refresh_message_status gives a final status only when no delivery waits.
LEMMA AggregateFinal ==
    ASSUME NEW S
    PROVE  /\ Aggregate(S) \in MessageStatuses \ {"none"}
           /\ Aggregate(S) \in Final => S \cap Waiting = {}
BY DEF Aggregate, MessageStatuses, Final, Waiting, Unsuccessful

\* The statuses of a message depend on its deliveries alone.
LEMMA SameStatuses ==
    ASSUME NEW m \in Messages, NEW f, NEW g,
           \A d \in Deliveries : d[1] = m => f[d].status = g[d].status
    PROVE  StatusesOf(m, f) = StatusesOf(m, g)
<1>1. \A e \in Endpoints : f[<<m, e>>].status = g[<<m, e>>].status
  BY DEF Deliveries
<1> QED BY <1>1 DEF StatusesOf

LEMMA TypedRows == Absent \in Row /\ Queued \in Row /\ NoWork \in WorkerState
<1>1. Absent \in Row /\ Queued \in Row
  BY DeliveryAssumption DEF Absent, Queued, Row, Statuses, Waiting
<1> QED BY <1>1 DEF NoWork, WorkerState, MessageStatuses

-----------------------------------------------------------------------------
(* What each step of a worker does to its transaction.                     *)

LEMMA Selected ==
    ASSUME TypeOK, NEW w \in Workers, Select(w)
    PROVE  \E B \in SUBSET Available : B # {} /\
             /\ worker' = [worker EXCEPT ![w] = worker'[w]] /\ worker'[w] \in WorkerState
             /\ worker'[w].batch = B /\ worker'[w].todo = B /\ worker'[w].now = {}
             /\ worker'[w].loaded = {} /\ \A d \in B : worker'[w].mem[d] = row[d]
             /\ \A m \in Messages : worker'[w].was[m] = "none" /\ worker'[w].sum[m] = "none"
<1>1. PICK B \in SUBSET Available : B # {} /\
        worker' = [worker EXCEPT ![w] = [NoWork EXCEPT !.batch = B, !.todo = B,
                          !.mem = [d \in Deliveries |-> IF d \in B THEN row[d] ELSE Absent]]]
  BY DEF Select
<1>2. B \subseteq Deliveries
  BY DEF Available, TypeOK
<1> DEFINE mem == [d \in Deliveries |-> IF d \in B THEN row[d] ELSE Absent]
           t == [NoWork EXCEPT !.batch = B, !.todo = B, !.mem = mem]
<1>3. mem \in [Deliveries -> Row] /\ \A d \in B : mem[d] = row[d]
  BY <1>2, TypedRows DEF TypeOK
<1> HIDE DEF mem
<1>4. t \in WorkerState
  BY <1>2, <1>3, TypedRows DEF WorkerState
<1>5. /\ t.batch = B /\ t.todo = B /\ t.now = {} /\ t.loaded = {} /\ t.mem = mem
      /\ \A m \in Messages : t.was[m] = "none" /\ t.sum[m] = "none"
  BY DEF NoWork
<1> HIDE DEF t
<1>6. worker' = [worker EXCEPT ![w] = t]
  BY <1>1 DEF t, mem
<1>7. worker'[w] = t
  BY <1>6 DEF TypeOK
<1> QED BY <1>1, <1>3, <1>4, <1>5, <1>6, <1>7

LEMMA AttemptDone ==
    ASSUME TypeOK, RowsSound, BatchSound, BatchMemory, NEW w \in Workers,
           NEW d \in worker[w].todo, NEW o \in Outcomes, Attempt(w, d, o)
    PROVE  /\ d \in Deliveries /\ row[d].status \in Waiting /\ row[d] \in Row
           /\ row[d].attempts < MaxAttempts
           /\ worker' = [worker EXCEPT ![w] = worker'[w]] /\ worker'[w] \in WorkerState
           /\ worker[w].now = {} /\ worker'[w].now = {d}
           /\ worker'[w].batch = worker[w].batch /\ worker'[w].todo = worker[w].todo \ {d}
           /\ worker'[w].loaded = worker[w].loaded /\ worker'[w].sum = worker[w].sum
           /\ worker'[w].mem[d] = After(row[d], o)
           /\ \A k \in Deliveries \ {d} : worker'[w].mem[k] = worker[w].mem[k]
           /\ \A m \in Messages \ {d[1]} : worker'[w].was[m] = worker[w].was[m]
<1> DEFINE t == worker[w]
           mem == [t.mem EXCEPT ![d] = After(t.mem[d], o)]
           was == [t.was EXCEPT ![d[1]] = IF t.was[d[1]] = "none" THEN message[d[1]] ELSE t.was[d[1]]]
           off == IF o = "invalid" THEN t.off \cup {d[2]} ELSE t.off
           u == [t EXCEPT !.now = {d}, !.todo = t.todo \ {d}, !.mem = mem, !.was = was, !.off = off]
<1>1. t \in WorkerState
  BY DEF TypeOK
<1>2. /\ t.todo \subseteq Deliveries /\ t.mem \in [Deliveries -> Row] /\ t.off \subseteq Endpoints
      /\ t.was \in [Messages -> MessageStatuses]
  BY <1>1 DEF WorkerState
<1>3. d \in Deliveries /\ d \in t.batch /\ d[1] \in Messages /\ d[2] \in Endpoints
  BY <1>2, DeliveryParts DEF BatchSound
<1>4. /\ row[d].status \in Waiting /\ row[d] \in Row /\ row[d].attempts < MaxAttempts
      /\ t.mem[d] = row[d]
  BY <1>3 DEF BatchSound, RowsSound, BatchMemory, TypeOK
<1>5. /\ mem \in [Deliveries -> Row] /\ mem[d] = After(row[d], o)
      /\ \A k \in Deliveries \ {d} : mem[k] = t.mem[k]
  BY <1>2, <1>3, <1>4, AfterRow
<1>6. /\ was \in [Messages -> MessageStatuses]
      /\ \A m \in Messages \ {d[1]} : was[m] = t.was[m]
  <2>1. message[d[1]] \in MessageStatuses
    BY <1>3 DEF TypeOK
  <2> QED BY <1>2, <1>3, <2>1
<1>7. off \subseteq Endpoints
  BY <1>2, <1>3
<1>8. worker' = [worker EXCEPT ![w] = u] /\ t.now = {}
  BY <1>1 DEF Attempt, WorkerState
<1> HIDE DEF mem, was, off
<1>9. u \in WorkerState
  BY <1>1, <1>2, <1>3, <1>5, <1>6, <1>7 DEF WorkerState
<1>10. /\ u.now = {d} /\ u.batch = t.batch /\ u.todo = t.todo \ {d} /\ u.loaded = t.loaded
       /\ u.sum = t.sum /\ u.mem = mem /\ u.was = was
  BY <1>1 DEF WorkerState
<1> HIDE DEF u
<1>11. worker'[w] = u
  BY <1>8 DEF TypeOK
<1> QED BY <1>3, <1>4, <1>5, <1>6, <1>8, <1>9, <1>10, <1>11

LEMMA Refreshed ==
    ASSUME TypeOK, NEW w \in Workers, Refresh(w)
    PROVE  \E d \in worker[w].now : d \in Deliveries /\
             /\ worker' = [worker EXCEPT ![w] = worker'[w]] /\ worker'[w] \in WorkerState
             /\ worker'[w].now = {} /\ worker'[w].batch = worker[w].batch
             /\ worker'[w].todo = worker[w].todo /\ worker'[w].was = worker[w].was
             /\ worker'[w].loaded = worker[w].loaded \cup {d[1]}
             /\ \A k \in Deliveries : worker'[w].mem[k] =
                   IF k[1] = d[1] /\ d[1] \notin worker[w].loaded /\ k \notin worker[w].batch
                   THEN row[k] ELSE worker[w].mem[k]
             /\ worker'[w].sum[d[1]] = Aggregate(StatusesOf(d[1], worker'[w].mem))
             /\ \A m \in Messages \ {d[1]} : worker'[w].sum[m] = worker[w].sum[m]
<1> DEFINE t == worker[w]
<1>1. t \in WorkerState
  BY DEF TypeOK
<1>2. PICK d \in t.now : worker' = [worker EXCEPT
                    ![w] = [t EXCEPT !.now = {}, !.loaded = t.loaded \cup {d[1]}, !.mem = Loaded(t, d[1]),
                                     !.sum[d[1]] = Aggregate(StatusesOf(d[1], Loaded(t, d[1])))]]
  BY DEF Refresh
<1> DEFINE m == d[1]
           mem == Loaded(t, m)
           sum == [t.sum EXCEPT ![m] = Aggregate(StatusesOf(m, mem))]
           u == [t EXCEPT !.now = {}, !.loaded = t.loaded \cup {m}, !.mem = mem, !.sum = sum]
<1>3. d \in Deliveries /\ m \in Messages
  BY <1>1, DeliveryParts DEF WorkerState
<1>4. /\ mem \in [Deliveries -> Row]
      /\ \A k \in Deliveries : mem[k] = IF k[1] = m /\ m \notin t.loaded /\ k \notin t.batch
                                        THEN row[k] ELSE t.mem[k]
  BY <1>1 DEF Loaded, TypeOK, WorkerState
<1>5. /\ sum \in [Messages -> MessageStatuses] /\ sum[m] = Aggregate(StatusesOf(m, mem))
      /\ \A n \in Messages \ {m} : sum[n] = t.sum[n]
  BY <1>1, <1>3, AggregateFinal DEF WorkerState
<1>6. worker' = [worker EXCEPT ![w] = u]
  BY <1>1, <1>2 DEF WorkerState
<1> HIDE DEF mem, sum
<1>7. u \in WorkerState
  BY <1>1, <1>3, <1>4, <1>5 DEF WorkerState
<1>8. /\ u.now = {} /\ u.batch = t.batch /\ u.todo = t.todo /\ u.was = t.was
      /\ u.loaded = t.loaded \cup {m} /\ u.mem = mem /\ u.sum = sum
  BY <1>1 DEF WorkerState
<1> HIDE DEF u
<1>9. worker'[w] = u
  BY <1>6 DEF TypeOK
<1>10. worker' = [worker EXCEPT ![w] = worker'[w]] /\ worker'[w] \in WorkerState
  BY <1>6, <1>7, <1>9
<1>11. worker'[w].sum[m] = Aggregate(StatusesOf(m, worker'[w].mem))
  BY <1>5, <1>8, <1>9
<1>12. \A k \in Deliveries : worker'[w].mem[k] =
          IF k[1] = m /\ m \notin t.loaded /\ k \notin t.batch THEN row[k] ELSE t.mem[k]
  BY <1>4, <1>8, <1>9
<1> QED BY <1>3, <1>5, <1>8, <1>9, <1>10, <1>11, <1>12

-----------------------------------------------------------------------------
(* Type correctness.                                                       *)

LEMMA TypeStep == PushInv /\ [Next]_vars => TypeOK'
<1> SUFFICES ASSUME PushInv, [Next]_vars PROVE TypeOK'
  OBVIOUS
<1>0. TypeOK /\ RowsSound /\ BatchSound /\ BatchMemory
  BY DEF PushInv
<1>1. ASSUME NEW m \in Messages, QueueRead(m) PROVE TypeOK'
  <2>1. PICK eps \in SUBSET Endpoints : queueing' = [queueing EXCEPT ![m] = eps]
    BY <1>1 DEF QueueRead
  <2>2. queueing' \in [Messages -> (SUBSET Endpoints) \cup {NotRead}]
    BY <1>0, <2>1 DEF TypeOK
  <2> QED BY <1>0, <1>1, <2>2 DEF QueueRead, storeVars, sentVars, TypeOK
<1>2. ASSUME NEW m \in Messages, QueueCommit(m) PROVE TypeOK'
  <2>1. queueing[m] \subseteq Endpoints
    BY <1>0, <1>2 DEF QueueCommit, TypeOK
  <2>2. {m} \X queueing[m] \subseteq Deliveries
    BY <2>1 DEF Deliveries
  <2>3. message' \in [Messages -> MessageStatuses]
    BY <1>0, <1>2 DEF QueueCommit, TypeOK, MessageStatuses
  <2>4. row' \in [Deliveries -> Row] /\ due' \in SUBSET Deliveries
    BY <1>0, <1>2, <2>2, TypedRows DEF QueueCommit, TypeOK
  <2> QED BY <1>0, <1>2, <2>3, <2>4 DEF QueueCommit, worldVars, sentVars, TypeOK
<1>3. ASSUME NEW m \in Messages, Expire(m) PROVE TypeOK'
  BY <1>0, <1>3 DEF Expire, storeVars, sentVars, TypeOK
<1>4. ASSUME NEW e \in Endpoints, Register(e) \/ SwitchOff(e) PROVE TypeOK'
  BY <1>0, <1>4 DEF Register, SwitchOff, worldVars, sentVars, TypeOK
<1>5. ASSUME NEW e \in Endpoints, NewToken(e) PROVE TypeOK'
  BY <1>0, <1>5 DEF NewToken, worldVars, sentVars, TypeOK
<1>6. ASSUME NEW d \in Deliveries, Elapse(d) PROVE TypeOK'
  BY <1>0, <1>6 DEF Elapse, worldVars, sentVars, TypeOK
<1>7. ASSUME NEW w \in Workers, Select(w) PROVE TypeOK'
  <2>1. worker' \in [Workers -> WorkerState]
    BY <1>0, <1>7, Selected DEF TypeOK
  <2> QED BY <1>0, <1>7, <2>1 DEF Select, storeVars, worldVars, sentVars, TypeOK
<1>8. ASSUME NEW w \in Workers, NEW d \in worker[w].todo, NEW o \in Outcomes, Attempt(w, d, o)
      PROVE  TypeOK'
  <2>1. worker' \in [Workers -> WorkerState] /\ d \in Deliveries
    BY <1>0, <1>8, AttemptDone DEF TypeOK
  <2>2. accepted' \in [Deliveries -> Nat] /\ lost' \in [Deliveries -> Nat]
    BY <1>0, <1>8, <2>1 DEF Attempt, TypeOK
  <2> QED BY <1>0, <1>8, <2>1, <2>2 DEF Attempt, storeVars, worldVars, sentVars, TypeOK
<1>9. ASSUME NEW w \in Workers, Refresh(w) PROVE TypeOK'
  <2>1. worker' \in [Workers -> WorkerState]
    BY <1>0, <1>9, Refreshed DEF TypeOK
  <2> QED BY <1>0, <1>9, <2>1 DEF Refresh, storeVars, worldVars, sentVars, TypeOK
<1>10. ASSUME NEW w \in Workers, Commit(w) PROVE TypeOK'
  <2>1. worker[w] \in WorkerState
    BY <1>0 DEF TypeOK
  <2>2. worker' \in [Workers -> WorkerState]
    BY <1>0, <1>10, TypedRows DEF Commit, TypeOK
  <2>3. row' \in [Deliveries -> Row] /\ due' \in SUBSET Deliveries
    BY <1>0, <1>10, <2>1 DEF Commit, TypeOK, WorkerState
  <2>4. message' \in [Messages -> MessageStatuses]
    BY <1>0, <1>10, <2>1 DEF Commit, TypeOK, WorkerState
  <2>5. endpoint' \in [Endpoints -> {"off", "current", "stale"}]
    BY <1>0, <1>10 DEF Commit, TypeOK
  <2> QED BY <1>0, <1>10, <2>2, <2>3, <2>4, <2>5 DEF Commit, worldVars, sentVars, TypeOK
<1>11. ASSUME NEW w \in Workers, Crash(w) PROVE TypeOK'
  <2>1. worker' \in [Workers -> WorkerState]
    BY <1>0, <1>11, TypedRows DEF Crash, TypeOK
  <2> QED BY <1>0, <1>11, <2>1, DeliveryAssumption DEF Crash, storeVars, worldVars, sentVars, TypeOK
<1>12. CASE UNCHANGED vars
  BY <1>0, <1>12 DEF vars, TypeOK
<1> QED BY <1>1, <1>2, <1>3, <1>4, <1>5, <1>6, <1>7, <1>8, <1>9, <1>10, <1>11, <1>12
        DEF Next, WorkerStep

-----------------------------------------------------------------------------
(* One lemma per step: it keeps the inductive invariant.                   *)

\* The API's other calls and the world outside touch neither messages, nor
\* deliveries, nor transactions.
LEMMA OutsideKeeps ==
    ASSUME PushInv, TypeOK', UNCHANGED <<message, row, worker, accepted, lost, crashes>>
    PROVE  PushInv'
<1>1. RowsSound' /\ BatchSound' /\ BatchesExclusive'
  BY DEF PushInv, RowsSound, BatchSound, BatchesExclusive
<1>2. BatchMemory' /\ SiblingMemory'
  BY DEF PushInv, BatchMemory, SiblingMemory
<1>3. SumSound'
  BY DEF PushInv, SumSound
<1>4. AcceptedSound'
  BY DEF PushInv, AcceptedSound, SentUncommitted
<1>5. FinalStatusTrue'
  BY DEF PushInv, FinalStatusTrue
<1> QED BY <1>1, <1>2, <1>3, <1>4, <1>5 DEF PushInv

LEMMA QueueCommitKeeps ==
    ASSUME PushInv, TypeOK', NEW n \in Messages, QueueCommit(n)
    PROVE  PushInv'
<1>1. /\ message[n] = "none" /\ message'[n] \in {"queued", "no_endpoints"}
      /\ \A m \in Messages \ {n} : message'[m] = message[m]
      /\ worker' = worker /\ accepted' = accepted /\ lost' = lost /\ crashes' = crashes
  BY DEF PushInv, TypeOK, QueueCommit, sentVars
<1>2. \A d \in Deliveries : /\ d[1] # n => row'[d] = row[d]
                            /\ d[1] = n => row[d] = Absent /\ row'[d] \in {Queued, row[d]}
  BY DEF PushInv, RowsSound, QueueCommit
<1>3. \A d \in Deliveries : row[d].status # "absent" => row'[d] = row[d]
  BY <1>2 DEF Absent
<1>4. RowsSound'
  <2>1. Queued.status = "queued" /\ Queued.attempts < MaxAttempts
    BY DeliveryAssumption DEF Queued
  <2>2. \A d \in Deliveries : message'[d[1]] = "none" => message[d[1]] = "none" /\ d[1] # n
    BY <1>1, DeliveryParts
  <2> QED BY <1>2, <2>1, <2>2 DEF PushInv, RowsSound
<1>5. \A w \in Workers : \A d \in worker[w].batch : d \in Deliveries /\ row'[d] = row[d]
  <2>1. \A w \in Workers : worker[w].batch \subseteq Deliveries
    BY DEF PushInv, TypeOK, WorkerState
  <2> QED BY <1>3, <2>1 DEF PushInv, BatchSound, Waiting
<1>6. BatchSound' /\ BatchesExclusive' /\ BatchMemory'
  <2>1. BatchSound'
    BY <1>1, <1>5 DEF PushInv, BatchSound
  <2>2. BatchesExclusive'
    BY <1>1 DEF PushInv, BatchesExclusive
  <2>3. BatchMemory'
    BY <1>1, <1>5 DEF PushInv, BatchMemory
  <2> QED BY <2>1, <2>2, <2>3
<1>7. SiblingMemory'
  <2>1. ASSUME NEW w \in Workers, NEW d \in Deliveries, d[1] \in worker[w].loaded
        PROVE  row'[d] = row[d]
    <3>1. message[d[1]] # "none"
      BY <2>1, DeliveryParts DEF PushInv, SumSound
    <3> QED BY <1>1, <1>2, <3>1
  <2> QED BY <1>1, <2>1 DEF PushInv, SiblingMemory
<1>8. SumSound'
  <2>1. \A m \in Messages : message[m] # "none" => message'[m] # "none"
    BY <1>1
  <2> QED BY <1>1, <2>1 DEF PushInv, SumSound
<1>9. AcceptedSound'
  <2>1. ASSUME NEW d \in Deliveries, row'[d] # row[d] PROVE accepted[d] = 0 /\ row'[d].status = "queued"
    BY <1>2, <2>1 DEF PushInv, AcceptedSound, Absent, Queued
  <2>2. crashes \in Nat /\ \A d \in Deliveries : lost[d] \in Nat
    BY DEF PushInv, TypeOK
  <2> QED BY <1>1, <2>1, <2>2 DEF PushInv, AcceptedSound, SentUncommitted
<1>10. FinalStatusTrue'
  <2>1. ASSUME NEW m \in Messages, message'[m] \in Final
        PROVE  message'[m] = Aggregate(StatusesOf(m, row'))
    <3>1. m # n
      BY <1>1, <2>1 DEF Final
    <3>2. StatusesOf(m, row') = StatusesOf(m, row)
      BY <1>2, <3>1, SameStatuses
    <3> QED BY <1>1, <2>1, <3>1, <3>2 DEF PushInv, FinalStatusTrue, Final
  <2> QED BY <2>1 DEF FinalStatusTrue, Final
<1> QED BY <1>4, <1>6, <1>7, <1>8, <1>9, <1>10 DEF PushInv

\* The invariant for one worker's transaction; what a step does to the others
\* follows from what it leaves alone.
BatchSoundOf(w) ==
    /\ worker[w].todo \cup worker[w].now \subseteq worker[w].batch
    /\ worker[w].todo \cap worker[w].now = {}
    /\ \A c, d \in worker[w].now : c = d
    /\ \A d \in worker[w].batch : row[d].status \in Waiting

MemorySoundOf(w) ==
    /\ \A d \in worker[w].batch :
        /\ d \in worker[w].todo => worker[w].mem[d] = row[d]
        /\ d \notin worker[w].todo => \E o \in Outcomes :
              worker[w].mem[d] = After(row[d], o) /\ (o = "ok" => accepted[d] > 0)
    /\ \A d \in Deliveries \ worker[w].batch :
        (d[1] \in worker[w].loaded /\ worker[w].mem[d].status \notin Waiting) =>
            worker[w].mem[d] = row[d]

SumSoundOf(w, m) ==
    LET busy == \E d \in worker[w].now : d[1] = m
    IN  /\ m \notin worker[w].loaded => worker[w].sum[m] = "none"
        /\ m \notin worker[w].loaded /\ ~busy => worker[w].was[m] = "none"
        /\ m \in worker[w].loaded /\ ~busy =>
              worker[w].sum[m] = Aggregate(StatusesOf(m, worker[w].mem))
        /\ m \in worker[w].loaded => message[m] # "none"

\* A step inside one worker's transaction, before its commit.
LEMMA TransactionKeeps ==
    ASSUME PushInv, TypeOK', NEW w \in Workers,
           worker' = [worker EXCEPT ![w] = worker'[w]],
           UNCHANGED <<message, row, crashes>>,
           \A d \in Deliveries : accepted'[d] >= accepted[d],
           \A v \in Workers \ {w} : worker'[w].batch \cap worker[v].batch = {},
           BatchSoundOf(w)', MemorySoundOf(w)', \A m \in Messages : SumSoundOf(w, m)',
           AcceptedSound'
    PROVE  PushInv'
<1>1. \A v \in Workers \ {w} : worker'[v] = worker[v]
  BY DEF PushInv, TypeOK
<1>2. RowsSound' /\ FinalStatusTrue'
  BY DEF PushInv, RowsSound, FinalStatusTrue
<1>3. BatchSound'
  BY <1>1 DEF PushInv, BatchSound, BatchSoundOf
<1>4. BatchesExclusive'
  BY <1>1 DEF PushInv, BatchesExclusive
<1>5. BatchMemory'
  <2>1. ASSUME NEW v \in Workers, v # w, NEW d \in worker[v].batch, NEW o \in Outcomes,
               o = "ok" => accepted[d] > 0
        PROVE  o = "ok" => accepted'[d] > 0
    <3>1. d \in Deliveries /\ accepted[d] \in Nat /\ accepted'[d] \in Nat
      BY DEF PushInv, TypeOK, WorkerState
    <3> QED BY <2>1, <3>1
  <2>2. ASSUME NEW v \in Workers, v # w, NEW d \in worker'[v].batch
        PROVE  /\ d \in worker'[v].todo => worker'[v].mem[d] = row'[d]
               /\ d \notin worker'[v].todo => \E o \in Outcomes :
                     worker'[v].mem[d] = After(row'[d], o) /\ (o = "ok" => accepted'[d] > 0)
    BY <1>1, <2>1, <2>2 DEF PushInv, BatchMemory
  <2> QED BY <2>2 DEF BatchMemory, MemorySoundOf
<1>6. SiblingMemory'
  <2>1. ASSUME NEW v \in Workers, v # w, NEW d \in Deliveries \ worker'[v].batch,
               d[1] \in worker'[v].loaded, worker'[v].mem[d].status \notin Waiting
        PROVE  worker'[v].mem[d] = row'[d]
    BY <1>1, <2>1 DEF PushInv, SiblingMemory
  <2> QED BY <2>1 DEF SiblingMemory, MemorySoundOf
<1>7. SumSound'
  <2>1. ASSUME NEW v \in Workers, v # w, NEW m \in Messages PROVE SumSoundOf(v, m)'
    BY <1>1, <2>1 DEF PushInv, SumSound, SumSoundOf
  <2> QED BY <2>1 DEF SumSound, SumSoundOf
<1> QED BY <1>2, <1>3, <1>4, <1>5, <1>6, <1>7 DEF PushInv

LEMMA SelectKeeps ==
    ASSUME PushInv, TypeOK', NEW w \in Workers, Select(w)
    PROVE  PushInv'
<1>1. PICK B \in SUBSET Available :
        /\ worker' = [worker EXCEPT ![w] = worker'[w]]
        /\ worker'[w].batch = B /\ worker'[w].todo = B /\ worker'[w].now = {}
        /\ worker'[w].loaded = {} /\ \A d \in B : worker'[w].mem[d] = row[d]
        /\ \A m \in Messages : worker'[w].was[m] = "none" /\ worker'[w].sum[m] = "none"
  BY Selected DEF PushInv
<1>2. /\ message' = message /\ row' = row /\ accepted' = accepted /\ lost' = lost /\ crashes' = crashes
      /\ worker[w] = NoWork
  BY DEF Select, storeVars, sentVars
<1>3. \A d \in B : row[d].status \in Waiting /\ \A v \in Workers : d \notin worker[v].batch
  BY DEF Available, Locked
<1>4. BatchSoundOf(w)' /\ MemorySoundOf(w)'
  BY <1>1, <1>2, <1>3 DEF BatchSoundOf, MemorySoundOf
<1>5. \A m \in Messages : SumSoundOf(w, m)'
  BY <1>1 DEF SumSoundOf
<1>6. AcceptedSound'
  <2>1. \A d \in Deliveries : ~SentUncommitted(w, d)
    BY <1>2 DEF SentUncommitted, NoWork
  <2>2. \A v \in Workers \ {w} : worker'[v] = worker[v]
    BY <1>1 DEF PushInv, TypeOK
  <2> QED BY <1>2, <2>1, <2>2 DEF PushInv, AcceptedSound, SentUncommitted
<1>7. \A d \in Deliveries : accepted'[d] >= accepted[d]
  BY <1>2 DEF PushInv, TypeOK
<1> QED BY <1>1, <1>2, <1>3, <1>4, <1>5, <1>6, <1>7, TransactionKeeps

\* The provider's answer: the only step that hands a delivery over.
LEMMA AttemptKeeps ==
    ASSUME PushInv, TypeOK', NEW w \in Workers, NEW d \in worker[w].todo, NEW o \in Outcomes,
           Attempt(w, d, o)
    PROVE  PushInv'
<1>1. /\ d \in Deliveries /\ row[d].status \in Waiting /\ row[d] \in Row
      /\ row[d].attempts < MaxAttempts
      /\ worker' = [worker EXCEPT ![w] = worker'[w]]
      /\ worker[w].now = {} /\ worker'[w].now = {d}
      /\ worker'[w].batch = worker[w].batch /\ worker'[w].todo = worker[w].todo \ {d}
      /\ worker'[w].loaded = worker[w].loaded /\ worker'[w].sum = worker[w].sum
      /\ worker'[w].mem[d] = After(row[d], o)
      /\ \A k \in Deliveries \ {d} : worker'[w].mem[k] = worker[w].mem[k]
      /\ \A m \in Messages \ {d[1]} : worker'[w].was[m] = worker[w].was[m]
  BY AttemptDone DEF PushInv
<1>2. /\ message' = message /\ row' = row /\ crashes' = crashes
      /\ \A k \in Deliveries : accepted'[k] = IF o \in {"ok", "lost"} /\ k = d THEN accepted[k] + 1 ELSE accepted[k]
      /\ \A k \in Deliveries : lost'[k] = IF o = "lost" /\ k = d THEN lost[k] + 1 ELSE lost[k]
  BY <1>1 DEF Attempt, storeVars, sentVars, PushInv, TypeOK
<1>3. \A k \in Deliveries : /\ accepted[k] \in Nat /\ accepted'[k] \in Nat
                            /\ accepted'[k] >= accepted[k]
  BY <1>2 DEF PushInv, TypeOK
<1>4. d \in worker[w].batch /\ worker[w].batch \subseteq Deliveries
  BY DEF PushInv, BatchSound, TypeOK, WorkerState
<1>5. BatchSoundOf(w)'
  BY <1>1, <1>2, <1>4 DEF PushInv, BatchSound, BatchSoundOf
<1>6. MemorySoundOf(w)'
  <2>1. ASSUME NEW k \in worker[w].batch, k # d, k \notin worker[w].todo
        PROVE  \E a \in Outcomes : worker[w].mem[k] = After(row[k], a) /\ (a = "ok" => accepted'[k] > 0)
    <3>1. PICK a \in Outcomes : worker[w].mem[k] = After(row[k], a) /\ (a = "ok" => accepted[k] > 0)
      BY <2>1 DEF PushInv, BatchMemory
    <3> QED BY <1>3, <1>4, <3>1
  <2>2. o = "ok" => accepted'[d] > 0
    BY <1>1, <1>2, <1>3
  <2>3. ASSUME NEW k \in worker'[w].batch
        PROVE  /\ k \in worker'[w].todo => worker'[w].mem[k] = row'[k]
               /\ k \notin worker'[w].todo => \E a \in Outcomes :
                     worker'[w].mem[k] = After(row'[k], a) /\ (a = "ok" => accepted'[k] > 0)
    BY <1>1, <1>2, <1>4, <2>1, <2>2, <2>3 DEF PushInv, BatchMemory
  <2>4. ASSUME NEW k \in Deliveries \ worker'[w].batch, k[1] \in worker'[w].loaded,
               worker'[w].mem[k].status \notin Waiting
        PROVE  worker'[w].mem[k] = row'[k]
    BY <1>1, <1>2, <1>4, <2>4 DEF PushInv, SiblingMemory
  <2> QED BY <2>3, <2>4 DEF MemorySoundOf
<1>7. ASSUME NEW m \in Messages PROVE SumSoundOf(w, m)'
  <2>1. SumSoundOf(w, m)
    BY DEF PushInv, SumSound, SumSoundOf
  <2>2. CASE m = d[1]
    BY <1>1, <1>2, <2>1, <2>2 DEF SumSoundOf
  <2>3. CASE m # d[1]
    <3>0. \A k \in Deliveries : k[1] = m => worker'[w].mem[k].status = worker[w].mem[k].status
      BY <1>1, <2>3
    <3>1. StatusesOf(m, worker'[w].mem) = StatusesOf(m, worker[w].mem)
      BY <3>0, SameStatuses, Zenon
    <3> QED BY <1>1, <1>2, <2>1, <2>3, <3>1 DEF SumSoundOf
  <2> QED BY <2>2, <2>3
<1>8. AcceptedSound'
  <2>0. \A v \in Workers \ {w} : worker'[v] = worker[v]
    BY <1>1 DEF PushInv, TypeOK
  <2>1. \A v \in Workers : ~SentUncommitted(v, d)
    BY <1>4 DEF SentUncommitted, PushInv, BatchesExclusive
  <2>2. accepted[d] <= crashes + lost[d] /\ lost[d] \in Nat /\ crashes \in Nat
    BY <1>1, <2>1 DEF PushInv, AcceptedSound, TypeOK
  <2>3. o = "ok" => SentUncommitted(w, d)'
    BY <1>1, <1>4, AfterRow DEF SentUncommitted
  <2>4. \A v \in Workers, k \in Deliveries \ {d} : SentUncommitted(v, k) => SentUncommitted(v, k)'
    BY <1>1, <2>0 DEF SentUncommitted
  <2>5. ASSUME NEW k \in Deliveries
        PROVE  /\ accepted'[k] <= 1 + crashes' + lost'[k]
               /\ row'[k].status = "absent" => accepted'[k] = 0
               /\ row'[k].status \in Waiting /\ accepted'[k] > crashes' + lost'[k] =>
                      \E v \in Workers : SentUncommitted(v, k)'
    <3>1. CASE k = d
      BY <1>1, <1>2, <1>3, <2>2, <2>3, <3>1 DEF Waiting
    <3>2. CASE k # d
      BY <1>2, <2>4, <3>2 DEF PushInv, AcceptedSound
    <3> QED BY <3>1, <3>2
  <2> QED BY <2>5 DEF AcceptedSound
<1>9. \A v \in Workers \ {w} : worker'[w].batch \cap worker[v].batch = {}
  BY <1>1 DEF PushInv, BatchesExclusive
<1> QED BY <1>1, <1>2, <1>3, <1>5, <1>6, <1>7, <1>8, <1>9, TransactionKeeps

\* message.deliveries is loaded once: a sibling of another batch is remembered as
\* it was then.
LEMMA RefreshKeeps ==
    ASSUME PushInv, TypeOK', NEW w \in Workers, Refresh(w)
    PROVE  PushInv'
<1> DEFINE t == worker[w]
           u == worker'[w]
<1>1. PICK d \in t.now :
         /\ d \in Deliveries
         /\ worker' = [worker EXCEPT ![w] = u]
         /\ u.now = {} /\ u.batch = t.batch /\ u.todo = t.todo /\ u.was = t.was
         /\ u.loaded = t.loaded \cup {d[1]}
         /\ \A k \in Deliveries : u.mem[k] =
               IF k[1] = d[1] /\ d[1] \notin t.loaded /\ k \notin t.batch THEN row[k] ELSE t.mem[k]
         /\ u.sum[d[1]] = Aggregate(StatusesOf(d[1], u.mem))
         /\ \A m \in Messages \ {d[1]} : u.sum[m] = t.sum[m]
  BY Refreshed DEF PushInv
<1> HIDE DEF t, u
<1>2. message' = message /\ row' = row /\ accepted' = accepted /\ lost' = lost /\ crashes' = crashes
  BY DEF Refresh, storeVars, sentVars
<1>3. /\ t.now = {d} /\ d \in t.batch /\ t.batch \subseteq Deliveries
      /\ d[1] \in Messages /\ message[d[1]] # "none"
  <2>1. t.batch \subseteq Deliveries /\ d \in t.batch /\ t.now = {d}
    BY <1>1 DEF PushInv, BatchSound, TypeOK, WorkerState, t
  <2>2. row[d].status \in Waiting
    BY <2>1 DEF PushInv, BatchSound, t
  <2> QED BY <1>1, <2>1, <2>2, DeliveryParts DEF PushInv, RowsSound, Absent, Waiting
<1>4. BatchSoundOf(w)'
  BY <1>1, <1>2 DEF PushInv, BatchSound, BatchSoundOf, t, u
<1>5. MemorySoundOf(w)'
  <2>1. ASSUME NEW k \in u.batch
        PROVE  /\ k \in u.todo => u.mem[k] = row[k]
               /\ k \notin u.todo => \E a \in Outcomes :
                     u.mem[k] = After(row[k], a) /\ (a = "ok" => accepted[k] > 0)
    <3>1. k \in t.batch /\ u.mem[k] = t.mem[k]
      BY <1>1, <1>3, <2>1
    <3> QED BY <1>1, <3>1 DEF PushInv, BatchMemory, t
  <2>2. ASSUME NEW k \in Deliveries \ u.batch, k[1] \in u.loaded, u.mem[k].status \notin Waiting
        PROVE  u.mem[k] = row[k]
    BY <1>1, <2>2 DEF PushInv, SiblingMemory, t
  <2> QED BY <1>2, <2>1, <2>2 DEF MemorySoundOf, u
<1>6. ASSUME NEW m \in Messages PROVE SumSoundOf(w, m)'
  <2>1. SumSoundOf(w, m)
    BY DEF PushInv, SumSound, SumSoundOf
  <2>2. CASE m = d[1]
    BY <1>1, <1>2, <1>3, <2>2 DEF SumSoundOf, u
  <2>3. CASE m # d[1]
    <3>0. \A k \in Deliveries : k[1] = m => u.mem[k].status = t.mem[k].status
      BY <1>1, <2>3
    <3>1. StatusesOf(m, u.mem) = StatusesOf(m, t.mem)
      BY <3>0, SameStatuses, Zenon
    <3>2. /\ m \in u.loaded <=> m \in t.loaded
          /\ u.sum[m] = t.sum[m] /\ u.was[m] = t.was[m] /\ u.now = {}
      BY <1>1, <2>3
    <3>3. ~\E k \in t.now : k[1] = m
      BY <1>3, <2>3
    <3> QED BY <1>2, <2>1, <3>1, <3>2, <3>3 DEF SumSoundOf, t, u
  <2> QED BY <2>2, <2>3
<1>7. AcceptedSound'
  <2>1. \A v \in Workers \ {w} : worker'[v] = worker[v]
    BY <1>1 DEF PushInv, TypeOK
  <2>2. \A k \in t.batch : u.mem[k] = t.mem[k]
    BY <1>1, <1>3
  <2>3. \A v \in Workers, k \in Deliveries : SentUncommitted(v, k) => SentUncommitted(v, k)'
    BY <1>1, <2>1, <2>2 DEF SentUncommitted, t, u
  <2> QED BY <1>2, <2>3 DEF PushInv, AcceptedSound
<1>8. \A v \in Workers \ {w} : u.batch \cap worker[v].batch = {}
  BY <1>1 DEF PushInv, BatchesExclusive, t
<1>9. \A k \in Deliveries : accepted'[k] >= accepted[k]
  BY <1>2 DEF PushInv, TypeOK
<1> QED BY <1>1, <1>2, <1>4, <1>5, <1>6, <1>7, <1>8, <1>9, TransactionKeeps DEF u

\* A worker without a transaction.
LEMMA NoWorkSound ==
    ASSUME NEW w \in Workers, worker'[w] = NoWork
    PROVE  /\ BatchSoundOf(w)' /\ MemorySoundOf(w)' /\ \A m \in Messages : SumSoundOf(w, m)'
           /\ worker'[w].batch = {}
<1>1. /\ worker'[w].batch = {} /\ worker'[w].todo = {} /\ worker'[w].now = {}
      /\ worker'[w].loaded = {}
      /\ \A m \in Messages : worker'[w].was[m] = "none" /\ worker'[w].sum[m] = "none"
  BY DEF NoWork
<1> QED BY <1>1 DEF BatchSoundOf, MemorySoundOf, SumSoundOf

\* A crash forgets the acceptances of one batch, and is counted.
LEMMA CrashKeeps ==
    ASSUME PushInv, TypeOK', NEW w \in Workers, Crash(w)
    PROVE  PushInv'
<1>1. /\ worker'[w] = NoWork /\ \A v \in Workers \ {w} : worker'[v] = worker[v]
      /\ message' = message /\ row' = row /\ accepted' = accepted /\ lost' = lost /\ crashes' = crashes + 1
  BY DEF PushInv, TypeOK, Crash, storeVars, sentVars
<1>2. /\ BatchSoundOf(w)' /\ MemorySoundOf(w)' /\ \A m \in Messages : SumSoundOf(w, m)'
      /\ worker'[w].batch = {}
  BY <1>1, NoWorkSound
<1>3. RowsSound' /\ FinalStatusTrue'
  BY <1>1 DEF PushInv, RowsSound, FinalStatusTrue
<1>4. BatchSound' /\ BatchesExclusive'
  <2>1. BatchSound'
    BY <1>1, <1>2 DEF PushInv, BatchSound, BatchSoundOf
  <2>2. BatchesExclusive'
    BY <1>1, <1>2 DEF PushInv, BatchesExclusive
  <2> QED BY <2>1, <2>2
<1>5. BatchMemory'
  BY <1>1, <1>2 DEF PushInv, BatchMemory
<1>6. SiblingMemory'
  <2>1. ASSUME NEW v \in Workers, v # w, NEW d \in Deliveries \ worker'[v].batch,
               d[1] \in worker'[v].loaded, worker'[v].mem[d].status \notin Waiting
        PROVE  worker'[v].mem[d] = row'[d]
    BY <1>1, <2>1 DEF PushInv, SiblingMemory
  <2> QED BY <1>2, <2>1 DEF SiblingMemory, MemorySoundOf
<1>7. SumSound'
  <2>1. ASSUME NEW v \in Workers, v # w, NEW m \in Messages PROVE SumSoundOf(v, m)'
    BY <1>1, <2>1 DEF PushInv, SumSound, SumSoundOf
  <2> QED BY <1>2, <2>1 DEF SumSound, SumSoundOf
<1>8. AcceptedSound'
  <2>1. \A d \in Deliveries : accepted[d] \in Nat /\ lost[d] \in Nat /\ crashes \in Nat
    BY DEF PushInv, TypeOK
  <2> QED BY <1>1, <2>1 DEF PushInv, AcceptedSound
<1> QED BY <1>3, <1>4, <1>5, <1>6, <1>7, <1>8 DEF PushInv

\* The commit writes the batch, and the messages whose status has changed since
\* they were loaded.
LEMMA CommitKeeps ==
    ASSUME PushInv, TypeOK', NEW w \in Workers, Commit(w)
    PROVE  PushInv'
<1> DEFINE t == worker[w]
<1>1. /\ t.todo = {} /\ t.now = {} /\ worker'[w] = NoWork
      /\ \A v \in Workers \ {w} : worker'[v] = worker[v]
      /\ \A d \in Deliveries : row'[d] = IF d \in t.batch THEN t.mem[d] ELSE row[d]
      /\ \A m \in Messages : message'[m] = IF t.sum[m] # t.was[m] THEN t.sum[m] ELSE message[m]
      /\ accepted' = accepted /\ lost' = lost /\ crashes' = crashes
  BY DEF PushInv, TypeOK, Commit, sentVars
<1>2. t.batch \subseteq Deliveries /\ \A d \in t.batch : row[d].status \in Waiting
  BY DEF PushInv, TypeOK, WorkerState, BatchSound
<1>3. \A m \in Messages : SumSoundOf(w, m)
  BY DEF PushInv, SumSound, SumSoundOf
<1>4. ASSUME NEW d \in t.batch
      PROVE  /\ t.mem[d].status \in Terminal \cup {"retry"}
             /\ t.mem[d].status = "retry" => t.mem[d].attempts < MaxAttempts
  <2>1. PICK o \in Outcomes : t.mem[d] = After(row[d], o)
    BY <1>1, <1>4 DEF PushInv, BatchMemory
  <2>2. row[d] \in Row /\ row[d].attempts < MaxAttempts
    BY <1>2, <1>4 DEF PushInv, TypeOK, RowsSound
  <2> QED BY <2>1, <2>2, AfterRow
<1>5. \A v \in Workers \ {w} : \A d \in worker[v].batch : d \notin t.batch
  BY DEF PushInv, BatchesExclusive
<1>6. \A v \in Workers : worker[v].batch \subseteq Deliveries
  BY DEF PushInv, TypeOK, WorkerState
<1>7. \A m \in Messages : message[m] # "none" => message'[m] # "none"
  <2> TAKE m \in Messages
  <2>1. t.sum[m] # t.was[m] => t.sum[m] # "none"
    BY <1>1, <1>3, AggregateFinal DEF SumSoundOf
  <2> QED BY <1>1, <2>1
<1>8. RowsSound'
  <2>1. ASSUME NEW d \in Deliveries
        PROVE  /\ message'[d[1]] = "none" => row'[d] = Absent
               /\ row'[d].status \in Waiting => row'[d].attempts < MaxAttempts
    <3>1. CASE d \in t.batch
      <4>1. message[d[1]] # "none"
        BY <1>2, <3>1 DEF PushInv, RowsSound, Absent, Waiting
      <4>2. message'[d[1]] # "none"
        BY <1>7, <4>1, DeliveryParts
      <4> QED BY <1>1, <1>4, <3>1, <4>2 DEF Waiting, Terminal, Unsuccessful
    <3>2. CASE d \notin t.batch
      BY <1>1, <1>7, <3>2, DeliveryParts DEF PushInv, RowsSound
    <3> QED BY <3>1, <3>2
  <2> QED BY <2>1 DEF RowsSound
<1>9. /\ BatchSoundOf(w)' /\ MemorySoundOf(w)' /\ \A m \in Messages : SumSoundOf(w, m)'
      /\ worker'[w].batch = {}
  BY <1>1, NoWorkSound
<1>10. ASSUME NEW v \in Workers, v # w, NEW d \in worker[v].batch
       PROVE  d \in Deliveries /\ row'[d] = row[d]
  BY <1>1, <1>5, <1>6, <1>10
<1>11. BatchSound' /\ BatchesExclusive'
  <2>1. BatchSound'
    BY <1>1, <1>9, <1>10 DEF PushInv, BatchSound, BatchSoundOf
  <2>2. BatchesExclusive'
    BY <1>1, <1>9 DEF PushInv, BatchesExclusive
  <2> QED BY <2>1, <2>2
<1>12. BatchMemory'
  <2>1. ASSUME NEW v \in Workers, v # w, NEW d \in worker'[v].batch
        PROVE  /\ d \in worker'[v].todo => worker'[v].mem[d] = row'[d]
               /\ d \notin worker'[v].todo => \E o \in Outcomes :
                     worker'[v].mem[d] = After(row'[d], o) /\ (o = "ok" => accepted'[d] > 0)
    <3>1. worker'[v] = worker[v] /\ d \in worker[v].batch
      BY <1>1, <2>1
    <3>2. row'[d] = row[d]
      BY <1>10, <2>1, <3>1
    <3> QED BY <1>1, <3>1, <3>2 DEF PushInv, BatchMemory
  <2> QED BY <1>9, <2>1 DEF BatchMemory
<1>13. SiblingMemory'
  <2>1. ASSUME NEW v \in Workers, v # w, NEW d \in Deliveries \ worker'[v].batch,
               d[1] \in worker'[v].loaded, worker'[v].mem[d].status \notin Waiting
        PROVE  worker'[v].mem[d] = row'[d]
    <3>1. worker'[v].mem[d] = row[d]
      BY <1>1, <2>1 DEF PushInv, SiblingMemory
    <3>2. d \notin t.batch
      BY <1>2, <2>1, <3>1
    <3> QED BY <1>1, <3>1, <3>2
  <2> QED BY <1>9, <2>1 DEF SiblingMemory, MemorySoundOf
<1>14. SumSound'
  <2>1. ASSUME NEW v \in Workers, v # w, NEW m \in Messages PROVE SumSoundOf(v, m)'
    <3>1. SumSoundOf(v, m) /\ worker'[v] = worker[v]
      BY <1>1, <2>1 DEF PushInv, SumSound, SumSoundOf
    <3> QED BY <1>7, <3>1 DEF SumSoundOf
  <2> QED BY <1>9, <2>1 DEF SumSound, SumSoundOf
<1>15. AcceptedSound'
  <2>1. ASSUME NEW d \in Deliveries
        PROVE  /\ accepted'[d] <= 1 + crashes' + lost'[d]
               /\ row'[d].status = "absent" => accepted'[d] = 0
               /\ row'[d].status \in Waiting /\ accepted'[d] > crashes' + lost'[d] =>
                      \E v \in Workers : SentUncommitted(v, d)'
    <3>0. accepted[d] <= 1 + crashes + lost[d] /\ accepted[d] \in Nat /\ lost[d] \in Nat /\ crashes \in Nat
      BY DEF PushInv, AcceptedSound, TypeOK
    <3>1. CASE d \in t.batch
      <4>1. ASSUME t.mem[d].status # "delivered" PROVE accepted[d] <= crashes + lost[d]
        <5>1. \A v \in Workers : ~SentUncommitted(v, d)
          BY <1>5, <3>1, <4>1 DEF SentUncommitted
        <5> QED BY <1>2, <3>0, <3>1, <5>1 DEF PushInv, AcceptedSound
      <4> QED BY <1>1, <1>4, <3>0, <3>1, <4>1 DEF Waiting, Terminal, Unsuccessful
    <3>2. CASE d \notin t.batch
      <4>1. \A v \in Workers : SentUncommitted(v, d) => SentUncommitted(v, d)'
        BY <1>1, <3>2 DEF SentUncommitted
      <4> QED BY <1>1, <3>2, <4>1 DEF PushInv, AcceptedSound
    <3> QED BY <3>1, <3>2
  <2> QED BY <2>1 DEF AcceptedSound
<1>16. FinalStatusTrue'
  <2>1. ASSUME NEW m \in Messages, message'[m] \in Final
        PROVE  message'[m] = Aggregate(StatusesOf(m, row'))
    <3>1. CASE t.sum[m] # t.was[m]
      <4>1. message'[m] = Aggregate(StatusesOf(m, t.mem)) /\ m \in t.loaded
        BY <1>1, <1>3, <3>1 DEF SumSoundOf
      <4>2. StatusesOf(m, t.mem) \cap Waiting = {}
        BY <2>1, <4>1, AggregateFinal
      <4>3. \A d \in Deliveries : d[1] = m => t.mem[d].status \notin Waiting
        <5> SUFFICES ASSUME NEW d \in Deliveries, d[1] = m, t.mem[d].status \in Waiting PROVE FALSE
          OBVIOUS
        <5>1. d = <<m, d[2]>> /\ d[2] \in Endpoints
          BY DeliveryParts
        <5>2. t.mem[d].status \in StatusesOf(m, t.mem)
          BY <5>1 DEF StatusesOf, Waiting
        <5> QED BY <4>2, <5>2
      <4>4. \A d \in Deliveries : d[1] = m => row'[d].status = t.mem[d].status
        BY <1>1, <4>1, <4>3 DEF PushInv, SiblingMemory
      <4>5. StatusesOf(m, row') = StatusesOf(m, t.mem)
        BY <4>4, SameStatuses, Zenon
      <4> QED BY <4>1, <4>5
    <3>2. CASE t.sum[m] = t.was[m]
      <4>1. message'[m] = message[m] /\ message[m] = Aggregate(StatusesOf(m, row))
        BY <1>1, <2>1, <3>2 DEF PushInv, FinalStatusTrue, Final
      <4>2. StatusesOf(m, row) \cap Waiting = {}
        BY <2>1, <4>1, AggregateFinal
      <4>3. \A d \in Deliveries : d[1] = m => row[d].status \notin Waiting
        <5> SUFFICES ASSUME NEW d \in Deliveries, d[1] = m, row[d].status \in Waiting PROVE FALSE
          OBVIOUS
        <5>1. d = <<m, d[2]>> /\ d[2] \in Endpoints
          BY DeliveryParts
        <5>2. row[d].status \in StatusesOf(m, row)
          BY <5>1 DEF StatusesOf, Waiting
        <5> QED BY <4>2, <5>2
      <4>4. \A d \in Deliveries : d[1] = m => row'[d].status = row[d].status
        BY <1>1, <1>2, <4>3
      <4>5. StatusesOf(m, row') = StatusesOf(m, row)
        BY <4>4, SameStatuses, Zenon
      <4> QED BY <4>1, <4>5
    <3> QED BY <3>1, <3>2
  <2> QED BY <2>1 DEF FinalStatusTrue, Final
<1> QED BY <1>8, <1>11, <1>12, <1>13, <1>14, <1>15, <1>16 DEF PushInv

-----------------------------------------------------------------------------
(* The theorems.                                                           *)

LEMMA InitInv == Init => PushInv
<1> SUFFICES ASSUME Init PROVE PushInv
  OBVIOUS
<1>1. /\ NoWork.batch = {} /\ NoWork.todo = {} /\ NoWork.now = {} /\ NoWork.loaded = {}
      /\ \A m \in Messages : NoWork.was[m] = "none" /\ NoWork.sum[m] = "none"
  BY DEF NoWork
<1>2. TypeOK
  BY TypedRows, DeliveryAssumption DEF Init, TypeOK, MessageStatuses
<1>3. RowsSound
  BY DEF Init, RowsSound, Absent, Waiting
<1>4. BatchSound /\ BatchesExclusive /\ BatchMemory /\ SiblingMemory
  BY <1>1 DEF Init, BatchSound, BatchesExclusive, BatchMemory, SiblingMemory
<1>5. SumSound
  BY <1>1 DEF Init, SumSound
<1>6. AcceptedSound
  BY DEF Init, AcceptedSound, Absent, Waiting
<1>7. FinalStatusTrue
  BY DEF Init, FinalStatusTrue
<1> QED BY <1>2, <1>3, <1>4, <1>5, <1>6, <1>7 DEF PushInv

LEMMA StepInv == PushInv /\ [Next]_vars => PushInv'
<1> SUFFICES ASSUME PushInv, [Next]_vars PROVE PushInv'
  OBVIOUS
<1>1. TypeOK'
  BY TypeStep
<1>2. ASSUME NEW m \in Messages, QueueRead(m) \/ Expire(m) PROVE PushInv'
  BY <1>1, <1>2, OutsideKeeps DEF QueueRead, Expire, storeVars, sentVars
<1>3. ASSUME NEW m \in Messages, QueueCommit(m) PROVE PushInv'
  BY <1>1, <1>3, QueueCommitKeeps
<1>4. ASSUME NEW e \in Endpoints, Register(e) \/ SwitchOff(e) \/ NewToken(e) PROVE PushInv'
  BY <1>1, <1>4, OutsideKeeps DEF Register, SwitchOff, NewToken, storeVars, sentVars
<1>5. ASSUME NEW d \in Deliveries, Elapse(d) PROVE PushInv'
  BY <1>1, <1>5, OutsideKeeps DEF Elapse, sentVars
<1>6. ASSUME NEW w \in Workers, WorkerStep(w) PROVE PushInv'
  BY <1>1, <1>6, SelectKeeps, AttemptKeeps, RefreshKeeps, CommitKeeps DEF WorkerStep
<1>7. ASSUME NEW w \in Workers, Crash(w) PROVE PushInv'
  BY <1>1, <1>7, CrashKeeps
<1>8. CASE UNCHANGED vars
  BY <1>1, <1>8, OutsideKeeps DEF vars
<1> QED BY <1>2, <1>3, <1>4, <1>5, <1>6, <1>7, <1>8 DEF Next

\* The inductive invariant of run_once and the API holds throughout; it contains
\* type correctness.
THEOREM Invariance == Spec => []PushInv
BY InitInv, StepInv, PTL DEF Spec

\* A final messages.status is the one its deliveries have, whatever siblings other
\* workers hold, and however stale the copies are that refresh_message_status saw.
THEOREM FinalStatusIsTrue == Spec => []FinalStatusTrue
<1>1. PushInv => FinalStatusTrue
  BY DEF PushInv
<1> QED BY <1>1, Invariance, PTL

\* A delivery is handed to the provider at most once more than workers crashed and
\* answers about it were lost, for any batch size and number of workers.
THEOREM SentOnce == Spec => []SentOncePerLoss
<1>1. PushInv => SentOncePerLoss
  BY DEF PushInv, AcceptedSound, SentOncePerLoss
<1> QED BY <1>1, Invariance, PTL

-----------------------------------------------------------------------------
(* Push is a delivery queue.                                               *)

LEMMA JobStates ==
    /\ \A s \in Waiting : JobState(s) = "open"
    /\ \A s \in Unsuccessful : JobState(s) = "unsuccessful"
    /\ JobState("absent") = "absent" /\ JobState("delivered") = "delivered"
BY DEF JobState, Waiting, Unsuccessful

LEMMA QueueInit == Init => Queue!Init
BY JobStates DEF Init, Queue!Init, Absent

LEMMA QueueStep == PushInv /\ [Next]_vars => [Queue!Next]_(Queue!vars)
<1> SUFFICES ASSUME PushInv, [Next]_vars PROVE [Queue!Next]_(Queue!vars)
  OBVIOUS
<1>1. ASSUME NEW m \in Messages, QueueCommit(m) PROVE Queue!Next
  <2> DEFINE S == {m} \X queueing[m]
  <2>0. queueing[m] \subseteq Endpoints
    BY <1>1 DEF QueueCommit, PushInv, TypeOK
  <2>1. /\ S \subseteq Deliveries
        /\ \A d \in Deliveries : d \in S <=> d[1] = m /\ d[2] \in queueing[m]
    BY <2>0, DeliveryParts DEF Deliveries
  <2>2. \A d \in S : row[d].status = "absent"
    BY <1>1, <2>1 DEF QueueCommit, PushInv, RowsSound, Absent
  <2>3. \A d \in Deliveries : row'[d].status = IF d \in S THEN "queued" ELSE row[d].status
    BY <1>1, <2>1 DEF QueueCommit, Queued
  <2>4. Queue!Enqueue(S)
    BY <1>1, <2>1, <2>2, <2>3, JobStates DEF Queue!Enqueue, Waiting, QueueCommit, sentVars
  <2> QED BY <2>1, <2>4 DEF Queue!Next
<1>2. ASSUME NEW w \in Workers, NEW d \in worker[w].todo, NEW o \in Outcomes, Attempt(w, d, o)
      PROVE  [Queue!Next]_(Queue!vars)
  <2>1. d \in Deliveries /\ row[d].status \in Waiting
    BY <1>2, AttemptDone DEF PushInv
  <2>2. row' = row /\ \A k \in Deliveries :
             accepted'[k] = IF o \in {"ok", "lost"} /\ k = d THEN accepted[k] + 1 ELSE accepted[k]
    BY <1>2, <2>1 DEF Attempt, storeVars, sentVars, PushInv, TypeOK
  <2>3. \A k \in Deliveries : accepted[k] \in Nat
    BY DEF PushInv, TypeOK
  <2>4. CASE o \in {"ok", "lost"}
    <3>1. \A k \in Deliveries : accepted'[k] > 0 <=> (k = d \/ accepted[k] > 0)
      BY <2>2, <2>3, <2>4
    <3>2. Queue!HandOver(d)
      BY <2>1, <2>2, <3>1, JobStates DEF Queue!HandOver
    <3> QED BY <2>1, <3>2 DEF Queue!Next
  <2>5. CASE o \notin {"ok", "lost"}
    BY <2>2, <2>5 DEF Queue!vars
  <2> QED BY <2>4, <2>5
<1>3. ASSUME NEW w \in Workers, Commit(w) PROVE Queue!Next
  <2> DEFINE t == worker[w]
             ok == {d \in t.batch : t.mem[d].status = "delivered"}
             bad == {d \in t.batch : t.mem[d].status \in Unsuccessful}
  <2>1. t.batch \subseteq Deliveries /\ \A d \in t.batch : row[d].status \in Waiting
    BY DEF PushInv, BatchSound, TypeOK, WorkerState
  <2>2. /\ accepted' = accepted
        /\ \A d \in Deliveries : row'[d] = IF d \in t.batch THEN t.mem[d] ELSE row[d]
    BY <1>3 DEF Commit, sentVars
  <2>3. ASSUME NEW d \in t.batch
        PROVE  /\ t.mem[d].status \in Terminal \cup {"retry"}
               /\ t.mem[d].status = "delivered" => accepted[d] > 0
    <3>1. PICK o \in Outcomes : t.mem[d] = After(row[d], o) /\ (o = "ok" => accepted[d] > 0)
      BY <1>3, <2>3 DEF PushInv, BatchMemory, Commit
    <3>2. row[d] \in Row /\ row[d].attempts < MaxAttempts
      BY <2>1, <2>3 DEF PushInv, TypeOK, RowsSound
    <3> QED BY <3>1, <3>2, AfterRow
  <2>4. \A d \in Deliveries : JobState(row'[d].status) =
            IF d \in ok THEN "delivered" ELSE IF d \in bad THEN "unsuccessful"
            ELSE JobState(row[d].status)
    BY <2>1, <2>2, <2>3, JobStates DEF Terminal, Waiting
  <2>5. Queue!Settle(ok, bad)
    <3>1. \A d \in ok \cup bad : d \in Deliveries /\ JobState(row[d].status) = "open"
      BY <2>1, JobStates
    <3>2. ok \subseteq {d \in Deliveries : accepted[d] > 0} /\ ok \cap bad = {}
      BY <2>1, <2>3 DEF Unsuccessful
    <3> QED BY <2>2, <2>4, <3>1, <3>2 DEF Queue!Settle
  <2>6. ok \in SUBSET Deliveries /\ bad \in SUBSET Deliveries
    BY <2>1
  <2> QED BY <2>5, <2>6 DEF Queue!Next
<1>4. ASSUME row' = row, accepted' = accepted PROVE UNCHANGED Queue!vars
  BY <1>4 DEF Queue!vars
<1>5. ASSUME NEW m \in Messages, QueueRead(m) \/ Expire(m) PROVE row' = row /\ accepted' = accepted
  BY <1>5 DEF QueueRead, Expire, storeVars, sentVars
<1>6. ASSUME NEW e \in Endpoints, Register(e) \/ SwitchOff(e) \/ NewToken(e)
      PROVE  row' = row /\ accepted' = accepted
  BY <1>6 DEF Register, SwitchOff, NewToken, storeVars, sentVars
<1>7. ASSUME NEW w \in Workers, Select(w) \/ Refresh(w) \/ Crash(w)
      PROVE  row' = row /\ accepted' = accepted
  BY <1>7 DEF Select, Refresh, Crash, storeVars, sentVars
<1>8. ASSUME (\E d \in Deliveries : Elapse(d)) \/ UNCHANGED vars
      PROVE  row' = row /\ accepted' = accepted
  BY <1>8 DEF Elapse, sentVars, vars
<1> QED BY <1>1, <1>2, <1>3, <1>4, <1>5, <1>6, <1>7, <1>8 DEF Next, WorkerStep

\* Push implements a delivery queue: a delivery ends once, and as delivered only
\* if the provider accepted it, although a batch commits as a whole and a crash
\* repeats all of it.
THEOREM PushIsQueue == Spec => ImplementsQueue
<1>1. PushInv /\ [Next]_vars => [Queue!Next]_(Queue!vars)
  BY QueueStep
<1> QED BY <1>1, QueueInit, Invariance, PTL DEF Spec, ImplementsQueue, Queue!Spec
=============================================================================
