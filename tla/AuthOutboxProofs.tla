-------------------------- MODULE AuthOutboxProofs --------------------------
(***************************************************************************)
(* Proofs about AuthOutbox for any number of accounts, applications,       *)
(* sessions, workers and transactions.                                     *)
(***************************************************************************)
EXTENDS AuthOutbox, TLAPS

\* A busy worker holds a row that exists.
WorkerHoldsRow ==
    \A w \in Workers : worker[w].step # "idle" => worker[w].event \in outbox

\* A worker that is about to settle a success holds an event Push committed.
AcceptedWasApplied ==
    \A w \in Workers : worker[w].step \in {"accepted", "settle_success"}
                          => worker[w].event \in applied

\* Created_at never runs ahead of the transactions committed so far.
RowsAreOld == \A r \in outbox : r.at <= tx

\* The inductive invariant behind delivery, and behind the status rows.
DeliveryInv == TypeOK /\ WorkerHoldsRow /\ AcceptedWasApplied /\ DeliveredWasApplied

StatusInv == TypeOK /\ RowsAreOld /\ OutboxTellsStatus

-----------------------------------------------------------------------------
LEMMA RowsAreEvents ==
    ASSUME TypeOK, tx < MaxTx, NEW t, NEW S,
           \/ t \in AccountKinds /\ S \subseteq Users
           \/ t \in AppKinds /\ S \subseteq Apps
           \/ t \in RevocationKinds /\ S \subseteq Sessions
    PROVE  Rows(t, S) \subseteq Event
<1>1. tx + 1 \in 1..MaxTx
    BY AuthAssumption DEF TypeOK
<1> QED
    BY <1>1 DEF Rows, Event

\* Publishing rows of the right kind keeps the types of the tables it writes.
LEMMA PublishTyped ==
    ASSUME TypeOK, NEW rows, rows \subseteq Event, Publish(rows)
    PROVE  /\ tx' \in 0..MaxTx
           /\ outbox' \in SUBSET Event
           /\ due' \in SUBSET outbox'
           /\ delivered' \in SUBSET outbox'
           /\ worker' \in [Workers -> WorkerState]
           /\ inflight' \in SUBSET outbox'
           /\ applied' \in SUBSET outbox'
BY AuthAssumption DEF TypeOK, Publish

\* The rows of a status change: one about x, one per session it revokes.
StatusRows(t, x, T) == Rows(t, {x}) \cup Rows("session.revoked", T)

\* A status change publishes one row about its subject and one per session it
\* revokes, all written by the next transaction.
LEMMA PublishStatusShape ==
    ASSUME TypeOK, NEW on, NEW off, NEW x, NEW b \in BOOLEAN,
           PublishStatus(on, off, x, b),
           NEW t, t = IF b THEN on ELSE off,
           \/ t \in AccountKinds /\ x \in Users
           \/ t \in AppKinds /\ x \in Apps
    PROVE  \E T \in SUBSET Sessions :
              /\ StatusRows(t, x, T) \subseteq Event
              /\ Publish(StatusRows(t, x, T))
              /\ revoked' = revoked \cup T
<1> DEFINE T == IF b THEN {} ELSE LiveSessionsOf(x)
<1>1. T \in SUBSET Sessions
    BY DEF LiveSessionsOf
<1>2. tx < MaxTx
    BY DEF PublishStatus, Publish
<1>3. Rows(t, {x}) \subseteq Event
    BY <1>2, RowsAreEvents
<1>4. Rows("session.revoked", T) \subseteq Event
    BY <1>1, <1>2, RowsAreEvents DEF RevocationKinds
<1>5. Publish(StatusRows(t, x, T)) /\ revoked' = revoked \cup T
    <2>1. CASE b
        <3>1. StatusRows(t, x, T) = Rows(on, {x})
            BY <2>1 DEF Rows, StatusRows
        <3> QED BY <2>1, <3>1 DEF PublishStatus
    <2>2. CASE ~b
        BY <2>2 DEF PublishStatus, StatusRows
    <2> QED BY <2>1, <2>2
<1> QED
    BY <1>1, <1>3, <1>4, <1>5 DEF StatusRows

-----------------------------------------------------------------------------
\* Every Auth transaction publishes rows of events and touches no worker.
LEMMA AuthStepTyped ==
    ASSUME TypeOK, AuthStep
    PROVE  TypeOK' /\ \E rows \in SUBSET Event : Publish(rows)
<1>1. ASSUME NEW u \in Users, NEW b \in BOOLEAN, SetUserActive(u, b)
      PROVE  TypeOK' /\ \E rows \in SUBSET Event : Publish(rows)
    <2> DEFINE t == IF b THEN "account.enabled" ELSE "account.disabled"
    <2>0. t \in AccountKinds /\ PublishStatus("account.enabled", "account.disabled", u, b)
        BY <1>1 DEF SetUserActive, AccountKinds
    <2> HIDE DEF t
    <2>1. PICK T \in SUBSET Sessions : /\ StatusRows(t, u, T) \subseteq Event
                                       /\ Publish(StatusRows(t, u, T))
                                       /\ revoked' = revoked \cup T
        BY <2>0, PublishStatusShape DEF t
    <2> QED
        BY <1>1, <2>1, PublishTyped DEF SetUserActive, TypeOK
<1>2. ASSUME NEW a \in Apps, NEW b \in BOOLEAN, SetAppActive(a, b)
      PROVE  TypeOK' /\ \E rows \in SUBSET Event : Publish(rows)
    <2> DEFINE t == IF b THEN "application.enabled" ELSE "application.disabled"
    <2>0. t \in AppKinds /\ PublishStatus("application.enabled", "application.disabled", a, b)
        BY <1>2 DEF SetAppActive, AppKinds
    <2> HIDE DEF t
    <2>1. PICK T \in SUBSET Sessions : /\ StatusRows(t, a, T) \subseteq Event
                                       /\ Publish(StatusRows(t, a, T))
                                       /\ revoked' = revoked \cup T
        BY <2>0, PublishStatusShape DEF t
    <2> QED
        BY <1>2, <2>1, PublishTyped DEF SetAppActive, TypeOK
<1>3. ASSUME NEW S \in SUBSET Sessions, RevokeSessions(S)
      PROVE  TypeOK' /\ \E rows \in SUBSET Event : Publish(rows)
    <2>1. Rows("session.revoked", S) \subseteq Event
        BY <1>3, RowsAreEvents DEF RevokeSessions, Publish, RevocationKinds
    <2> QED
        BY <1>3, <2>1, PublishTyped DEF RevokeSessions, TypeOK
<1> QED
    BY <1>1, <1>2, <1>3 DEF AuthStep

LEMMA DeliveryInvStep == DeliveryInv /\ [Next]_vars => DeliveryInv'
<1> SUFFICES ASSUME DeliveryInv, [Next]_vars PROVE DeliveryInv'
    OBVIOUS
<1> USE DEF DeliveryInv, WorkerHoldsRow, AcceptedWasApplied, DeliveredWasApplied
<1>1. CASE AuthStep
    <2>1. PICK rows \in SUBSET Event : Publish(rows)
        BY <1>1, AuthStepTyped
    <2> QED
        BY <1>1, <2>1, AuthStepTyped DEF Publish
<1>2. ASSUME NEW w \in Workers, WorkerStep(w) PROVE DeliveryInv'
    <2> USE DEF TypeOK, WorkerState, Idle, Steps, Goto, authVars, outboxVars
    <2>1. CASE ClaimNext(w) BY <2>1 DEF ClaimNext
    <2>2. CASE Post(w) BY <2>2 DEF Post
    <2>3. CASE PostAccepted(w) BY <2>3 DEF PostAccepted
    <2>4. CASE PostRefused(w) BY <2>4 DEF PostRefused
    <2>5. CASE SettleRead(w) BY <2>5 DEF SettleRead
    <2>6. CASE SettleSuccess(w) BY <2>6 DEF SettleSuccess
    <2>7. CASE SettleFailure(w) BY <2>7 DEF SettleFailure
    <2>8. CASE Crash(w) BY <2>8 DEF Crash
    <2> QED
        BY <1>2, <2>1, <2>2, <2>3, <2>4, <2>5, <2>6, <2>7, <2>8 DEF WorkerStep
<1>3. ASSUME NEW r \in outbox, Elapse(r) PROVE DeliveryInv'
    BY <1>3 DEF Elapse, TypeOK, authVars
<1>4. ASSUME NEW r \in inflight, PushApplies(r) \/ PushLoses(r) PROVE DeliveryInv'
    BY <1>4 DEF PushApplies, PushLoses, TypeOK, authVars, outboxVars
<1>5. CASE UNCHANGED vars
    BY <1>5 DEF vars, TypeOK
<1> QED
    BY <1>1, <1>2, <1>3, <1>4, <1>5 DEF Next

LEMMA DeliveryInvInit == Init => DeliveryInv
BY AuthAssumption DEF Init, DeliveryInv, TypeOK, WorkerHoldsRow, AcceptedWasApplied,
   DeliveredWasApplied, WorkerState, Idle, Steps

\* Every reachable state is well typed: the tables hold rows of events only,
\* and what is in flight or applied was written to the outbox first.
THEOREM TypeCorrect == Spec => []TypeOK
<1>1. DeliveryInv => TypeOK
    BY DEF DeliveryInv
<1> QED
    BY <1>1, DeliveryInvInit, DeliveryInvStep, PTL DEF Spec

\* No row is marked delivered before Push has committed its event.
THEOREM DeliverySound == Spec => []DeliveredWasApplied
<1>1. DeliveryInv => DeliveredWasApplied
    BY DEF DeliveryInv
<1> QED
    BY <1>1, DeliveryInvInit, DeliveryInvStep, PTL DEF Spec

\* A delivered row is never reopened and never claimed again.
THEOREM DeliveryFinal == Spec => DeliveredIsFinal
<1> DEFINE Final == /\ delivered \subseteq delivered'
                    /\ \A w \in Workers :
                         (worker'[w].step = "claimed" /\ worker[w].step = "idle")
                             => worker'[w].event \notin delivered
<1>1. DeliveryInv /\ [Next]_vars => [Final]_vars
    <2> SUFFICES ASSUME DeliveryInv, Next PROVE Final
        BY DEF DeliveryInv
    <2> USE DEF DeliveryInv, TypeOK
    <2>1. CASE AuthStep
        <3>1. PICK rows \in SUBSET Event : Publish(rows)
            BY <2>1, AuthStepTyped
        <3> QED BY <3>1 DEF Publish
    <2>2. ASSUME NEW w \in Workers, WorkerStep(w) PROVE Final
        BY <2>2 DEF WorkerStep, ClaimNext, Post, PostAccepted, PostRefused, SettleRead,
           SettleSuccess, SettleFailure, Crash, Goto, WorkerState, Idle, Steps, outboxVars
    <2>3. ASSUME NEW r \in outbox, Elapse(r) PROVE Final
        BY <2>3 DEF Elapse
    <2>4. ASSUME NEW r \in inflight, PushApplies(r) \/ PushLoses(r) PROVE Final
        BY <2>4 DEF PushApplies, PushLoses, outboxVars
    <2> QED
        BY <2>1, <2>2, <2>3, <2>4 DEF Next
<1> QED
    BY <1>1, DeliveryInvInit, DeliveryInvStep, PTL DEF Spec, DeliveredIsFinal

-----------------------------------------------------------------------------
\* Rows published by the next transaction, seen by a reader of one subject:
\* a new row about x is the newest one about x.
LEMMA NewestRowDecides ==
    ASSUME TypeOK, RowsAreOld, tx < MaxTx, NEW t, NEW x, NEW kinds, NEW rows,
           outbox' = outbox \cup rows,
           {r \in rows : r.type \in kinds /\ r.subject = x}
               = {[type |-> t, subject |-> x, at |-> tx + 1]},
           NEW on
    PROVE  SaysOn(About(kinds, x)', on) <=> t = on
<1> DEFINE new == [type |-> t, subject |-> x, at |-> tx + 1]
           S == About(kinds, x)'
<1>1. S = About(kinds, x) \cup {new}
    BY DEF About
<1>2. \A r \in S : r.at <= new.at /\ (r.at = new.at => r = new)
    BY <1>1, AuthAssumption DEF RowsAreOld, About, TypeOK, Event
<1>3. new \in S /\ new.type = t /\ \A q \in S : q.at <= new.at
    BY <1>1, <1>2
<1>4. ASSUME NEW r \in S, \A q \in S : q.at <= r.at PROVE r = new
    <2>1. new.at <= r.at /\ r.at <= new.at /\ r.at \in Nat /\ new.at \in Nat
        BY <1>1, <1>2, <1>3, <1>4, AuthAssumption DEF About, TypeOK, Event
    <2> QED BY <1>2, <2>1
<1> HIDE DEF S, new
<1> QED
    BY <1>3, <1>4 DEF SaysOn, S

\* A subject no new row is about keeps what the outbox says of it.
LEMMA OtherRowsKeep ==
    ASSUME NEW x, NEW kinds, NEW rows, outbox' = outbox \cup rows,
           {r \in rows : r.type \in kinds /\ r.subject = x} = {}
    PROVE  About(kinds, x)' = About(kinds, x)
BY DEF About

\* The revocation rows: a session has one exactly when it is revoked.
LEMMA RevocationRows ==
    ASSUME \A s \in Sessions : s \in revoked <=> About(RevocationKinds, s) # {},
           NEW rows, outbox' = outbox \cup rows,
           NEW T \in SUBSET Sessions, revoked' = revoked \cup T,
           \A s \in Sessions : {r \in rows : r.type \in RevocationKinds /\ r.subject = s} # {}
                                   <=> s \in T
    PROVE  \A s \in Sessions : s \in revoked' <=> About(RevocationKinds, s)' # {}
<1> TAKE s \in Sessions
<1>1. About(RevocationKinds, s)' =
          About(RevocationKinds, s) \cup {r \in rows : r.type \in RevocationKinds /\ r.subject = s}
    BY DEF About
<1> QED
    BY <1>1

\* Rows about sessions are revocations of exactly those sessions.
LEMMA SessionRows ==
    ASSUME NEW T \in SUBSET Sessions, NEW s \in Sessions
    PROVE  {r \in Rows("session.revoked", T) : r.type \in RevocationKinds /\ r.subject = s} # {}
              <=> s \in T
<1>1. ASSUME s \in T
      PROVE  [type |-> "session.revoked", subject |-> s, at |-> tx + 1]
                \in {r \in Rows("session.revoked", T) :
                        r.type \in RevocationKinds /\ r.subject = s}
    BY <1>1 DEF Rows, RevocationKinds
<1> QED
    BY <1>1 DEF Rows, RevocationKinds

LEMMA StatusInvStep == StatusInv /\ DeliveryInv' /\ [Next]_vars => StatusInv'
<1> SUFFICES ASSUME StatusInv, TypeOK', [Next]_vars PROVE StatusInv'
    BY DEF DeliveryInv
<1> USE DEF StatusInv
<1>old. ASSUME NEW rows, Publish(rows), \A r \in rows : r.at = tx + 1
        PROVE  RowsAreOld' /\ outbox' = outbox \cup rows /\ tx < MaxTx
    BY <1>old, AuthAssumption DEF Publish, RowsAreOld, TypeOK, Event
<1>1. ASSUME NEW u \in Users, NEW b \in BOOLEAN, SetUserActive(u, b) PROVE StatusInv'
    <2> DEFINE t == IF b THEN "account.enabled" ELSE "account.disabled"
    <2>0. t \in AccountKinds /\ PublishStatus("account.enabled", "account.disabled", u, b)
        BY <1>1 DEF SetUserActive, AccountKinds
    <2> HIDE DEF t
    <2>1. PICK T \in SUBSET Sessions : /\ Publish(StatusRows(t, u, T))
                                       /\ revoked' = revoked \cup T
        BY <2>0, PublishStatusShape DEF t
    <2> DEFINE rows == StatusRows(t, u, T)
    <2>2. RowsAreOld' /\ outbox' = outbox \cup rows /\ tx < MaxTx
        BY <1>old, <2>1 DEF StatusRows, Rows
    <2>3. {r \in rows : r.type \in AccountKinds /\ r.subject = u}
             = {[type |-> t, subject |-> u, at |-> tx + 1]}
        BY <2>0 DEF StatusRows, Rows, AccountKinds
    <2>4. SaysOn(About(AccountKinds, u)', "account.enabled") <=> t = "account.enabled"
        BY <2>2, <2>3, NewestRowDecides
    <2>5. \A v \in Users : userActive'[v] <=> SaysOn(About(AccountKinds, v)', "account.enabled")
        <3> TAKE v \in Users
        <3>1. CASE v = u
            <4>1. userActive'[u] = b
                BY <1>1 DEF SetUserActive, TypeOK
            <4>2. b <=> t = "account.enabled"
                BY DEF t
            <4> QED BY <3>1, <2>4, <4>1, <4>2
        <3>2. CASE v # u
            <4>1. {r \in rows : r.type \in AccountKinds /\ r.subject = v} = {}
                BY <3>2 DEF StatusRows, Rows, AccountKinds
            <4>2. About(AccountKinds, v)' = About(AccountKinds, v)
                BY <2>2, <4>1, OtherRowsKeep
            <4>3. userActive'[v] = userActive[v]
                BY <1>1, <3>2 DEF SetUserActive, TypeOK
            <4> QED BY <4>2, <4>3 DEF OutboxTellsStatus
        <3> QED BY <3>1, <3>2
    <2>6. \A a \in Apps : appActive'[a] <=> SaysOn(About(AppKinds, a)', "application.enabled")
        <3> TAKE a \in Apps
        <3>1. {r \in rows : r.type \in AppKinds /\ r.subject = a} = {}
            BY <2>0 DEF StatusRows, Rows, AccountKinds, AppKinds
        <3>2. About(AppKinds, a)' = About(AppKinds, a)
            BY <2>2, <3>1, OtherRowsKeep
        <3> QED BY <1>1, <3>2 DEF SetUserActive, OutboxTellsStatus
    <2>7. \A s \in Sessions : s \in revoked' <=> About(RevocationKinds, s)' # {}
        <3>1. \A s \in Sessions : {r \in rows : r.type \in RevocationKinds /\ r.subject = s} # {}
                                      <=> s \in T
            <4> TAKE s \in Sessions
            <4>1. {r \in rows : r.type \in RevocationKinds /\ r.subject = s}
                    = {r \in Rows("session.revoked", T) :
                          r.type \in RevocationKinds /\ r.subject = s}
                BY <2>0 DEF StatusRows, Rows, AccountKinds, RevocationKinds
            <4> QED BY <4>1, SessionRows
        <3> HIDE DEF rows
        <3> QED BY <2>1, <2>2, <3>1, RevocationRows DEF OutboxTellsStatus
    <2> QED
        BY <2>2, <2>5, <2>6, <2>7 DEF OutboxTellsStatus
<1>2. ASSUME NEW a \in Apps, NEW b \in BOOLEAN, SetAppActive(a, b) PROVE StatusInv'
    <2> DEFINE t == IF b THEN "application.enabled" ELSE "application.disabled"
    <2>0. t \in AppKinds /\ PublishStatus("application.enabled", "application.disabled", a, b)
        BY <1>2 DEF SetAppActive, AppKinds
    <2> HIDE DEF t
    <2>1. PICK T \in SUBSET Sessions : /\ Publish(StatusRows(t, a, T))
                                       /\ revoked' = revoked \cup T
        BY <2>0, PublishStatusShape DEF t
    <2> DEFINE rows == StatusRows(t, a, T)
    <2>2. RowsAreOld' /\ outbox' = outbox \cup rows /\ tx < MaxTx
        BY <1>old, <2>1 DEF StatusRows, Rows
    <2>3. {r \in rows : r.type \in AppKinds /\ r.subject = a}
             = {[type |-> t, subject |-> a, at |-> tx + 1]}
        BY <2>0 DEF StatusRows, Rows, AppKinds
    <2>4. SaysOn(About(AppKinds, a)', "application.enabled") <=> t = "application.enabled"
        BY <2>2, <2>3, NewestRowDecides
    <2>5. \A c \in Apps : appActive'[c] <=> SaysOn(About(AppKinds, c)', "application.enabled")
        <3> TAKE c \in Apps
        <3>1. CASE c = a
            <4>1. appActive'[a] = b
                BY <1>2 DEF SetAppActive, TypeOK
            <4>2. b <=> t = "application.enabled"
                BY DEF t
            <4> QED BY <3>1, <2>4, <4>1, <4>2
        <3>2. CASE c # a
            <4>1. {r \in rows : r.type \in AppKinds /\ r.subject = c} = {}
                BY <3>2 DEF StatusRows, Rows, AppKinds
            <4>2. About(AppKinds, c)' = About(AppKinds, c)
                BY <2>2, <4>1, OtherRowsKeep
            <4>3. appActive'[c] = appActive[c]
                BY <1>2, <3>2 DEF SetAppActive, TypeOK
            <4> QED BY <4>2, <4>3 DEF OutboxTellsStatus
        <3> QED BY <3>1, <3>2
    <2>6. \A u \in Users : userActive'[u] <=> SaysOn(About(AccountKinds, u)', "account.enabled")
        <3> TAKE u \in Users
        <3>1. {r \in rows : r.type \in AccountKinds /\ r.subject = u} = {}
            BY <2>0 DEF StatusRows, Rows, AccountKinds, AppKinds
        <3>2. About(AccountKinds, u)' = About(AccountKinds, u)
            BY <2>2, <3>1, OtherRowsKeep
        <3> QED BY <1>2, <3>2 DEF SetAppActive, OutboxTellsStatus
    <2>7. \A s \in Sessions : s \in revoked' <=> About(RevocationKinds, s)' # {}
        <3>1. \A s \in Sessions : {r \in rows : r.type \in RevocationKinds /\ r.subject = s} # {}
                                      <=> s \in T
            <4> TAKE s \in Sessions
            <4>1. {r \in rows : r.type \in RevocationKinds /\ r.subject = s}
                    = {r \in Rows("session.revoked", T) :
                          r.type \in RevocationKinds /\ r.subject = s}
                BY <2>0 DEF StatusRows, Rows, AppKinds, RevocationKinds
            <4> QED BY <4>1, SessionRows
        <3> HIDE DEF rows
        <3> QED BY <2>1, <2>2, <3>1, RevocationRows DEF OutboxTellsStatus
    <2> QED
        BY <2>2, <2>5, <2>6, <2>7 DEF OutboxTellsStatus
<1>3. ASSUME NEW S \in SUBSET Sessions, RevokeSessions(S) PROVE StatusInv'
    <2> DEFINE rows == Rows("session.revoked", S)
    <2>1. RowsAreOld' /\ outbox' = outbox \cup rows
        BY <1>old, <1>3 DEF RevokeSessions, Rows
    <2>2. \A u \in Users : About(AccountKinds, u)' = About(AccountKinds, u)
        <3> TAKE u \in Users
        <3>1. {r \in rows : r.type \in AccountKinds /\ r.subject = u} = {}
            BY DEF Rows, AccountKinds
        <3> QED BY <2>1, <3>1, OtherRowsKeep
    <2>3. \A a \in Apps : About(AppKinds, a)' = About(AppKinds, a)
        <3> TAKE a \in Apps
        <3>1. {r \in rows : r.type \in AppKinds /\ r.subject = a} = {}
            BY DEF Rows, AppKinds
        <3> QED BY <2>1, <3>1, OtherRowsKeep
    <2>4. \A s \in Sessions : s \in revoked' <=> About(RevocationKinds, s)' # {}
        <3>1. \A s \in Sessions : {r \in rows : r.type \in RevocationKinds /\ r.subject = s} # {}
                                      <=> s \in S
            BY SessionRows
        <3>2. revoked' = revoked \cup S
            BY <1>3 DEF RevokeSessions
        <3> HIDE DEF rows
        <3> QED BY <2>1, <3>1, <3>2, RevocationRows DEF OutboxTellsStatus
    <2> QED
        BY <1>3, <2>1, <2>2, <2>3, <2>4 DEF OutboxTellsStatus, RevokeSessions
<1>4. CASE UNCHANGED <<authVars, outbox>>
    BY <1>4 DEF authVars, RowsAreOld, OutboxTellsStatus, About
<1>5. ASSUME NEW w \in Workers, WorkerStep(w) PROVE UNCHANGED <<authVars, outbox>>
    BY <1>5 DEF WorkerStep, ClaimNext, Post, PostAccepted, PostRefused, SettleRead,
       SettleSuccess, SettleFailure, Crash, outboxVars
<1>6. ASSUME NEW r, Elapse(r) \/ PushApplies(r) \/ PushLoses(r)
      PROVE  UNCHANGED <<authVars, outbox>>
    BY <1>6 DEF Elapse, PushApplies, PushLoses, outboxVars
<1>7. UNCHANGED vars => UNCHANGED <<authVars, outbox>>
    BY DEF vars, authVars
<1>8. AuthStep \/ UNCHANGED <<authVars, outbox>>
    BY <1>5, <1>6, <1>7 DEF Next
<1> QED
    BY <1>1, <1>2, <1>3, <1>4, <1>8 DEF AuthStep

LEMMA StatusInvInit == Init => StatusInv
<1> SUFFICES ASSUME Init PROVE StatusInv
    OBVIOUS
<1>1. TypeOK
    BY DeliveryInvInit DEF DeliveryInv
<1> QED
    BY <1>1 DEF Init, StatusInv, RowsAreOld, OutboxTellsStatus, About, SaysOn

\* Replaying the outbox rows of a subject in created_at order gives Auth's own
\* status of it, in every reachable state.
THEOREM OutboxComplete == Spec => []OutboxTellsStatus
<1>1. Init => StatusInv
    BY StatusInvInit
<1>2. StatusInv => OutboxTellsStatus
    BY DEF StatusInv
<1> QED
    BY <1>1, <1>2, StatusInvStep, DeliveryInvInit, DeliveryInvStep, PTL DEF Spec

-----------------------------------------------------------------------------
\* A transaction changes one status: created_at orders the status rows.
OneStatusRow ==
    \A e, f \in outbox : /\ e.type \notin RevocationKinds /\ f.type \notin RevocationKinds
                         /\ e.at = f.at
                         => e = f

LEMMA OneStatusRowStep ==
    ASSUME StatusInv, OneStatusRow, [Next]_vars PROVE OneStatusRow'
<1>1. ASSUME NEW rows, Publish(rows), \A r \in rows : r.at = tx + 1,
             \A e, f \in rows : /\ e.type \notin RevocationKinds /\ f.type \notin RevocationKinds
                                => e = f
      PROVE  OneStatusRow'
    <2>1. outbox' = outbox \cup rows /\ \A r \in outbox : r.at <= tx /\ r.at \in Nat /\ tx \in Nat
        BY <1>1, AuthAssumption DEF Publish, StatusInv, RowsAreOld, TypeOK, Event
    <2>2. \A r \in outbox, q \in rows : r.at # q.at
        BY <1>1, <2>1
    <2> QED
        BY <1>1, <2>1, <2>2 DEF OneStatusRow
<1>2. ASSUME NEW x, NEW on, NEW off, NEW b \in BOOLEAN, PublishStatus(on, off, x, b),
             \/ {on, off} \subseteq AccountKinds /\ x \in Users
             \/ {on, off} \subseteq AppKinds /\ x \in Apps
      PROVE  OneStatusRow'
    <2> DEFINE t == IF b THEN on ELSE off
    <2>1. \/ t \in AccountKinds /\ x \in Users
          \/ t \in AppKinds /\ x \in Apps
        BY <1>2
    <2> HIDE DEF t
    <2>2. PICK T \in SUBSET Sessions : Publish(StatusRows(t, x, T))
        BY <1>2, <2>1, PublishStatusShape DEF t, StatusInv
    <2>3. \A r \in StatusRows(t, x, T) :
             r.at = tx + 1 /\ (r.type \notin RevocationKinds => r = [type |-> t, subject |-> x, at |-> tx + 1])
        BY DEF StatusRows, Rows, RevocationKinds
    <2>4. \A e, f \in StatusRows(t, x, T) :
             e.type \notin RevocationKinds /\ f.type \notin RevocationKinds => e = f
        BY <2>3
    <2> QED
        BY <1>1, <2>2, <2>3, <2>4
<1>3. ASSUME NEW u \in Users, NEW b \in BOOLEAN, SetUserActive(u, b) PROVE OneStatusRow'
    BY <1>2, <1>3 DEF SetUserActive, AccountKinds
<1>4. ASSUME NEW a \in Apps, NEW b \in BOOLEAN, SetAppActive(a, b) PROVE OneStatusRow'
    BY <1>2, <1>4 DEF SetAppActive, AppKinds
<1>5. ASSUME NEW S, RevokeSessions(S) PROVE OneStatusRow'
    <2>1. \A r \in Rows("session.revoked", S) : r.at = tx + 1 /\ r.type \in RevocationKinds
        BY DEF Rows, RevocationKinds
    <2> QED
        BY <1>1, <1>5, <2>1 DEF RevokeSessions
<1>6. CASE outbox' = outbox
    BY <1>6 DEF OneStatusRow
<1>7. AuthStep \/ outbox' = outbox
    BY DEF Next, vars, WorkerStep, ClaimNext, Post, PostAccepted, PostRefused, SettleRead,
       SettleSuccess, SettleFailure, Crash, Elapse, PushApplies, PushLoses, outboxVars
<1> QED
    BY <1>3, <1>4, <1>5, <1>6, <1>7 DEF AuthStep

\* No two status rows of the outbox have the same created_at.
THEOREM StatusRowsOrdered == Spec => []OneStatusRow
<1>1. Init => OneStatusRow
    BY DEF Init, OneStatusRow
<1>2. StatusInv /\ OneStatusRow /\ [Next]_vars => OneStatusRow'
    BY OneStatusRowStep
<1> QED
    BY <1>1, <1>2, StatusInvInit, StatusInvStep, DeliveryInvInit, DeliveryInvStep, PTL DEF Spec
=============================================================================
