--------------------- MODULE LifecyclePropagationProofs ---------------------
(***************************************************************************)
(* Proofs about Auth and Push together.  The composition implements        *)
(* AuthOutbox and its Push side is PushLifecycle, so what is proved of the *)
(* two components holds of the whole; together it says that Push agrees    *)
(* with Auth once everything is delivered.                                 *)
(***************************************************************************)
EXTENDS LifecyclePropagation, TLAPS

\* The two components with what is proved about them.
OutboxP == INSTANCE AuthOutboxProofs
           WITH revoked <- authRevoked, applied <- seen, inflight <- inflight \cup InHand
PushP == INSTANCE PushLifecycleProofs
         WITH revoked <- pushRevoked, Posted <- Event

-----------------------------------------------------------------------------
(* The instances of the proof modules are those of the components.         *)

LEMMA Assumptions == OutboxP!AuthAssumption /\ PushP!AuthAssumption /\ PushP!PushAssumption
BY AuthAssumption DEF Event, PushP!Event, AccountKinds, AppKinds, RevocationKinds,
   PushP!AccountKinds, PushP!AppKinds, PushP!RevocationKinds

LEMMA PushActions ==
    /\ Push!Init <=> PushP!Init
    /\ Push!vars = PushP!vars
    /\ \A t, e : Push!ApplyBegin(t, e) <=> PushP!ApplyBegin(t, e)
    /\ \A t : Push!ApplyScope(t) <=> PushP!ApplyScope(t)
    /\ \A t : Push!ApplyCommit(t) <=> PushP!ApplyCommit(t)
    /\ \A t : Push!ApplyAborts(t) <=> PushP!ApplyAborts(t)
    /\ \A t, s, d, k : Push!RegisterCheck(t, s, d, k) <=> PushP!RegisterCheck(t, s, d, k)
    /\ \A t : Push!RegisterLoad(t) <=> PushP!RegisterLoad(t)
    /\ \A t : Push!RegisterCommit(t) <=> PushP!RegisterCommit(t)
    /\ \A t : Push!RegisterAborts(t) <=> PushP!RegisterAborts(t)
    /\ \A s, d : Push!RevokeDevice(s, d) <=> PushP!RevokeDevice(s, d)
BY DEF Push!Init, Push!ApplyBegin, Push!ApplyScope, Push!ApplyCommit, Push!ApplyAborts,
    Push!RegisterCheck, Push!RegisterLoad, Push!RegisterCommit, Push!RegisterAborts,
    Push!RevokeDevice, Push!AccountKinds, Push!AppKinds, Push!RevocationKinds,
    Push!Event, Push!NoEvent, Push!Subjects, Push!StatusKinds, Push!Keys, Push!None,
    Push!Unknown, Push!NoEndpoint, Push!Free, Push!Enables, Push!Loaded, Push!Newer,
    Push!Scope, Push!InsertConflict, Push!Written, Push!Live, Push!KeyOf, Push!Bound,
    Push!pushVars, Push!vars, PushP!Init, PushP!ApplyBegin, PushP!ApplyScope,
    PushP!ApplyCommit, PushP!ApplyAborts, PushP!RegisterCheck, PushP!RegisterLoad,
    PushP!RegisterCommit, PushP!RegisterAborts, PushP!RevokeDevice, PushP!AccountKinds,
    PushP!AppKinds, PushP!RevocationKinds, PushP!Event, PushP!NoEvent, PushP!Subjects,
    PushP!StatusKinds, PushP!Keys, PushP!None, PushP!Unknown, PushP!NoEndpoint,
    PushP!Free, PushP!Enables, PushP!Loaded, PushP!Newer, PushP!Scope,
    PushP!InsertConflict, PushP!Written, PushP!Live, PushP!KeyOf, PushP!Bound,
    PushP!pushVars, PushP!vars

LEMMA OutboxActions ==
    /\ Outbox!Init <=> OutboxP!Init
    /\ Outbox!Next <=> OutboxP!Next
    /\ Outbox!vars = OutboxP!vars
BY DEF Outbox!NoEvent, Outbox!authVars, Outbox!outboxVars, Outbox!vars, Outbox!Idle,
    Outbox!Init, Outbox!Rows, Outbox!Publish, Outbox!LiveSessionsOf,
    Outbox!PublishStatus, Outbox!WasOff, Outbox!SetUserActive, Outbox!SetAppActive,
    Outbox!RevokeSessions, Outbox!ClaimNext, Outbox!Goto, Outbox!Post,
    Outbox!PostAccepted, Outbox!PostRefused, Outbox!SettleRead, Outbox!SettleSuccess,
    Outbox!SettleFailure, Outbox!Crash, Outbox!Elapse, Outbox!PushApplies,
    Outbox!PushLoses, Outbox!AuthStep, Outbox!WorkerStep, Outbox!Next, OutboxP!NoEvent,
    OutboxP!authVars, OutboxP!outboxVars, OutboxP!vars, OutboxP!Idle, OutboxP!Init,
    OutboxP!Rows, OutboxP!Publish, OutboxP!LiveSessionsOf, OutboxP!PublishStatus,
    OutboxP!WasOff, OutboxP!SetUserActive, OutboxP!SetAppActive, OutboxP!RevokeSessions,
    OutboxP!ClaimNext, OutboxP!Goto, OutboxP!Post, OutboxP!PostAccepted,
    OutboxP!PostRefused, OutboxP!SettleRead, OutboxP!SettleSuccess,
    OutboxP!SettleFailure, OutboxP!Crash, OutboxP!Elapse, OutboxP!PushApplies,
    OutboxP!PushLoses, OutboxP!AuthStep, OutboxP!WorkerStep, OutboxP!Next

-----------------------------------------------------------------------------
(* The events in the hands of Push's threads.                              *)

Holding(t) == thread[t].step \in {"apply", "commit"}

LEMMA InHandSame ==
    ASSUME \A t \in Threads : Holding(t)' <=> Holding(t),
           \A t \in Threads : Holding(t) => thread'[t].event = thread[t].event
    PROVE  InHand' = InHand
BY DEF InHand, Holding

\* A thread takes an event.
LEMMA InHandTakes ==
    ASSUME NEW t \in Threads, ~Holding(t), Holding(t)', NEW e, thread'[t].event = e,
           \A u \in Threads \ {t} : thread'[u] = thread[u]
    PROVE  InHand' = InHand \cup {e}
BY DEF InHand, Holding

\* A thread lets go of its event; another may hold it too.
LEMMA InHandDrops ==
    ASSUME NEW t \in Threads, Holding(t), ~Holding(t)', NEW e, thread[t].event = e,
           \A u \in Threads \ {t} : thread'[u] = thread[u]
    PROVE  e \in InHand /\ InHand' \in {InHand, InHand \ {e}}
<1>1. e \in InHand /\ InHand' \subseteq InHand /\ InHand \subseteq InHand' \cup {e}
    BY DEF InHand, Holding
<1> QED
    BY <1>1

-----------------------------------------------------------------------------
(* Every step of the composition is a step of AuthOutbox or leaves it      *)
(* alone, and the same for PushLifecycle.                                  *)

LEMMA AuthSideRefines ==
    ASSUME AuthSide PROVE Outbox!Next \/ UNCHANGED Outbox!vars
<1>1. UNCHANGED pushSide /\ InHand' = InHand
    BY DEF AuthSide, pushSide, InHand
<1>2. CASE Auth!AuthStep
    <2>1. \A rows : Auth!Publish(rows) => Outbox!Publish(rows)
        BY <1>1 DEF Auth!Publish, Outbox!Publish
    <2>2. \A on, off, x, b : Auth!PublishStatus(on, off, x, b) => Outbox!PublishStatus(on, off, x, b)
        BY <2>1 DEF Auth!PublishStatus, Outbox!PublishStatus, Auth!Rows, Outbox!Rows,
           Auth!LiveSessionsOf, Outbox!LiveSessionsOf
    <2>3. \A u, b : Auth!SetUserActive(u, b) => Outbox!SetUserActive(u, b)
        BY <2>2 DEF Auth!SetUserActive, Outbox!SetUserActive, Auth!WasOff, Outbox!WasOff
    <2>4. \A a, b : Auth!SetAppActive(a, b) => Outbox!SetAppActive(a, b)
        BY <2>2 DEF Auth!SetAppActive, Outbox!SetAppActive, Auth!WasOff, Outbox!WasOff
    <2>5. \A S : Auth!RevokeSessions(S) => Outbox!RevokeSessions(S)
        BY <2>1 DEF Auth!RevokeSessions, Outbox!RevokeSessions, Auth!Rows, Outbox!Rows
    <2> QED
        BY <1>2, <2>3, <2>4, <2>5 DEF Auth!AuthStep, Outbox!AuthStep, Outbox!Next
<1>3. ASSUME NEW w \in Workers, Auth!WorkerStep(w) PROVE Outbox!WorkerStep(w)
    <2> USE DEF Auth!Goto, Outbox!Goto, Auth!Idle, Outbox!Idle, Auth!NoEvent, Outbox!NoEvent,
                Auth!authVars, Outbox!authVars, Auth!outboxVars, Outbox!outboxVars
    <2>1. Auth!ClaimNext(w) => Outbox!ClaimNext(w)
        BY <1>1 DEF Auth!ClaimNext, Outbox!ClaimNext
    <2>2. Auth!Post(w) => Outbox!Post(w)
        BY <1>1 DEF Auth!Post, Outbox!Post
    <2>3. Auth!PostAccepted(w) => Outbox!PostAccepted(w)
        BY <1>1 DEF Auth!PostAccepted, Outbox!PostAccepted
    <2>4. Auth!PostRefused(w) => Outbox!PostRefused(w)
        BY <1>1 DEF Auth!PostRefused, Outbox!PostRefused
    <2>5. Auth!SettleRead(w) => Outbox!SettleRead(w)
        BY <1>1 DEF Auth!SettleRead, Outbox!SettleRead
    <2>6. Auth!SettleSuccess(w) => Outbox!SettleSuccess(w)
        BY <1>1 DEF Auth!SettleSuccess, Outbox!SettleSuccess
    <2>7. Auth!SettleFailure(w) => Outbox!SettleFailure(w)
        BY <1>1 DEF Auth!SettleFailure, Outbox!SettleFailure
    <2>8. Auth!Crash(w) => Outbox!Crash(w)
        BY <1>1 DEF Auth!Crash, Outbox!Crash
    <2> HIDE DEF Auth!Goto, Outbox!Goto, Auth!Idle, Outbox!Idle, Auth!NoEvent, Outbox!NoEvent,
                 Auth!authVars, Outbox!authVars, Auth!outboxVars, Outbox!outboxVars
    <2> QED
        BY <1>3, <2>1, <2>2, <2>3, <2>4, <2>5, <2>6, <2>7, <2>8
        DEF Auth!WorkerStep, Outbox!WorkerStep
<1>4. ASSUME NEW r \in outbox, Auth!Elapse(r) PROVE Outbox!Elapse(r)
    BY <1>1, <1>4 DEF Auth!Elapse, Outbox!Elapse, Auth!authVars, Outbox!authVars
<1>5. ASSUME NEW r \in inflight, Auth!PushLoses(r)
      PROVE  Outbox!PushLoses(r) \/ UNCHANGED Outbox!vars
    <2>1. /\ inflight' = inflight \ {r} /\ UNCHANGED <<Auth!authVars, Auth!outboxVars, worker, seen>>
        BY <1>5 DEF Auth!PushLoses
    <2>2. (inflight \cup InHand)' \in {inflight \cup InHand, (inflight \cup InHand) \ {r}}
        BY <1>1, <2>1
    <2> QED
        BY <2>1, <2>2 DEF Outbox!PushLoses, Outbox!vars, Auth!authVars, Outbox!authVars,
           Auth!outboxVars, Outbox!outboxVars
<1> QED
    BY <1>2, <1>3, <1>4, <1>5 DEF AuthSide, Outbox!Next

\* What Push's threads do, as far as Auth's side can tell.
LEMMA PushThreads ==
    ASSUME thread \in [Threads -> PushP!Request], NEW t \in Threads
    PROVE  /\ \A e : PushP!ApplyBegin(t, e) =>
                 ~Holding(t) /\ Holding(t)' /\ thread'[t].event = e
           /\ PushP!ApplyScope(t) =>
                 Holding(t) /\ Holding(t)' /\ thread'[t].event = thread[t].event
           /\ PushP!ApplyCommit(t) \/ PushP!ApplyAborts(t) => Holding(t) /\ ~Holding(t)'
           /\ \A s, d, k : PushP!RegisterCheck(t, s, d, k) => ~Holding(t) /\ ~Holding(t)'
           /\ PushP!RegisterLoad(t) \/ PushP!RegisterCommit(t) \/ PushP!RegisterAborts(t) =>
                 ~Holding(t) /\ ~Holding(t)'
<1>0. PushP!Free.step = "free"
    BY DEF PushP!Free
<1>1. \A e : PushP!ApplyBegin(t, e) => ~Holding(t) /\ Holding(t)' /\ thread'[t].event = e
    BY DEF PushP!ApplyBegin, PushP!Free, Holding
<1>2. PushP!ApplyScope(t) => Holding(t) /\ Holding(t)' /\ thread'[t].event = thread[t].event
    BY DEF PushP!ApplyScope, PushP!Request, Holding
<1>3. PushP!ApplyCommit(t) \/ PushP!ApplyAborts(t) => Holding(t) /\ ~Holding(t)'
    BY <1>0 DEF PushP!ApplyCommit, PushP!ApplyAborts, Holding
<1>4. \A s, d, k : PushP!RegisterCheck(t, s, d, k) => ~Holding(t) /\ ~Holding(t)'
    BY DEF PushP!RegisterCheck, PushP!Free, Holding
<1>5. PushP!RegisterLoad(t) => ~Holding(t) /\ ~Holding(t)'
    BY DEF PushP!RegisterLoad, PushP!Request, Holding
<1>6. PushP!RegisterCommit(t) \/ PushP!RegisterAborts(t) => ~Holding(t) /\ ~Holding(t)'
    BY <1>0 DEF PushP!RegisterCommit, PushP!RegisterAborts, Holding
<1> QED
    BY <1>1, <1>2, <1>3, <1>4, <1>5, <1>6

\* A step of one thread leaves the others alone.
LEMMA OneThreadMoves ==
    ASSUME thread \in [Threads -> PushP!Request], NEW t \in Threads, PushP!ThreadStep(t)
    PROVE  \A u \in Threads \ {t} : thread'[u] = thread[u]
BY DEF PushP!ThreadStep, PushP!ApplyBegin, PushP!ApplyScope, PushP!ApplyCommit,
       PushP!ApplyAborts, PushP!RegisterCheck, PushP!RegisterLoad, PushP!RegisterCommit,
       PushP!RegisterAborts

LEMMA TakeRefines ==
    ASSUME thread \in [Threads -> PushP!Request], NEW t \in Threads, NEW r \in inflight, r \in Event,
           Take(t, r)
    PROVE  UNCHANGED Outbox!vars /\ PushP!ThreadStep(t)
<1>1. PushP!ApplyBegin(t, r) /\ inflight' = inflight \ {r} /\ UNCHANGED authSide
    BY PushActions DEF Take
<1>2. PushP!ThreadStep(t)
    BY <1>1 DEF PushP!ThreadStep
<1>3. InHand' = InHand \cup {r}
    BY <1>1, <1>2, PushThreads, OneThreadMoves, InHandTakes
<1>4. (inflight \cup InHand)' = inflight \cup InHand /\ UNCHANGED seen
    BY <1>1, <1>3 DEF PushP!ApplyBegin, PushP!pushVars
<1> QED
    BY <1>1, <1>2, <1>4 DEF authSide, Outbox!vars

LEMMA AcknowledgeRefines ==
    ASSUME NEW r \in inflight, Acknowledge(r)
    PROVE  /\ Outbox!Next \/ UNCHANGED Outbox!vars
           /\ UNCHANGED PushP!vars
<1>1. inflight' = inflight \ {r} /\ UNCHANGED <<authSide, seen, pushSide>> /\ InHand' = InHand
    BY DEF Acknowledge, pushSide, InHand
<1>2. (inflight \cup InHand)' \in {inflight \cup InHand, (inflight \cup InHand) \ {r}}
    BY <1>1
<1>3. Outbox!PushLoses(r) \/ UNCHANGED Outbox!vars
    BY <1>1, <1>2 DEF Outbox!PushLoses, Outbox!vars, Outbox!authVars, Outbox!outboxVars, authSide
<1> QED
    BY <1>1, <1>3 DEF Outbox!Next, PushP!vars, pushSide

LEMMA PushSideRefines ==
    ASSUME thread \in [Threads -> PushP!Request], PushSide
    PROVE  PushP!Next /\ (Outbox!Next \/ UNCHANGED Outbox!vars)
<1>1. UNCHANGED <<authSide, inflight>>
    BY DEF PushSide
<1>2. ASSUME seen' = seen, InHand' = InHand PROVE UNCHANGED Outbox!vars
    BY <1>1, <1>2 DEF authSide, Outbox!vars
<1>3. ASSUME NEW t \in Threads, PushP!ThreadStep(t), ~PushP!ApplyCommit(t), ~PushP!ApplyAborts(t),
             \A e \in Event : ~PushP!ApplyBegin(t, e)
      PROVE  UNCHANGED Outbox!vars
    <2>1. seen' = seen
        BY <1>3 DEF PushP!ThreadStep, PushP!ApplyScope, PushP!RegisterCheck, PushP!RegisterLoad,
           PushP!RegisterCommit, PushP!RegisterAborts, PushP!pushVars
    <2>2. \/ ~Holding(t) /\ ~Holding(t)'
          \/ Holding(t) /\ Holding(t)' /\ thread'[t].event = thread[t].event
        BY <1>3, PushThreads DEF PushP!ThreadStep
    <2>3. \A u \in Threads \ {t} : thread'[u] = thread[u]
        BY <1>3, OneThreadMoves
    <2>4. InHand' = InHand
        BY <2>2, <2>3, InHandSame DEF Holding
    <2> QED
        BY <1>2, <2>1, <2>4
<1>4. ASSUME NEW t \in Threads, PushP!ApplyCommit(t) \/ PushP!ApplyAborts(t)
      PROVE  Outbox!Next \/ UNCHANGED Outbox!vars
    <2> DEFINE e == thread[t].event
    <2>1. PushP!ThreadStep(t)
        BY <1>4 DEF PushP!ThreadStep
    <2>2. e \in InHand /\ InHand' \in {InHand, InHand \ {e}}
        BY <1>4, <2>1, PushThreads, OneThreadMoves, InHandDrops
    <2>3. /\ e \in inflight \cup InHand
          /\ (inflight \cup InHand)' \in {inflight \cup InHand, (inflight \cup InHand) \ {e}}
        BY <1>1, <2>2
    <2>4. CASE PushP!ApplyCommit(t)
        <3>1. seen' = seen \cup {e}
            BY <2>4 DEF PushP!ApplyCommit
        <3>2. Outbox!PushApplies(e)
            BY <1>1, <2>3, <3>1 DEF Outbox!PushApplies, Outbox!authVars, Outbox!outboxVars, authSide
        <3> QED
            BY <2>3, <3>2 DEF Outbox!Next
    <2>5. CASE PushP!ApplyAborts(t)
        <3>1. seen' = seen
            BY <2>5 DEF PushP!ApplyAborts, PushP!pushVars
        <3>2. Outbox!PushLoses(e) \/ UNCHANGED Outbox!vars
            BY <1>1, <2>3, <3>1
            DEF Outbox!PushLoses, Outbox!vars, Outbox!authVars, Outbox!outboxVars, authSide
        <3> QED
            BY <2>3, <3>2 DEF Outbox!Next
    <2> QED
        BY <1>4, <2>4, <2>5
<1>5. ASSUME NEW s \in Sessions, NEW d \in Devices, PushP!RevokeDevice(s, d)
      PROVE  UNCHANGED Outbox!vars
    <2>1. seen' = seen /\ InHand' = InHand
        BY <1>5 DEF PushP!RevokeDevice, InHand
    <2> QED
        BY <1>2, <2>1
<1>6. \/ \E t \in Threads : \/ PushP!ApplyScope(t) \/ PushP!ApplyCommit(t) \/ PushP!ApplyAborts(t)
                            \/ \E s \in Sessions, d \in Devices, k \in Tokens :
                                  PushP!RegisterCheck(t, s, d, k)
                            \/ PushP!RegisterLoad(t) \/ PushP!RegisterCommit(t)
                            \/ PushP!RegisterAborts(t)
      \/ \E s \in Sessions, d \in Devices : PushP!RevokeDevice(s, d)
    BY PushActions DEF PushSide
<1>7. CASE \E t \in Threads : \/ PushP!ApplyScope(t) \/ PushP!ApplyCommit(t) \/ PushP!ApplyAborts(t)
                              \/ \E s \in Sessions, d \in Devices, k \in Tokens :
                                    PushP!RegisterCheck(t, s, d, k)
                              \/ PushP!RegisterLoad(t) \/ PushP!RegisterCommit(t)
                              \/ PushP!RegisterAborts(t)
    <2>1. PICK t \in Threads : \/ PushP!ApplyScope(t) \/ PushP!ApplyCommit(t) \/ PushP!ApplyAborts(t)
                               \/ \E s \in Sessions, d \in Devices, k \in Tokens :
                                     PushP!RegisterCheck(t, s, d, k)
                               \/ PushP!RegisterLoad(t) \/ PushP!RegisterCommit(t)
                               \/ PushP!RegisterAborts(t)
        BY <1>7
    <2>2. PushP!ThreadStep(t)
        BY <2>1 DEF PushP!ThreadStep
    <2>3. PushP!ApplyCommit(t) \/ PushP!ApplyAborts(t) \/ \A e \in Event : ~PushP!ApplyBegin(t, e)
        BY <2>1, PushThreads
    <2> QED
        BY <1>3, <1>4, <2>2, <2>3 DEF PushP!Next
<1>8. CASE \E s \in Sessions, d \in Devices : PushP!RevokeDevice(s, d)
    BY <1>5, <1>8 DEF PushP!Next
<1> QED
    BY <1>6, <1>7, <1>8

-----------------------------------------------------------------------------
LEMMA SameEvents ==
    /\ OutboxP!Event = Event /\ PushP!Event = Event
    /\ OutboxP!RevocationKinds = RevocationKinds /\ PushP!RevocationKinds = RevocationKinds
    /\ OutboxP!AccountKinds = AccountKinds /\ OutboxP!AppKinds = AppKinds
    /\ PushP!StatusKinds = AccountKinds \cup AppKinds
BY DEF Event, AccountKinds, AppKinds, RevocationKinds, PushP!StatusKinds,
   PushP!Event, PushP!AccountKinds, PushP!AppKinds, PushP!RevocationKinds,
   OutboxP!Event, OutboxP!AccountKinds, OutboxP!AppKinds, OutboxP!RevocationKinds

\* What is needed to see the steps of the composition as steps of its parts.
Typed == OutboxP!DeliveryInv /\ PushP!TypeInv

LEMMA StepRefines ==
    ASSUME Typed, [Next]_vars
    PROVE  [Outbox!Next]_(Outbox!vars) /\ [PushP!Next]_(PushP!vars)
<1>1. thread \in [Threads -> PushP!Request] /\ inflight \subseteq Event
    BY SameEvents DEF Typed, PushP!TypeInv, PushP!TypeOK, OutboxP!DeliveryInv, OutboxP!TypeOK
<1>2. CASE AuthSide
    <2>1. seen' = seen
        BY <1>2 DEF AuthSide, Auth!AuthStep, Auth!SetUserActive, Auth!SetAppActive,
           Auth!RevokeSessions, Auth!PublishStatus, Auth!Publish, Auth!WorkerStep, Auth!ClaimNext,
           Auth!Post, Auth!PostAccepted, Auth!PostRefused, Auth!SettleRead, Auth!SettleSuccess,
           Auth!SettleFailure, Auth!Crash, Auth!Elapse, Auth!PushLoses
    <2>2. UNCHANGED PushP!vars
        BY <1>2, <2>1 DEF AuthSide, pushSide, PushP!vars
    <2> QED
        BY <1>2, <2>2, AuthSideRefines
<1>3. ASSUME NEW r \in inflight, Acknowledge(r)
      PROVE  [Outbox!Next]_(Outbox!vars) /\ [PushP!Next]_(PushP!vars)
    BY <1>3, AcknowledgeRefines
<1>4. ASSUME NEW r \in inflight, NEW t \in Threads, Take(t, r)
      PROVE  [Outbox!Next]_(Outbox!vars) /\ [PushP!Next]_(PushP!vars)
    BY <1>1, <1>4, TakeRefines DEF PushP!Next
<1>5. CASE PushSide
    BY <1>1, <1>5, PushSideRefines
<1>6. CASE UNCHANGED vars
    BY <1>6 DEF vars, InHand, Outbox!vars, PushP!vars
<1> QED
    BY <1>2, <1>3, <1>4, <1>5, <1>6 DEF Next

LEMMA InitRefines == Init => Outbox!Init /\ PushP!Init
<1> SUFFICES ASSUME Init PROVE Outbox!Init /\ PushP!Init
    OBVIOUS
<1>1. PushP!Init
    BY PushActions DEF Init
<1>2. InHand = {}
    BY <1>1 DEF PushP!Init, PushP!Free, InHand
<1>3. Outbox!Init
    BY <1>2 DEF Init, Auth!Init, Outbox!Init, Auth!Idle, Outbox!Idle, Auth!NoEvent, Outbox!NoEvent
<1> QED
    BY <1>1, <1>3

LEMMA TypedHolds == Spec => []Typed
<1>1. Init => Typed
    BY InitRefines, OutboxActions, Assumptions, OutboxP!DeliveryInvInit, PushP!TypeInvInit DEF Typed
<1>2. Typed /\ [Next]_vars => Typed'
    <2> SUFFICES ASSUME Typed, [Next]_vars PROVE Typed'
        OBVIOUS
    <2>1. [OutboxP!Next]_(OutboxP!vars) /\ [PushP!Next]_(PushP!vars)
        BY StepRefines, OutboxActions DEF Outbox!vars, OutboxP!vars
    <2>2. OutboxP!DeliveryInv'
        BY <2>1, Assumptions, OutboxP!DeliveryInvStep DEF Typed
    <2>3. PushP!TypeInv'
        BY <2>1, Assumptions, PushP!TypeInvStep DEF Typed
    <2> QED
        BY <2>2, <2>3 DEF Typed
<1> QED
    BY <1>1, <1>2, PTL DEF Spec

\* Auth and Push together implement AuthOutbox, whatever the number of workers and of
\* request threads, however requests overlap, conflict and abort: Push commits posted
\* events only and acknowledges only what it has committed.
THEOREM CompositionIsOutbox == Spec => ImplementsOutbox
<1>1. Typed /\ [Next]_vars => [Outbox!Next]_(Outbox!vars)
    BY StepRefines
<1>2. Init => Outbox!Init
    BY InitRefines
<1> QED
    BY <1>1, <1>2, TypedHolds, PTL DEF Spec, ImplementsOutbox, Outbox!Spec

-----------------------------------------------------------------------------
(* What is proved of the parts, about the whole.                           *)

LEMMA Parts == Spec => OutboxP!Spec /\ PushP!Spec
<1>1. Typed /\ [Next]_vars => [OutboxP!Next]_(OutboxP!vars) /\ [PushP!Next]_(PushP!vars)
    BY StepRefines, OutboxActions DEF Outbox!vars, OutboxP!vars
<1>2. Init => OutboxP!Init /\ PushP!Init
    BY InitRefines, OutboxActions
<1> QED
    BY <1>1, <1>2, TypedHolds, PTL DEF Spec, OutboxP!Spec, PushP!Spec

OutboxFacts ==
    /\ OutboxP!TypeOK /\ OutboxP!DeliveredWasApplied /\ OutboxP!OutboxTellsStatus
    /\ OutboxP!OneStatusRow

LEMMA OutboxFactsHold == Spec => []OutboxFacts
<1>1. OutboxP!Spec => []OutboxP!TypeOK
    BY Assumptions, OutboxP!TypeCorrect
<1>2. OutboxP!Spec => []OutboxP!DeliveredWasApplied
    BY Assumptions, OutboxP!DeliverySound
<1>3. OutboxP!Spec => []OutboxP!OutboxTellsStatus
    BY Assumptions, OutboxP!OutboxComplete
<1>4. OutboxP!Spec => []OutboxP!OneStatusRow
    BY Assumptions, OutboxP!StatusRowsOrdered
<1> QED
    BY <1>1, <1>2, <1>3, <1>4, Parts, PTL DEF OutboxFacts

\* Once every row is delivered, Push has committed exactly the rows of the outbox.
LEMMA AllSeen ==
    ASSUME OutboxFacts, outbox \subseteq delivered
    PROVE  seen = outbox /\ outbox \subseteq Event
BY SameEvents DEF OutboxFacts, OutboxP!TypeOK, OutboxP!DeliveredWasApplied

\* Once every row is delivered, Push refuses exactly the sessions Auth has revoked.
RevocationsAgree == outbox \subseteq delivered => pushRevoked = authRevoked

LEMMA RevocationsAgreeFrom ==
    ASSUME OutboxFacts, PushP!RevocationSticks, pushRevoked \subseteq Sessions
    PROVE  RevocationsAgree
<1> SUFFICES ASSUME outbox \subseteq delivered PROVE pushRevoked = authRevoked
    BY DEF RevocationsAgree
<1>1. seen = outbox
    BY AllSeen
<1>2. ASSUME NEW s \in Sessions PROVE s \in pushRevoked <=> s \in authRevoked
    <2>1. s \in authRevoked <=> \E e \in outbox : e.type = "session.revoked" /\ e.subject = s
        BY SameEvents DEF OutboxFacts, OutboxP!OutboxTellsStatus, OutboxP!About, RevocationKinds
    <2> QED
        BY <1>1, <2>1 DEF PushP!RevocationSticks
<1> QED
    BY <1>2 DEF OutboxFacts, OutboxP!TypeOK

\* Once every outbox row is delivered, Push refuses exactly the sessions Auth has
\* revoked, for any number of workers and of overlapping requests of Push, whatever
\* was lost, repeated or reordered on the way.
THEOREM RevocationAgreement == Spec => []RevocationsAgree
<1>1. PushP!Spec => []PushP!RevocationSticks
    BY Assumptions, PushP!RevocationNeverLost
<1>2. PushP!Spec => []PushP!TypeOK
    BY Assumptions, PushP!PushTypeCorrect
<1>3. OutboxFacts /\ PushP!RevocationSticks /\ PushP!TypeOK => RevocationsAgree
    BY RevocationsAgreeFrom DEF PushP!TypeOK
<1> QED
    BY <1>1, <1>2, <1>3, OutboxFactsHold, Parts, PTL

-----------------------------------------------------------------------------
(* Agreement on accounts, applications and endpoints.                      *)

\* As long as no two requests of Push overlapped, one at most is under way and what
\* is proved of requests that come one at a time holds.
SerialSoFar == ~overlapped => Alone /\ PushP!SerialInv

LEMMA SameFree == Push!Free = PushP!Free
BY DEF Push!Free, PushP!Free, Push!NoEvent, PushP!NoEvent, Push!Unknown,
   PushP!Unknown, Push!None, PushP!None, Push!NoEndpoint, PushP!NoEndpoint

LEMMA SerialHolds == Spec => []SerialSoFar
<1>1. Init => SerialSoFar
    <2> SUFFICES ASSUME Init PROVE Alone /\ PushP!SerialInv
        BY DEF SerialSoFar
    <2>1. PushP!Init
        BY InitRefines
    <2>2. Alone
        BY <2>1, SameFree DEF PushP!Init, Alone
    <2> QED
        BY <2>1, <2>2, Assumptions, PushP!SerialInvInit
<1>2. OutboxFacts /\ Typed /\ SerialSoFar /\ [Next]_vars => SerialSoFar'
    <2> SUFFICES ASSUME OutboxFacts, Typed, SerialSoFar, [Next]_vars, ~overlapped'
                 PROVE  Alone' /\ PushP!SerialInv'
        BY DEF SerialSoFar
    <2>1. [PushP!Next]_(PushP!vars)
        BY StepRefines
    <2>2. ~overlapped
        BY DEF Next, vars
    <2>3. Alone /\ PushP!SerialInv
        BY <2>2 DEF SerialSoFar
    <2>4. Alone'
        BY <2>3 DEF Next, vars, Alone
    <2>5. PushP!Alone /\ PushP!Alone'
        BY <2>3, <2>4, SameFree DEF Alone, PushP!Alone
    <2>6. PushP!EventsOnce
        <3>1. seen \subseteq outbox /\ InHand \subseteq outbox
            BY DEF OutboxFacts, OutboxP!TypeOK
        <3>2. \A t \in Threads : PushP!InHand(t) => thread[t].event \in outbox
            BY <3>1 DEF PushP!InHand, InHand
        <3>3. \A x \in PushP!StatusKinds : x \notin OutboxP!RevocationKinds
            BY SameEvents DEF AccountKinds, AppKinds, RevocationKinds
        <3> QED
            BY <3>1, <3>2, <3>3 DEF PushP!EventsOnce, OutboxFacts, OutboxP!OneStatusRow
    <2> QED
        BY <2>1, <2>3, <2>4, <2>5, <2>6, Assumptions, PushP!SerialInvStep
<1> QED
    BY <1>1, <1>2, OutboxFactsHold, TypedHolds, PTL DEF Spec

\* A status row that follows the newest event is on exactly when the outbox says so.
LEMMA StatusAgrees ==
    ASSUME OutboxFacts, outbox \subseteq delivered, PushP!SerialInv,
           NEW kinds, NEW on, NEW off, kinds = {on, off}, on # off, NEW x \in PushP!Subjects,
           on \in {"account.enabled", "application.enabled"},
           off \notin {"account.enabled", "application.enabled"},
           \A e \in Event : e.subject = x => (e.type \in PushP!StatusKinds <=> e.type \in kinds)
    PROVE  status[x].active <=> OutboxP!SaysOn(OutboxP!About(kinds, x), on)
<1> DEFINE rows == OutboxP!About(kinds, x)
<1>1. PushP!StatusEvents(x) = rows
    BY AllSeen DEF PushP!StatusEvents, OutboxP!About
<1>2. \A e \in rows : e \in Event /\ e.at \in Nat /\ e.type \in kinds
    BY AllSeen, AuthAssumption DEF OutboxP!About, Event
<1>3. \A e \in rows : /\ PushP!Enables(e) <=> e.type = on
                      /\ e.at <= status[x].at
                      /\ e.at = status[x].at => (status[x].active <=> PushP!Enables(e))
    BY <1>1, <1>2 DEF PushP!SerialInv, PushP!StatusInv, PushP!NewestWins, PushP!SaysNewest, PushP!Enables
<1> HIDE DEF rows
<1>4. CASE rows = {}
    <2>1. status[x] = PushP!Unknown
        BY <1>1, <1>4 DEF PushP!SerialInv, PushP!StatusInv, PushP!NewestWins, PushP!StatusOfEvent
    <2> QED
        BY <1>4, <2>1 DEF PushP!Unknown, OutboxP!SaysOn, rows
<1>5. CASE rows # {}
    <2>1. PICK e \in rows : e.at = status[x].at
        BY <1>1, <1>5 DEF PushP!SerialInv, PushP!StatusInv, PushP!NewestWins, PushP!StatusOfEvent
    <2>2. \A q \in rows : q.at <= e.at
        BY <1>3, <2>1
    <2>3. \A r \in rows : (\A q \in rows : q.at <= r.at) => r.at = e.at
        BY <1>2, <2>1, <2>2
    <2>4. status[x].active <=> e.type = on
        BY <1>3, <2>1
    <2>5. \A r \in rows : r.at = e.at => (r.type = on <=> e.type = on)
        BY <1>3, <2>1
    <2>6. OutboxP!SaysOn(rows, on) <=> e.type = on
        BY <1>5, <2>1, <2>2, <2>3, <2>5 DEF OutboxP!SaysOn
    <2> QED
        BY <2>4, <2>6 DEF rows
<1> QED
    BY <1>4, <1>5

\* Once every outbox row is delivered, Push refuses exactly the sessions Auth has
\* revoked, however its requests overlapped; and as long as none did, the two agree on
\* every account and application and no endpoint of a dead session can be notified: for
\* any number of accounts, applications, sessions, devices, workers, threads and
\* transactions.
THEOREM Agreement == Spec => []AgreeWhenDelivered
<1>1. OutboxFacts /\ SerialSoFar /\ RevocationsAgree => AgreeWhenDelivered
    <2> SUFFICES ASSUME OutboxFacts, SerialSoFar, RevocationsAgree, outbox \subseteq delivered, ~overlapped
                 PROVE  /\ \A u \in Users : status[u].active = userActive[u]
                        /\ \A a \in Apps : status[a].active = appActive[a]
                        /\ \A k \in Users \X Apps \X Devices :
                              endpoint[k].active => endpoint[k].session \notin authRevoked
        BY DEF AgreeWhenDelivered, RevocationsAgree
    <2>0. PushP!SerialInv
        BY DEF SerialSoFar
    <2>1. pushRevoked = authRevoked
        BY DEF RevocationsAgree
    <2>2. /\ status \in [PushP!Subjects -> PushP!Status]
          /\ userActive \in [Users -> BOOLEAN] /\ appActive \in [Apps -> BOOLEAN]
        BY <2>0 DEF PushP!SerialInv, PushP!TypeInv, PushP!TypeOK, OutboxFacts, OutboxP!TypeOK
    <2>3. ASSUME NEW u \in Users PROVE status[u].active = userActive[u]
        <3>1. u \in PushP!Subjects
            BY DEF PushP!Subjects
        <3>2. \A e \in Event : e.subject = u => (e.type \in PushP!StatusKinds <=> e.type \in AccountKinds)
            BY SameEvents, AuthAssumption DEF Event, AccountKinds, AppKinds, RevocationKinds
        <3>3. status[u].active <=> OutboxP!SaysOn(OutboxP!About(AccountKinds, u), "account.enabled")
            BY <2>0, <3>1, <3>2, StatusAgrees DEF AccountKinds
        <3>4. userActive[u] <=> OutboxP!SaysOn(OutboxP!About(AccountKinds, u), "account.enabled")
            BY SameEvents DEF OutboxFacts, OutboxP!OutboxTellsStatus
        <3> QED
            BY <2>2, <3>1, <3>3, <3>4 DEF PushP!Status
    <2>4. ASSUME NEW a \in Apps PROVE status[a].active = appActive[a]
        <3>1. a \in PushP!Subjects
            BY DEF PushP!Subjects
        <3>2. \A e \in Event : e.subject = a => (e.type \in PushP!StatusKinds <=> e.type \in AppKinds)
            BY SameEvents, AuthAssumption DEF Event, AccountKinds, AppKinds, RevocationKinds
        <3>3. status[a].active <=> OutboxP!SaysOn(OutboxP!About(AppKinds, a), "application.enabled")
            BY <2>0, <3>1, <3>2, StatusAgrees DEF AppKinds
        <3>4. appActive[a] <=> OutboxP!SaysOn(OutboxP!About(AppKinds, a), "application.enabled")
            BY SameEvents DEF OutboxFacts, OutboxP!OutboxTellsStatus
        <3> QED
            BY <2>2, <3>1, <3>3, <3>4 DEF PushP!Status
    <2>5. ASSUME NEW k \in Users \X Apps \X Devices, endpoint[k].active
          PROVE  endpoint[k].session \notin authRevoked
        BY <2>0, <2>1, <2>5
        DEF PushP!SerialInv, PushP!RegistryInv, PushP!ActiveEndpointIsLive, PushP!Keys, PushP!Live
    <2> QED
        BY <2>3, <2>4, <2>5
<1> QED
    BY <1>1, SerialHolds, OutboxFactsHold, RevocationAgreement, PTL
=============================================================================
