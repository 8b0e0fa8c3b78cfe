------------------------ MODULE LifecyclePropagation ------------------------
(***************************************************************************)
(* Auth and Push together.  Auth's outbox workers post lifecycle events;   *)
(* an event taken from the network is handled by a request thread of Push, *)
(* and "applied" of AuthOutbox is "seen" of PushLifecycle: Push answers    *)
(* 2xx once the event is committed (or was committed before).              *)
(***************************************************************************)
EXTENDS LifecycleEvents

CONSTANTS Workers, Devices, Tokens, Threads

VARIABLES userActive, appActive, authRevoked, tx, outbox, due, delivered,
          worker, inflight, seen, status, pushRevoked, endpoint, thread,
          overlapped  \* history: two requests of Push were under way together

authSide == <<userActive, appActive, authRevoked, tx, outbox, due, delivered, worker>>
pushSide == <<status, pushRevoked, endpoint, thread>>
vars == <<userActive, appActive, authRevoked, tx, outbox, due, delivered, worker,
          inflight, seen, status, pushRevoked, endpoint, thread, overlapped>>

Auth == INSTANCE AuthOutbox WITH revoked <- authRevoked, applied <- seen
Push == INSTANCE PushLifecycle WITH revoked <- pushRevoked, Posted <- Event

\* What AuthOutbox calls in flight: on the network, or in the hands of a thread.
InHand == {thread[t].event : t \in {u \in Threads : thread[u].step \in {"apply", "commit"}}}
Outbox == INSTANCE AuthOutbox
          WITH revoked <- authRevoked, applied <- seen, inflight <- inflight \cup InHand

TypeOK == Auth!TypeOK /\ Push!TypeOK

\* At most one of Push's threads has a request in hand.
Alone == \A t, u \in Threads : thread[t] # Push!Free /\ thread[u] # Push!Free => t = u

Init == Auth!Init /\ Push!Init /\ overlapped = FALSE

\* A transaction of Auth, a step of an outbox worker or the passing of time.
AuthSide ==
    /\ \/ Auth!AuthStep
       \/ \E w \in Workers : Auth!WorkerStep(w)
       \/ \E r \in outbox : Auth!Elapse(r)
       \/ \E r \in inflight : Auth!PushLoses(r)
    /\ UNCHANGED pushSide

\* A request thread takes a posted event that Push has not committed.
Take(t, r) ==
    /\ Push!ApplyBegin(t, r)
    /\ inflight' = inflight \ {r}
    /\ UNCHANGED authSide

\* A posted event that Push has committed before is only acknowledged.
Acknowledge(r) ==
    /\ r \in seen
    /\ inflight' = inflight \ {r}
    /\ UNCHANGED <<authSide, seen, pushSide>>

\* The other steps of Push's request threads.
PushSide ==
    /\ \/ \E t \in Threads : \/ Push!ApplyScope(t)
                             \/ Push!ApplyCommit(t)
                             \/ Push!ApplyAborts(t)
                             \/ \E s \in Sessions, d \in Devices, k \in Tokens :
                                    Push!RegisterCheck(t, s, d, k)
                             \/ Push!RegisterLoad(t)
                             \/ Push!RegisterCommit(t)
                             \/ Push!RegisterAborts(t)
       \/ \E s \in Sessions, d \in Devices : Push!RevokeDevice(s, d)
    /\ UNCHANGED <<authSide, inflight>>

Next ==
    /\ \/ AuthSide
       \/ \E r \in inflight : Acknowledge(r) \/ \E t \in Threads : Take(t, r)
       \/ PushSide
    /\ overlapped' = (overlapped \/ ~Alone')

Spec == Init /\ [][Next]_vars

-----------------------------------------------------------------------------
(* Properties.                                                             *)

\* The composition implements AuthOutbox: what that module takes for granted of
\* Push (it commits posted events only and acknowledges only what it has
\* committed) is what PushLifecycle does, threads and conflicts included.
ImplementsOutbox == Outbox!Spec

\* Once every outbox row is delivered, Push refuses exactly the sessions Auth has
\* revoked, whatever was lost, repeated or reordered on the way and however Push's
\* requests overlapped.  On accounts, applications and the endpoints of dead
\* sessions the two agree as long as no two requests of Push overlapped:
\* apply_auth_event and register_device read without a lock and commit later.
AgreeWhenDelivered ==
    outbox \subseteq delivered =>
        /\ pushRevoked = authRevoked
        /\ ~overlapped =>
              /\ \A u \in Users : status[u].active = userActive[u]
              /\ \A a \in Apps : status[a].active = appActive[a]
              /\ \A k \in Users \X Apps \X Devices :
                    endpoint[k].active => endpoint[k].session \notin authRevoked
=============================================================================
