------------------------ MODULE PushLifecycleProofs -------------------------
(***************************************************************************)
(* Proofs about PushLifecycle for any events, sessions, devices and        *)
(* tokens.  Types and revocations hold for any number of request threads;  *)
(* what depends on a row not changing between its read and the commit      *)
(* holds when requests do not overlap.                                     *)
(***************************************************************************)
EXTENDS PushSerial, TLAPS

\* Requests that apply an event hold one that was posted.
InHand(t) == thread[t].step \in {"apply", "commit"}
HoldsPosted == \A t \in Threads : InHand(t) => thread[t].event \in Posted
Registering(t) == thread[t].step \in {"checked", "register"}
HoldsSession == \A t \in Threads : Registering(t) =>
                    /\ thread[t].session \in Sessions
                    /\ thread[t].device \in Devices
                    /\ thread[t].token \in Tokens

TypeInv == TypeOK /\ HoldsPosted /\ HoldsSession

-----------------------------------------------------------------------------
LEMMA EventKinds ==
    ASSUME NEW e \in Event
    PROVE  /\ e.at \in 1..MaxTx
           /\ e.type \in StatusKinds => e.subject \in Subjects
           /\ e.type \notin StatusKinds => e.type \in RevocationKinds
           /\ e.type \in RevocationKinds => e.subject \in Sessions
           /\ e.type \in RevocationKinds => e.type = "session.revoked"
           /\ e.type \in RevocationKinds => e.type \notin StatusKinds
BY DEF Event, StatusKinds, AccountKinds, AppKinds, RevocationKinds, Subjects

LEMMA DefaultsTyped ==
    /\ Free \in Request /\ NoEndpoint \in Endpoint /\ Unknown \in Status
    /\ Free.step = "free"
BY AuthAssumption DEF Free, Request, NoEndpoint, Endpoint, Unknown, Status, None

LEMMA LoadedTyped ==
    ASSUME TypeOK, NEW e \in Posted
    PROVE  Loaded(e) \in Status
<1>1. CASE e.type \in StatusKinds
    BY <1>1, PushAssumption, EventKinds DEF Loaded, TypeOK
<1>2. CASE e.type \notin StatusKinds
    <2> DEFINE b == e.subject \in revoked
    <2>1. b \in BOOLEAN
        OBVIOUS
    <2>2. Loaded(e) = [Unknown EXCEPT !.known = b]
        BY <1>2 DEF Loaded
    <2> HIDE DEF b
    <2> QED
        BY <2>1, <2>2, DefaultsTyped DEF Status
<1> QED
    BY <1>1, <1>2

LEMMA WrittenTyped ==
    ASSUME TypeOK, NEW e \in Posted, e.type \in StatusKinds, NEW row \in Status
    PROVE  Written(e, row) \in Status
<1>1. e.at \in 0..MaxTx /\ e.subject \in Subjects /\ status[e.subject] \in Status
    BY PushAssumption, AuthAssumption, EventKinds DEF TypeOK
<1>2. Enables(e) \in BOOLEAN
    BY DEF Enables
<1> QED
    BY <1>1, <1>2 DEF Written, Status

LEMMA KeyTyped ==
    ASSUME NEW s \in Sessions, NEW d \in Devices
    PROVE  KeyOf(s, d) \in Keys
BY AuthAssumption DEF KeyOf, Keys

LEMMA BoundTyped ==
    ASSUME NEW t \in Threads, TypeOK, HoldsSession, Registering(t),
           NEW old \in Endpoint
    PROVE  Bound(thread[t], old) \in Endpoint
BY DEF Bound, TypeOK, HoldsSession, Registering, Endpoint, Request

LEMMA TypeInvStep == TypeInv /\ [Next]_vars => TypeInv'
<1> SUFFICES ASSUME TypeInv, [Next]_vars PROVE TypeInv'
    OBVIOUS
<1> USE DEF TypeInv, TypeOK, HoldsPosted, HoldsSession, InHand, Registering
<1>1. ASSUME NEW t \in Threads, NEW e \in Posted, ApplyBegin(t, e) PROVE TypeInv'
    <2>1. [Free EXCEPT !.step = "apply", !.event = e, !.status = Loaded(e)] \in Request
        BY DefaultsTyped, LoadedTyped DEF Request
    <2>2. [Free EXCEPT !.step = "apply", !.event = e, !.status = Loaded(e)].step = "apply"
          /\ [Free EXCEPT !.step = "apply", !.event = e, !.status = Loaded(e)].event = e
        BY DEF Free
    <2> QED
        BY <1>1, <2>1, <2>2 DEF ApplyBegin, pushVars
<1>2. ASSUME NEW t \in Threads, ApplyScope(t) PROVE TypeInv'
    <2>1. PICK off \in SUBSET Keys :
              thread' = [thread EXCEPT ![t].step = "commit", ![t].off = off]
        BY <1>2 DEF ApplyScope, Scope
    <2>2. [thread[t] EXCEPT !.step = "commit", !.off = off] \in Request
        BY DEF Request
    <2>3. thread' = [thread EXCEPT ![t] = [thread[t] EXCEPT !.step = "commit", !.off = off]]
        BY <2>1
    <2> QED
        BY <1>2, <2>2, <2>3 DEF ApplyScope, pushVars, Request
<1>3. ASSUME NEW t \in Threads, ApplyCommit(t) PROVE TypeInv'
    <2> DEFINE e == thread[t].event
    <2>1. e \in Posted /\ e \in Event /\ thread[t].status \in Status
        BY <1>3, PushAssumption DEF ApplyCommit, Request
    <2>2. seen' \in SUBSET Posted
        BY <1>3, <2>1 DEF ApplyCommit
    <2>3. status' \in [Subjects -> Status] /\ revoked' \in SUBSET Sessions
        BY <1>3, <2>1, WrittenTyped, EventKinds DEF ApplyCommit
    <2>4. endpoint' \in [Keys -> Endpoint]
        BY <1>3 DEF ApplyCommit, Endpoint
    <2>5. thread' = [thread EXCEPT ![t] = Free]
        BY <1>3 DEF ApplyCommit
    <2> QED
        BY <2>2, <2>3, <2>4, <2>5, DefaultsTyped
<1>4. ASSUME NEW t \in Threads, ApplyAborts(t) \/ RegisterAborts(t) PROVE TypeInv'
    BY <1>4, DefaultsTyped DEF ApplyAborts, RegisterAborts, pushVars
<1>5. ASSUME NEW t \in Threads, NEW s \in Sessions, NEW d \in Devices, NEW tok \in Tokens,
             RegisterCheck(t, s, d, tok)
      PROVE  TypeInv'
    <2> DEFINE r == [Free EXCEPT !.step = "checked", !.session = s, !.device = d,
                                 !.token = tok]
    <2>1. r \in Request
        BY DefaultsTyped DEF Request
    <2>2. r.step = "checked" /\ r.session = s /\ r.device = d /\ r.token = tok
        BY DEF Free
    <2>3. thread' = [thread EXCEPT ![t] = r]
        BY <1>5 DEF RegisterCheck
    <2> HIDE DEF r
    <2> QED
        BY <1>5, <2>1, <2>2, <2>3 DEF RegisterCheck, pushVars
<1>6. ASSUME NEW t \in Threads, RegisterLoad(t) PROVE TypeInv'
    <2> DEFINE key == KeyOf(thread[t].session, thread[t].device)
    <2>1. key \in Keys /\ endpoint[key] \in Endpoint
        BY <1>6, KeyTyped DEF RegisterLoad
    <2>2. PICK off \in SUBSET Keys :
              thread' = [thread EXCEPT ![t].step = "register", ![t].row = endpoint[key],
                                       ![t].off = off]
        BY <1>6 DEF RegisterLoad
    <2> DEFINE r == [thread[t] EXCEPT !.step = "register", !.row = endpoint[key], !.off = off]
    <2>3. r \in Request /\ r.step = "register" /\ r.session = thread[t].session
          /\ r.device = thread[t].device /\ r.token = thread[t].token
        BY <2>1 DEF Request
    <2>4. thread' = [thread EXCEPT ![t] = r]
        BY <2>2
    <2> HIDE DEF r
    <2> QED
        BY <1>6, <2>3, <2>4 DEF RegisterLoad, pushVars
<1>7. ASSUME NEW t \in Threads, RegisterCommit(t) PROVE TypeInv'
    <2>1. \A k \in Keys : Bound(thread[t], endpoint[k]) \in Endpoint
        BY <1>7, BoundTyped DEF RegisterCommit
    <2>2. endpoint' \in [Keys -> Endpoint]
        BY <1>7, <2>1 DEF RegisterCommit, Endpoint
    <2> QED
        BY <1>7, <2>2, DefaultsTyped DEF RegisterCommit
<1>8. ASSUME NEW s \in Sessions, NEW d \in Devices, RevokeDevice(s, d) PROVE TypeInv'
    <2>1. endpoint' \in [Keys -> Endpoint]
        BY <1>8, KeyTyped DEF RevokeDevice, Endpoint
    <2> QED
        BY <1>8, <2>1 DEF RevokeDevice
<1>9. CASE UNCHANGED vars
    BY <1>9 DEF vars
<1> QED
    BY <1>1, <1>2, <1>3, <1>4, <1>5, <1>6, <1>7, <1>8, <1>9 DEF Next, ThreadStep

LEMMA TypeInvInit == Init => TypeInv
BY DefaultsTyped DEF Init, TypeInv, TypeOK, HoldsPosted, HoldsSession, InHand, Registering

\* Every reachable state is well-typed, however many requests overlap.
THEOREM PushTypeCorrect == Spec => []TypeOK
<1>1. TypeInv => TypeOK
    BY DEF TypeInv
<1> QED
    BY <1>1, TypeInvInit, TypeInvStep, PTL DEF Spec

\* A session is refused exactly from the first committed session.revoked event
\* on, however many requests overlap: apply_auth_event loses no revocation.
THEOREM RevocationNeverLost == Spec => []RevocationSticks
<1>1. Init => RevocationSticks
    BY DEF Init, RevocationSticks
<1>2. TypeInv /\ RevocationSticks /\ [Next]_vars => RevocationSticks'
    <2> SUFFICES ASSUME TypeInv, RevocationSticks, [Next]_vars PROVE RevocationSticks'
        OBVIOUS
    <2>1. ASSUME NEW t \in Threads, ApplyCommit(t) PROVE RevocationSticks'
        <3> DEFINE e == thread[t].event
        <3>1. e \in Event
            BY <2>1, PushAssumption DEF ApplyCommit, TypeInv, HoldsPosted, InHand
        <3>2. seen' = seen \cup {e}
            BY <2>1 DEF ApplyCommit
        <3>3. e.type \in StatusKinds => revoked' = revoked
            BY <2>1 DEF ApplyCommit
        <3>4. e.type \notin StatusKinds => revoked' = revoked \cup {e.subject}
            BY <2>1 DEF ApplyCommit
        <3> HIDE DEF e
        <3>5. CASE e.type \in StatusKinds
            <4>1. e.type # "session.revoked" /\ revoked' = revoked
                BY <3>3, <3>5 DEF StatusKinds, AccountKinds, AppKinds
            <4> QED
                BY <3>2, <4>1 DEF RevocationSticks
        <3>6. CASE e.type \notin StatusKinds
            <4>1. e.type = "session.revoked" /\ revoked' = revoked \cup {e.subject}
                BY <3>1, <3>4, <3>6, EventKinds
            <4> QED
                BY <3>2, <4>1 DEF RevocationSticks
        <3> QED
            BY <3>5, <3>6
    <2>2. CASE UNCHANGED <<seen, revoked>>
        BY <2>2 DEF RevocationSticks
    <2>3. (\E t \in Threads : ApplyCommit(t)) \/ UNCHANGED <<seen, revoked>>
        BY DEF Next, ThreadStep, ApplyBegin, ApplyScope, ApplyAborts, RegisterCheck,
           RegisterLoad, RegisterCommit, RegisterAborts, RevokeDevice, pushVars, vars
    <2> QED
        BY <2>1, <2>2, <2>3
<1> QED
    BY <1>1, <1>2, TypeInvInit, TypeInvStep, PTL DEF Spec

-----------------------------------------------------------------------------
(* Requests that do not overlap.                                           *)

\* What the request of thread t has read is still what is committed: the event is
\* new and the status row is the loaded one,
StatusRead(t) == InHand(t) =>
    /\ thread[t].event \notin seen
    /\ thread[t].event.type \in StatusKinds
          => thread[t].status = status[thread[t].event.subject]

\* the endpoints to switch off are all the active ones of the event's scope,
SwitchesOff(e, row) == e.type \in RevocationKinds \/ (Newer(e, row) /\ ~Enables(e))
ScopeRead(t) ==
    thread[t].step = "commit" /\ SwitchesOff(thread[t].event, thread[t].status) =>
        \A k \in Scope(thread[t].event) : endpoint[k].active => k \in thread[t].off

\* the session of a registration is live,
SessionChecked(t) == Registering(t) => Live(thread[t].session)

\* its endpoint is the loaded one (a DELETE may have switched it off since), and the
\* other active endpoints of its token are the loaded ones.
RegisterRead(t) == thread[t].step = "register" =>
    LET r == thread[t]
        key == KeyOf(r.session, r.device)
    IN  /\ r.row.exists = endpoint[key].exists
        /\ r.row.session = endpoint[key].session /\ r.row.token = endpoint[key].token
        /\ \A k \in Keys \ {key} : /\ k[2] = key[2] /\ endpoint[k].active
                                   /\ endpoint[k].token = r.token
                                   => k \in r.off

RequestsFresh ==
    \A t \in Threads : StatusRead(t) /\ ScopeRead(t) /\ SessionChecked(t) /\ RegisterRead(t)

\* The status row is that of the newest event, and an unknown subject counts as on.
StatusOfEvent ==
    \A x \in Subjects : IF status[x].known THEN \E e \in StatusEvents(x) : e.at = status[x].at
                                           ELSE status[x] = Unknown

\* An endpoint belongs to a session of its account and its product.
EndpointsSound ==
    \A k \in Keys : /\ endpoint[k].active => endpoint[k].exists
                    /\ endpoint[k].exists => /\ endpoint[k].session \in Sessions
                                             /\ Owner[endpoint[k].session] = k[1]
                                             /\ Client[endpoint[k].session] = k[2]

StatusInv == NewestWins /\ StatusOfEvent
RegistryInv == EndpointsSound /\ ActiveEndpointIsLive /\ OneBindingPerToken
SerialInv == TypeInv /\ RequestsFresh /\ StatusInv /\ RegistryInv

\* The other threads are free while thread t takes a step.
LEMMA Others ==
    ASSUME TypeInv, Alone, Alone', NEW t \in Threads, ThreadStep(t)
    PROVE  \A u \in Threads \ {t} : thread'[u] = Free
<1>1. \A u \in Threads \ {t} : thread'[u] = thread[u]
    BY DEF ThreadStep, ApplyBegin, ApplyScope, ApplyCommit, ApplyAborts, RegisterCheck,
           RegisterLoad, RegisterCommit, RegisterAborts, TypeInv, TypeOK
<1>2. CASE thread[t].step # "free"
    BY <1>1, <1>2, DefaultsTyped DEF Alone
<1>3. CASE thread[t].step = "free"
    <2>1. thread'[t].step \in {"apply", "checked"}
        BY <1>3 DEF ThreadStep, ApplyBegin, ApplyScope, ApplyCommit, ApplyAborts, RegisterCheck,
           RegisterLoad, RegisterCommit, RegisterAborts, Free, TypeInv, TypeOK
    <2> QED
        BY <2>1, DefaultsTyped DEF Alone
<1> QED
    BY <1>2, <1>3

LEMMA FreeIsFresh ==
    ASSUME NEW t \in Threads, thread[t] = Free
    PROVE  StatusRead(t) /\ ScopeRead(t) /\ SessionChecked(t) /\ RegisterRead(t)
BY DefaultsTyped DEF StatusRead, ScopeRead, SessionChecked, RegisterRead, InHand, Registering

\* Only thread t has to be looked at after a step of t.
LEMMA FreshStep ==
    ASSUME TypeInv, Alone, Alone', NEW t \in Threads, ThreadStep(t),
           (StatusRead(t) /\ ScopeRead(t) /\ SessionChecked(t) /\ RegisterRead(t))'
    PROVE  RequestsFresh'
<1>1. ASSUME NEW u \in Threads, u # t
      PROVE  (StatusRead(u) /\ ScopeRead(u) /\ SessionChecked(u) /\ RegisterRead(u))'
    <2>1. thread'[u] = Free
        BY <1>1, Others
    <2> QED
        BY <2>1, DefaultsTyped
        DEF StatusRead, ScopeRead, SessionChecked, RegisterRead, InHand, Registering
<1> QED
    BY <1>1 DEF RequestsFresh

\* Steps that only read: the tables stay as they are.
LEMMA ReadStep ==
    ASSUME SerialInv, TypeInv', UNCHANGED pushVars, RequestsFresh'
    PROVE  SerialInv'
BY DEF SerialInv, StatusInv, RegistryInv, NewestWins, StatusOfEvent, StatusEvents, SaysNewest,
       EndpointsSound, ActiveEndpointIsLive, OneBindingPerToken, Live, pushVars

LEMMA ApplyBeginKeeps ==
    ASSUME SerialInv, Alone, Alone', TypeInv', NEW t \in Threads, NEW e \in Posted, ApplyBegin(t, e)
    PROVE  SerialInv'
<1>1. ThreadStep(t) /\ UNCHANGED pushVars /\ e \notin seen
    BY DEF ThreadStep, ApplyBegin
<1>2. /\ thread'[t].event = e /\ thread'[t].step = "apply" /\ thread'[t].status = Loaded(e)
    BY DEF ApplyBegin, Free, SerialInv, TypeInv, TypeOK
<1>3. (StatusRead(t) /\ ScopeRead(t) /\ SessionChecked(t) /\ RegisterRead(t))'
    BY <1>1, <1>2 DEF StatusRead, ScopeRead, SessionChecked, RegisterRead, InHand, Registering,
       Loaded, pushVars
<1> QED
    BY <1>1, <1>3, FreshStep, ReadStep DEF SerialInv

LEMMA ApplyScopeKeeps ==
    ASSUME SerialInv, Alone, Alone', TypeInv', NEW t \in Threads, ApplyScope(t)
    PROVE  SerialInv'
<1> DEFINE e == thread[t].event
<1>1. ThreadStep(t) /\ UNCHANGED pushVars /\ InHand(t)
    BY DEF ThreadStep, ApplyScope, InHand
<1> DEFINE on == {k \in Scope(e) : endpoint[k].active}
           off == IF SwitchesOff(e, thread[t].status) THEN on ELSE {}
<1>0. thread' = [thread EXCEPT ![t].step = "commit", ![t].off = off]
    BY DEF ApplyScope, SwitchesOff
<1> HIDE DEF on
<1>2. /\ thread'[t].event = e /\ thread'[t].step = "commit" /\ thread'[t].status = thread[t].status
      /\ SwitchesOff(e, thread[t].status) => thread'[t].off = on
    BY <1>0 DEF SerialInv, TypeInv, TypeOK, Request
<1> USE DEF on
<1>3. StatusRead(t)'
    BY <1>1, <1>2 DEF StatusRead, InHand, pushVars, SerialInv, RequestsFresh
<1>4. ScopeRead(t)'
    <2>1. Scope(thread[t].event)' = Scope(thread'[t].event) /\ endpoint' = endpoint
        BY <1>1 DEF Scope, pushVars
    <2> QED
        BY <1>1, <1>2, <2>1 DEF ScopeRead, SwitchesOff, Scope, Newer, Enables
<1>5. SessionChecked(t)' /\ RegisterRead(t)'
    BY <1>2 DEF SessionChecked, RegisterRead, Registering
<1> QED
    BY <1>1, <1>3, <1>4, <1>5, FreshStep, ReadStep DEF SerialInv

LEMMA RegisterCheckKeeps ==
    ASSUME SerialInv, Alone, Alone', TypeInv', NEW t \in Threads,
           NEW s \in Sessions, NEW d \in Devices, NEW tok \in Tokens, RegisterCheck(t, s, d, tok)
    PROVE  SerialInv'
<1>1. ThreadStep(t) /\ UNCHANGED pushVars /\ Live(s)
    BY DEF ThreadStep, RegisterCheck
<1>2. thread'[t].step = "checked" /\ thread'[t].session = s
    BY DEF RegisterCheck, Free, SerialInv, TypeInv, TypeOK
<1>3. (StatusRead(t) /\ ScopeRead(t) /\ SessionChecked(t) /\ RegisterRead(t))'
    BY <1>1, <1>2 DEF StatusRead, ScopeRead, SessionChecked, RegisterRead, InHand, Registering,
       Live, pushVars
<1> QED
    BY <1>1, <1>3, FreshStep, ReadStep DEF SerialInv

LEMMA RegisterLoadKeeps ==
    ASSUME SerialInv, Alone, Alone', TypeInv', NEW t \in Threads, RegisterLoad(t)
    PROVE  SerialInv'
<1> DEFINE key == KeyOf(thread[t].session, thread[t].device)
           twins == {k \in Keys \ {key} : /\ k[2] = key[2]
                                          /\ endpoint[k].active
                                          /\ endpoint[k].token = thread[t].token}
<1>1. ThreadStep(t) /\ UNCHANGED pushVars /\ Registering(t)
    BY DEF ThreadStep, RegisterLoad, Registering
<1>2. /\ thread'[t].step = "register" /\ thread'[t].session = thread[t].session
      /\ thread'[t].device = thread[t].device /\ thread'[t].token = thread[t].token
      /\ thread'[t].row = endpoint[key] /\ thread'[t].off = twins
    BY DEF RegisterLoad, SerialInv, TypeInv, TypeOK, Request
<1>3. StatusRead(t)' /\ ScopeRead(t)'
    BY <1>2 DEF StatusRead, ScopeRead, InHand
<1>4. SessionChecked(t)'
    BY <1>1, <1>2 DEF SessionChecked, Registering, Live, pushVars, SerialInv, RequestsFresh
<1>5. RegisterRead(t)'
    BY <1>1, <1>2 DEF RegisterRead, KeyOf, pushVars
<1> QED
    BY <1>1, <1>3, <1>4, <1>5, FreshStep, ReadStep DEF SerialInv

LEMMA AbortKeeps ==
    ASSUME SerialInv, Alone, Alone', TypeInv', NEW t \in Threads, ApplyAborts(t) \/ RegisterAborts(t)
    PROVE  SerialInv'
<1>1. ThreadStep(t) /\ UNCHANGED pushVars /\ thread'[t] = Free
    BY DEF ThreadStep, ApplyAborts, RegisterAborts, SerialInv, TypeInv, TypeOK
<1>2. (StatusRead(t) /\ ScopeRead(t) /\ SessionChecked(t) /\ RegisterRead(t))'
    BY <1>1, DefaultsTyped
    DEF StatusRead, ScopeRead, SessionChecked, RegisterRead, InHand, Registering
<1> QED
    BY <1>1, <1>2, FreshStep, ReadStep DEF SerialInv

\* No event of the same subject and the same transaction as one in hand was committed.
EventsOnce ==
    \A t \in Threads : InHand(t) =>
        \A f \in seen : /\ f.type \in StatusKinds /\ thread[t].event.type \in StatusKinds
                        /\ f.at = thread[t].event.at /\ f.subject = thread[t].event.subject
                        => f = thread[t].event

\* Writing a status row keeps the newest event of its subject in charge.
LEMMA WrittenNewest ==
    ASSUME TypeOK, StatusInv, NEW e \in Posted, e \notin seen,
           e.type \in StatusKinds, NEW x \in Subjects, x = e.subject,
           \A f \in seen : f.type \in StatusKinds /\ f.at = e.at /\ f.subject = e.subject => f = e
    PROVE  /\ Written(e, status[x]).known
           /\ SaysNewest(Written(e, status[x]), StatusEvents(x) \cup {e})
           /\ \E f \in StatusEvents(x) \cup {e} : f.at = Written(e, status[x]).at
<1> DEFINE row == Written(e, status[x])
<1>1. e \in Event /\ e.at \in Nat /\ status[x] \in Status /\ Enables(e) \in BOOLEAN
    BY PushAssumption, AuthAssumption, EventKinds DEF TypeOK, Enables
<1>2. \A f \in StatusEvents(x) : /\ f \in Posted /\ f.at \in Nat /\ f.at # e.at
                                 /\ f.at <= status[x].at
                                 /\ f.at = status[x].at => (status[x].active <=> Enables(f))
    BY PushAssumption, AuthAssumption, EventKinds
    DEF StatusEvents, TypeOK, StatusInv, NewestWins, SaysNewest
<1>3. StatusEvents(x) # {} <=> status[x].known
    BY DEF StatusInv, NewestWins
<1>4. CASE ~status[x].known
    BY <1>1, <1>3, <1>4 DEF Written, SaysNewest
<1>5. CASE status[x].known /\ e.at >= status[x].at
    <2>1. row.known /\ row.at = e.at /\ (row.active <=> Enables(e))
        BY <1>1, <1>5 DEF Written, Newer, Status
    <2> HIDE DEF row
    <2>2. SaysNewest(row, StatusEvents(x) \cup {e})
        BY <1>1, <1>2, <1>5, <2>1 DEF Status, SaysNewest
    <2> QED
        BY <2>1, <2>2 DEF row
<1>6. CASE status[x].known /\ ~(e.at >= status[x].at)
    <2>1. row = status[x]
        BY <1>6 DEF Written, Newer
    <2> HIDE DEF row
    <2>2. SaysNewest(row, StatusEvents(x) \cup {e})
        BY <1>1, <1>2, <1>6, <2>1 DEF Status, SaysNewest
    <2>3. \E f \in StatusEvents(x) : f.at = row.at
        BY <1>6, <2>1 DEF StatusInv, StatusOfEvent
    <2> QED
        BY <1>6, <2>1, <2>2, <2>3 DEF row
<1> QED
    BY <1>4, <1>5, <1>6

\* A status row that is on stays on unless its event switches endpoints off.
LEMMA WrittenOn ==
    ASSUME TypeOK, NEW e \in Posted, e.type \in StatusKinds, NEW x \in Subjects, x = e.subject,
           status[x].active, ~SwitchesOff(e, status[x])
    PROVE  Written(e, status[x]).active
<1>1. status[x] \in Status /\ Enables(e) \in BOOLEAN
    BY DEF TypeOK, Enables
<1>2. CASE ~Newer(e, status[x])
    BY <1>1, <1>2 DEF Written, Newer
<1>3. CASE Newer(e, status[x])
    <2>1. Enables(e)
        BY <1>3 DEF SwitchesOff
    <2> QED
        BY <1>1, <1>3, <2>1 DEF Written, Status
<1> QED
    BY <1>2, <1>3

LEMMA ApplyCommitKeeps ==
    ASSUME SerialInv, EventsOnce, Alone, Alone', TypeInv', NEW t \in Threads, ApplyCommit(t)
    PROVE  SerialInv'
<1> USE DEF SerialInv
<1>0. PICK e \in Posted : e = thread[t].event
    BY DEF ApplyCommit, TypeInv, HoldsPosted, InHand
<1>1. /\ e \in Event /\ e \notin seen /\ InHand(t) /\ thread[t].step = "commit" /\ ThreadStep(t)
      /\ e.type \in StatusKinds => thread[t].status = status[e.subject]
    BY <1>0, PushAssumption DEF ApplyCommit, InHand, RequestsFresh, StatusRead, ThreadStep
<1>2. seen' = seen \cup {e} /\ thread'[t] = Free
    BY <1>0 DEF ApplyCommit, TypeInv, TypeOK
<1>3. RequestsFresh'
    <2>1. (StatusRead(t) /\ ScopeRead(t) /\ SessionChecked(t) /\ RegisterRead(t))'
        BY <1>2, DefaultsTyped
        DEF StatusRead, ScopeRead, SessionChecked, RegisterRead, InHand, Registering
    <2> QED
        BY <1>1, <2>1, FreshStep
<1>4. /\ e.type \notin StatusKinds => status' = status /\ revoked' = revoked \cup {e.subject}
      /\ e.type \in StatusKinds =>
           status' = [status EXCEPT ![e.subject] = Written(e, status[e.subject])] /\ revoked' = revoked
    BY <1>0, <1>1 DEF ApplyCommit
<1>5. e.type \in StatusKinds => e.subject \in Subjects
    BY <1>1, EventKinds
<1>6. StatusInv'
    <2> SUFFICES ASSUME NEW x \in Subjects
                 PROVE  /\ (status[x].known <=> StatusEvents(x) # {})'
                        /\ SaysNewest(status[x], StatusEvents(x))'
                        /\ IF status'[x].known THEN \E f \in StatusEvents(x)' : f.at = status'[x].at
                                               ELSE status'[x] = Unknown
        BY DEF StatusInv, NewestWins, StatusOfEvent
    <2>1. CASE e.type \notin StatusKinds \/ x # e.subject
        <3>1. status'[x] = status[x]
            BY <1>4, <1>5, <2>1 DEF TypeInv, TypeOK
        <3>2. StatusEvents(x)' = StatusEvents(x)
            BY <1>2, <2>1 DEF StatusEvents
        <3> QED
            BY <3>1, <3>2 DEF StatusInv, NewestWins, StatusOfEvent, SaysNewest, Enables
    <2>2. CASE e.type \in StatusKinds /\ x = e.subject
        <3>1. status'[x] = Written(e, status[x])
            BY <1>4, <2>2 DEF TypeInv, TypeOK
        <3>2. StatusEvents(x)' = StatusEvents(x) \cup {e}
            BY <1>2, <2>2 DEF StatusEvents
        <3>3. \A f \in seen : f.type \in StatusKinds /\ f.at = e.at /\ f.subject = e.subject => f = e
            BY <1>0, <1>1, <2>2 DEF EventsOnce
        <3>4. /\ Written(e, status[x]).known
              /\ SaysNewest(Written(e, status[x]), StatusEvents(x) \cup {e})
              /\ \E f \in StatusEvents(x) \cup {e} : f.at = Written(e, status[x]).at
            BY <1>1, <2>2, <3>3, WrittenNewest DEF TypeInv
        <3> QED
            BY <3>1, <3>2, <3>4 DEF SaysNewest, Enables
    <2> QED
        BY <2>1, <2>2
<1>7. ASSUME NEW k \in Keys
      PROVE  /\ endpoint'[k].exists = endpoint[k].exists
             /\ endpoint'[k].session = endpoint[k].session
             /\ endpoint'[k].token = endpoint[k].token
             /\ endpoint'[k].active <=> endpoint[k].active /\ k \notin thread[t].off
    <2>1. endpoint[k] \in Endpoint
        BY DEF TypeInv, TypeOK
    <2>2. endpoint'[k] = [endpoint[k] EXCEPT !.active = endpoint[k].active /\ k \notin thread[t].off]
        BY DEF ApplyCommit
    <2> QED
        BY <2>1, <2>2 DEF Endpoint
<1>8. EndpointsSound' /\ OneBindingPerToken'
    <2>1. EndpointsSound'
        BY <1>7 DEF RegistryInv, EndpointsSound
    <2>2. OneBindingPerToken'
        BY <1>7 DEF RegistryInv, OneBindingPerToken
    <2> QED
        BY <2>1, <2>2
<1>9. ActiveEndpointIsLive'
    <2> SUFFICES ASSUME NEW k \in Keys, endpoint'[k].active
                 PROVE  Live(endpoint[k].session)'
        BY DEF ActiveEndpointIsLive
    <2> DEFINE s == endpoint[k].session
    <2>1. /\ endpoint[k].active /\ k \notin thread[t].off /\ endpoint[k].exists
          /\ s \in Sessions /\ Owner[s] = k[1] /\ Client[s] = k[2] /\ Live(s)
          /\ endpoint'[k].session = s
        BY <1>7 DEF RegistryInv, EndpointsSound, ActiveEndpointIsLive
    <2>2. SwitchesOff(e, thread[t].status) => e.subject \notin {s, k[1], k[2]}
        BY <1>0, <1>1, <2>1 DEF RequestsFresh, ScopeRead, Scope
    <2>3. Owner[s] \in Subjects /\ Client[s] \in Subjects
        BY <2>1, AuthAssumption DEF Subjects
    <2>4. CASE e.type \notin StatusKinds
        <3>1. SwitchesOff(e, thread[t].status)
            BY <1>1, <2>4, EventKinds DEF SwitchesOff
        <3>2. s \notin revoked' /\ status' = status
            BY <1>4, <2>1, <2>2, <2>4, <3>1 DEF Live
        <3> QED
            BY <2>1, <3>2 DEF Live
    <2>5. CASE e.type \in StatusKinds
        <3>1. ASSUME NEW x \in Subjects, x \in {k[1], k[2]}, status[x].active
              PROVE  status'[x].active
            <4>1. CASE x # e.subject
                BY <1>4, <1>5, <2>5, <3>1, <4>1 DEF TypeInv, TypeOK
            <4>2. CASE x = e.subject
                <5>1. ~SwitchesOff(e, status[x])
                    BY <1>1, <2>2, <2>5, <3>1, <4>2
                <5>2. status'[x] = Written(e, status[x])
                    BY <1>4, <2>5, <4>2 DEF TypeInv, TypeOK
                <5> QED
                    BY <2>5, <3>1, <4>2, <5>1, <5>2, WrittenOn DEF TypeInv
            <4> QED
                BY <4>1, <4>2
        <3>2. revoked' = revoked
            BY <1>4, <2>5
        <3>3. status'[Owner[s]].active /\ status'[Client[s]].active
            BY <2>1, <2>3, <3>1 DEF Live
        <3> QED
            BY <2>1, <3>2, <3>3 DEF Live
    <2> QED
        BY <2>4, <2>5
<1> QED
    BY <1>3, <1>6, <1>8, <1>9 DEF RegistryInv

\* The endpoint of a registration that read it fresh.
LEMMA BoundFresh ==
    ASSUME NEW r, NEW old \in Endpoint, r.row.exists = old.exists,
           r.row.session = old.session, r.row.token = old.token,
           r.row.exists \in BOOLEAN
    PROVE  Bound(r, old).exists /\ Bound(r, old).session = r.session /\ Bound(r, old).token = r.token
<1>1. CASE ~r.row.exists
    BY <1>1 DEF Bound
<1>2. CASE r.row.exists
    BY <1>2 DEF Bound, Endpoint
<1> QED
    BY <1>1, <1>2

LEMMA RegisterCommitKeeps ==
    ASSUME SerialInv, Alone, Alone', TypeInv', NEW t \in Threads, RegisterCommit(t)
    PROVE  SerialInv'
<1> USE DEF SerialInv
<1> DEFINE r == thread[t]
           key == KeyOf(r.session, r.device)
<1>1. /\ ThreadStep(t) /\ thread'[t] = Free /\ UNCHANGED <<seen, status, revoked>>
      /\ r.step = "register" /\ Registering(t)
    BY DEF ThreadStep, RegisterCommit, Registering, TypeInv, TypeOK
<1>2. /\ r.session \in Sessions /\ r.device \in Devices /\ r.token \in Tokens /\ Live(r.session)
      /\ r \in Request
    BY <1>1 DEF TypeInv, TypeOK, HoldsSession, RequestsFresh, SessionChecked
<1>3. /\ key \in Keys /\ key[1] = Owner[r.session] /\ key[2] = Client[r.session]
    BY <1>2, KeyTyped DEF KeyOf
<1>4. /\ r.row.exists = endpoint[key].exists /\ r.row.session = endpoint[key].session
      /\ r.row.token = endpoint[key].token
      /\ \A k \in Keys \ {key} :
            k[2] = key[2] /\ endpoint[k].active /\ endpoint[k].token = r.token => k \in r.off
    BY <1>1 DEF RequestsFresh, RegisterRead
<1>5. endpoint'[key].exists /\ endpoint'[key].session = r.session /\ endpoint'[key].token = r.token
    <2>1. endpoint[key] \in Endpoint /\ r.row.exists \in BOOLEAN
        BY <1>2, <1>3 DEF TypeInv, TypeOK, Request, Endpoint
    <2>2. endpoint'[key] = Bound(r, endpoint[key])
        BY <1>3 DEF RegisterCommit
    <2> HIDE DEF r, key
    <2> QED
        BY <1>4, <2>1, <2>2, BoundFresh
<1>6. ASSUME NEW k \in Keys, k # key
      PROVE  /\ endpoint'[k].exists = endpoint[k].exists
             /\ endpoint'[k].session = endpoint[k].session
             /\ endpoint'[k].token = endpoint[k].token
             /\ endpoint'[k].active <=> endpoint[k].active /\ k \notin r.off
    <2>1. endpoint[k] \in Endpoint
        BY DEF TypeInv, TypeOK
    <2>2. endpoint'[k] = [endpoint[k] EXCEPT !.active = endpoint[k].active /\ k \notin r.off]
        BY <1>6 DEF RegisterCommit
    <2> QED
        BY <2>1, <2>2 DEF Endpoint
<1>7. RequestsFresh'
    <2>1. (StatusRead(t) /\ ScopeRead(t) /\ SessionChecked(t) /\ RegisterRead(t))'
        BY <1>1, DefaultsTyped
        DEF StatusRead, ScopeRead, SessionChecked, RegisterRead, InHand, Registering
    <2> QED
        BY <1>1, <2>1, FreshStep
<1>8. StatusInv'
    BY <1>1 DEF StatusInv, NewestWins, StatusOfEvent, StatusEvents, SaysNewest
<1> HIDE DEF r, key
<1>9. EndpointsSound'
    BY <1>2, <1>3, <1>5, <1>6 DEF RegistryInv, EndpointsSound
<1>10. ActiveEndpointIsLive'
    <2> SUFFICES ASSUME NEW k \in Keys, endpoint'[k].active
                 PROVE  Live(endpoint[k].session)'
        BY DEF ActiveEndpointIsLive
    <2>2. CASE k = key
        BY <1>1, <1>2, <1>5, <2>2 DEF Live
    <2>3. CASE k # key
        BY <1>1, <1>6, <2>3 DEF Live, RegistryInv, ActiveEndpointIsLive
    <2> QED
        BY <2>2, <2>3
<1>11. OneBindingPerToken'
    <2> SUFFICES ASSUME NEW k \in Keys, NEW l \in Keys, endpoint'[k].active, endpoint'[l].active,
                        endpoint'[k].token = endpoint'[l].token, k[2] = l[2]
                 PROVE  k = l
        BY DEF OneBindingPerToken
    <2>1. CASE k # key /\ l # key
        BY <1>6, <2>1 DEF RegistryInv, OneBindingPerToken
    <2>2. CASE k = key /\ l # key
        BY <1>4, <1>5, <1>6, <2>2
    <2>3. CASE k # key /\ l = key
        BY <1>4, <1>5, <1>6, <2>3
    <2> QED
        BY <2>1, <2>2, <2>3
<1> QED
    BY <1>7, <1>8, <1>9, <1>10, <1>11 DEF RegistryInv

LEMMA RevokeDeviceKeeps ==
    ASSUME SerialInv, TypeInv', NEW s \in Sessions, NEW d \in Devices, RevokeDevice(s, d)
    PROVE  SerialInv'
<1> USE DEF SerialInv
<1> DEFINE key == KeyOf(s, d)
<1>1. UNCHANGED <<seen, status, revoked, thread>> /\ key \in Keys
    BY KeyTyped DEF RevokeDevice
<1>2. ASSUME NEW k \in Keys
      PROVE  /\ endpoint'[k].exists = endpoint[k].exists
             /\ endpoint'[k].session = endpoint[k].session
             /\ endpoint'[k].token = endpoint[k].token
             /\ endpoint'[k].active => endpoint[k].active
    <2>1. endpoint[k] \in Endpoint /\ endpoint' = [endpoint EXCEPT ![key].active = FALSE]
          /\ endpoint \in [Keys -> Endpoint]
        BY DEF TypeInv, TypeOK, RevokeDevice
    <2> HIDE DEF key
    <2>2. CASE k = key
        BY <1>1, <2>1, <2>2 DEF Endpoint
    <2>3. CASE k # key
        BY <1>1, <2>1, <2>3
    <2> QED
        BY <2>2, <2>3
<1> HIDE DEF key
<1>3. RequestsFresh'
    <2> SUFFICES ASSUME NEW t \in Threads
                 PROVE  (StatusRead(t) /\ ScopeRead(t) /\ SessionChecked(t) /\ RegisterRead(t))'
        BY DEF RequestsFresh
    <2>1. StatusRead(t) /\ ScopeRead(t) /\ SessionChecked(t) /\ RegisterRead(t)
        BY DEF RequestsFresh
    <2>2. StatusRead(t)' /\ SessionChecked(t)'
        BY <1>1, <2>1 DEF StatusRead, SessionChecked, InHand, Registering, Live
    <2>3. ScopeRead(t)'
        BY <1>1, <1>2, <2>1 DEF ScopeRead, SwitchesOff, Scope, Newer, Enables
    <2>4. RegisterRead(t)'
        <3>1. CASE thread[t].step # "register"
            BY <1>1, <3>1 DEF RegisterRead
        <3>2. CASE thread[t].step = "register"
            <4>1. KeyOf(thread[t].session, thread[t].device) \in Keys
                BY <3>2, KeyTyped DEF TypeInv, HoldsSession, Registering
            <4> QED
                BY <1>1, <1>2, <2>1, <4>1 DEF RegisterRead, KeyOf
        <3> QED
            BY <3>1, <3>2
    <2> QED
        BY <2>2, <2>3, <2>4
<1>4. StatusInv'
    BY <1>1 DEF StatusInv, NewestWins, StatusOfEvent, StatusEvents, SaysNewest
<1>5. EndpointsSound'
    BY <1>2 DEF RegistryInv, EndpointsSound
<1>6. ActiveEndpointIsLive'
    BY <1>1, <1>2 DEF RegistryInv, ActiveEndpointIsLive, Live
<1>7. OneBindingPerToken'
    BY <1>2 DEF RegistryInv, OneBindingPerToken
<1> QED
    BY <1>3, <1>4, <1>5, <1>6, <1>7 DEF RegistryInv

LEMMA SerialInvInit == Init => SerialInv
<1> SUFFICES ASSUME Init PROVE SerialInv
    OBVIOUS
<1>1. TypeInv
    BY TypeInvInit
<1>2. RequestsFresh
    BY FreeIsFresh DEF Init, RequestsFresh
<1>3. StatusInv
    BY DEF Init, StatusInv, NewestWins, StatusOfEvent, StatusEvents, SaysNewest, Unknown
<1>4. RegistryInv
    BY DEF Init, RegistryInv, EndpointsSound, ActiveEndpointIsLive, OneBindingPerToken, NoEndpoint
<1> QED
    BY <1>1, <1>2, <1>3, <1>4 DEF SerialInv

\* The inductive step, for a step before and after which one request is under way.
LEMMA SerialInvStep ==
    ASSUME SerialInv, EventsOnce, Alone, Alone', [Next]_vars
    PROVE  SerialInv'
<1>1. TypeInv'
    BY TypeInvStep DEF SerialInv
<1>2. ASSUME NEW t \in Threads, ThreadStep(t) PROVE SerialInv'
    BY <1>1, <1>2, ApplyBeginKeeps, ApplyScopeKeeps, ApplyCommitKeeps, RegisterCheckKeeps,
       RegisterLoadKeeps, RegisterCommitKeeps, AbortKeeps DEF ThreadStep
<1>3. ASSUME NEW s \in Sessions, NEW d \in Devices, RevokeDevice(s, d) PROVE SerialInv'
    BY <1>1, <1>3, RevokeDeviceKeeps
<1>4. CASE UNCHANGED vars
    <2>1. UNCHANGED pushVars /\ UNCHANGED thread
        BY <1>4 DEF vars, pushVars
    <2>2. RequestsFresh'
        BY <2>1 DEF SerialInv, RequestsFresh, StatusRead, ScopeRead, SessionChecked, RegisterRead,
           InHand, Registering, Live, Scope, pushVars
    <2> QED
        BY <1>1, <2>1, <2>2, ReadStep
<1> QED
    BY <1>2, <1>3, <1>4 DEF Next

\* The invariant as long as no two requests overlapped.
UnlessOverlapped == TypeInv /\ (~overlapped => SerialInv /\ Alone)

LEMMA UnlessOverlappedHolds ==
    ASSUME PostedOnce PROVE SerialSpec => []UnlessOverlapped
<1>1. SerialInit => UnlessOverlapped
    BY SerialInvInit, TypeInvInit DEF SerialInit, UnlessOverlapped, Alone, Init
<1>2. UnlessOverlapped /\ [SerialNext]_<<vars, overlapped>> => UnlessOverlapped'
    <2> SUFFICES ASSUME UnlessOverlapped, [SerialNext]_<<vars, overlapped>>
                 PROVE  UnlessOverlapped'
        OBVIOUS
    <2>1. [Next]_vars /\ TypeInv'
        BY TypeInvStep DEF UnlessOverlapped, SerialNext
    <2>2. CASE overlapped'
        BY <2>1, <2>2 DEF UnlessOverlapped
    <2>3. CASE ~overlapped'
        <3>1. ~overlapped /\ Alone'
            <4>1. CASE SerialNext
                BY <2>3, <4>1, Zenon DEF SerialNext
            <4>2. CASE UNCHANGED <<vars, overlapped>>
                <5>1. ~overlapped /\ thread' = thread
                    BY <2>3, <4>2 DEF vars
                <5> QED
                    BY <5>1 DEF UnlessOverlapped, Alone
            <4> QED
                BY <4>1, <4>2
        <3>2. EventsOnce
            BY DEF PostedOnce, EventsOnce, UnlessOverlapped, TypeInv, TypeOK, HoldsPosted
        <3> QED
            BY <2>1, <3>1, <3>2, SerialInvStep DEF UnlessOverlapped
    <2> QED
        BY <2>2, <2>3
<1> QED
    BY <1>1, <1>2, PTL DEF SerialSpec

\* As long as requests come one at a time, the newest committed event of every account
\* and application decides Push's view of it, in whatever order the events arrive and
\* however often they are repeated (apply_auth_event).
THEOREM SerialStatusSound ==
    ASSUME PostedOnce PROVE SerialSpec => []SerialNewestWins
<1>1. UnlessOverlapped => SerialNewestWins
    BY DEF UnlessOverlapped, SerialNewestWins, SerialInv, StatusInv
<1> QED
    BY <1>1, UnlessOverlappedHolds, PTL

\* As long as requests come one at a time, an active endpoint belongs to a live session
\* and a provider token to one installation of a product (apply_auth_event,
\* register_device, DELETE /v1/devices).
THEOREM SerialRegistry ==
    ASSUME PostedOnce PROVE SerialSpec => []SerialRegistrySound
<1>1. UnlessOverlapped => SerialRegistrySound
    BY DEF UnlessOverlapped, SerialRegistrySound, SerialInv, RegistryInv
<1> QED
    BY <1>1, UnlessOverlappedHolds, PTL
=============================================================================
