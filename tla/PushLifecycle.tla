--------------------------- MODULE PushLifecycle ----------------------------
(***************************************************************************)
(* !thute Push: what it knows of Auth's accounts, applications and         *)
(* sessions, and the device endpoints bound to them.  Lifecycle events     *)
(* arrive at least once and in any order; requests run on the threads of   *)
(* the API server, each in a READ COMMITTED transaction whose reads and    *)
(* commit are separate steps.  The ORM writes only the columns whose value *)
(* differs from the one it loaded; this matters when two requests overlap. *)
(*                                                                         *)
(* Abstractions.  A provider token is a member of Tokens (its hash and its *)
(* ciphertext are one-to-one with it); platform, provider and last_seen_at *)
(* of an endpoint are left out.  A read that is followed by no write (list *)
(* devices, a refused or deduplicated request) is no step.                 *)
(***************************************************************************)
EXTENDS LifecycleEvents

CONSTANTS Posted,     \* the events Auth has written, posted any number of times
          Devices,    \* device keys of app installations
          Tokens,     \* provider registration tokens
          Threads     \* request threads of the API server

ASSUME PushAssumption == Posted \subseteq Event

VARIABLES seen,       \* auth_lifecycle_events: events committed
          status,     \* auth_user_states and application_states
          revoked,    \* revoked_auth_sessions
          endpoint,   \* push_endpoints by (user, application, device key)
          thread      \* per thread: the request in hand and what it has read

pushVars == <<seen, status, revoked, endpoint>>
vars == <<seen, status, revoked, endpoint, thread>>

Subjects == Users \cup Apps
StatusKinds == AccountKinds \cup AppKinds
Keys == Users \X Apps \X Devices
None == "none"

\* No row yet: Push treats an account or application it never heard of as on.
Unknown == [known |-> FALSE, active |-> TRUE, at |-> 0]
Status == [known : BOOLEAN, active : BOOLEAN, at : 0..MaxTx]

NoEndpoint == [exists |-> FALSE, session |-> None, token |-> None, active |-> FALSE]
Endpoint == [exists : BOOLEAN, session : Sessions \cup {None},
             token : Tokens \cup {None}, active : BOOLEAN]

\* A thread's request: a lifecycle event with the status row it loaded and the
\* active endpoints it will switch off, or a registration with the endpoint
\* row it loaded.  The fields a step does not use keep their defaults.
Free == [step |-> "free", event |-> NoEvent, status |-> Unknown, off |-> {},
         session |-> None, device |-> None, token |-> None, row |-> NoEndpoint]

Request == [step : {"free", "apply", "commit", "checked", "register"},
            event : Posted \cup {NoEvent}, status : Status, off : SUBSET Keys,
            session : Sessions \cup {None}, device : Devices \cup {None},
            token : Tokens \cup {None}, row : Endpoint]

TypeOK ==
    /\ seen \in SUBSET Posted
    /\ status \in [Subjects -> Status]
    /\ revoked \in SUBSET Sessions
    /\ endpoint \in [Keys -> Endpoint]
    /\ thread \in [Threads -> Request]

Init ==
    /\ seen = {}
    /\ status = [x \in Subjects |-> Unknown]
    /\ revoked = {}
    /\ endpoint = [k \in Keys |-> NoEndpoint]
    /\ thread = [t \in Threads |-> Free]

-----------------------------------------------------------------------------
(* POST /v1/internal/auth-events                                           *)

Enables(e) == e.type \in {"account.enabled", "application.enabled"}

\* The status row apply_auth_event loads (for a revocation: whether there is a
\* row for the session already).
Loaded(e) ==
    IF e.type \in StatusKinds THEN status[e.subject]
    ELSE [Unknown EXCEPT !.known = e.subject \in revoked]

\* Mutant: occurred_at is not compared with changed_at.
NewerAlways(e, row) == TRUE

\* The event is newer than what was loaded, or the first of its subject.
Newer(e, row) == ~row.known \/ e.at >= row.at

\* Mutant: a session revocation looks for endpoints of accounts and products only.
ScopeWithoutSession(e) == {k \in Keys : endpoint[k].exists /\ e.subject \in {k[1], k[2]}}

\* The endpoints of the event's session, account or application.
Scope(e) == {k \in Keys : /\ endpoint[k].exists
                          /\ e.subject \in {endpoint[k].session, k[1], k[2]}}

\* Deduplicate by event id, then load the status row.
ApplyBegin(t, e) ==
    /\ thread[t].step = "free"
    /\ e \notin seen
    /\ thread' = [thread EXCEPT ![t] = [Free EXCEPT !.step = "apply", !.event = e,
                                                    !.status = Loaded(e)]]
    /\ UNCHANGED pushVars

\* Load the endpoints to switch off: always for a revocation, for a status only
\* when it is applied and switches its subject off.
ApplyScope(t) ==
    LET e == thread[t].event
        off == IF e.type \in RevocationKinds
                  \/ (Newer(e, thread[t].status) /\ ~Enables(e))
               THEN {k \in Scope(e) : endpoint[k].active} ELSE {}
    IN  /\ thread[t].step = "apply"
        /\ thread' = [thread EXCEPT ![t].step = "commit", ![t].off = off]
        /\ UNCHANGED pushVars

\* A row with the same primary key was committed meanwhile.
InsertConflict(t) ==
    LET e == thread[t].event
    IN  e \in seen \/ (~thread[t].status.known /\ Loaded(e).known)

\* The status row after the commit of a status event that loaded "row".
Written(e, row) ==
    IF ~row.known THEN [known |-> TRUE, active |-> Enables(e), at |-> e.at]
    ELSE IF Newer(e, row)
         THEN [status[e.subject] EXCEPT
                  !.active = IF Enables(e) # row.active THEN Enables(e) ELSE @,
                  !.at = e.at]
         ELSE status[e.subject]

\* Mutant: a revocation that finds no active endpoint stores no row.
ApplyCommitForEndpointsOnly(t) ==
    LET e == thread[t].event
    IN  /\ thread[t].step = "commit"
        /\ ~InsertConflict(t)
        /\ seen' = seen \cup {e}
        /\ IF e.type \in StatusKinds
           THEN /\ status' = [status EXCEPT ![e.subject] = Written(e, thread[t].status)]
                /\ UNCHANGED revoked
           ELSE /\ revoked' = revoked \cup {s \in {e.subject} : thread[t].off # {}}
                /\ UNCHANGED status
        /\ endpoint' = [k \in Keys |-> [endpoint[k] EXCEPT
                            !.active = @ /\ k \notin thread[t].off]]
        /\ thread' = [thread EXCEPT ![t] = Free]

\* Mutant: only the latest event of a subject is kept.
ApplyCommitPrunes(t) ==
    LET e == thread[t].event
    IN  /\ thread[t].step = "commit"
        /\ ~InsertConflict(t)
        /\ seen' = {f \in seen : f.subject # e.subject} \cup {e}
        /\ IF e.type \in StatusKinds
           THEN /\ status' = [status EXCEPT ![e.subject] = Written(e, thread[t].status)]
                /\ UNCHANGED revoked
           ELSE /\ revoked' = revoked \cup {e.subject}
                /\ UNCHANGED status
        /\ endpoint' = [k \in Keys |-> [endpoint[k] EXCEPT
                            !.active = @ /\ k \notin thread[t].off]]
        /\ thread' = [thread EXCEPT ![t] = Free]

\* Commit the event, the status or the revocation, and the endpoints.
ApplyCommit(t) ==
    LET e == thread[t].event
    IN  /\ thread[t].step = "commit"
        /\ ~InsertConflict(t)
        /\ seen' = seen \cup {e}
        /\ IF e.type \in StatusKinds
           THEN /\ status' = [status EXCEPT ![e.subject] = Written(e, thread[t].status)]
                /\ UNCHANGED revoked
           ELSE /\ revoked' = revoked \cup {e.subject}
                /\ UNCHANGED status
        /\ endpoint' = [k \in Keys |-> [endpoint[k] EXCEPT
                            !.active = @ /\ k \notin thread[t].off]]
        /\ thread' = [thread EXCEPT ![t] = Free]

\* The insert fails: the request answers 500 and nothing of it is kept.
ApplyAborts(t) ==
    /\ thread[t].step = "commit"
    /\ InsertConflict(t)
    /\ thread' = [thread EXCEPT ![t] = Free]
    /\ UNCHANGED pushVars

-----------------------------------------------------------------------------
(* /v1/devices                                                             *)

\* require_live_user_state
Live(s) == status[Owner[s]].active /\ status[Client[s]].active /\ s \notin revoked

KeyOf(s, d) == <<Owner[s], Client[s], d>>

RegisterCheck(t, s, d, tok) ==
    /\ thread[t].step = "free"
    /\ Live(s)
    /\ thread' = [thread EXCEPT ![t] = [Free EXCEPT !.step = "checked", !.session = s,
                                                    !.device = d, !.token = tok]]
    /\ UNCHANGED pushVars

\* Load the endpoint of this installation and the active endpoints of the
\* product that hold the same token.
RegisterLoad(t) ==
    LET key == KeyOf(thread[t].session, thread[t].device)
        twins == {k \in Keys \ {key} : /\ k[2] = key[2]
                                       /\ endpoint[k].active
                                       /\ endpoint[k].token = thread[t].token}
    IN  /\ thread[t].step = "checked"
        /\ thread' = [thread EXCEPT ![t].step = "register", ![t].row = endpoint[key],
                                    ![t].off = twins]
        /\ UNCHANGED pushVars

\* The row of the registered installation: inserted, or the loaded row updated
\* in the columns that change.
Bound(r, old) ==
    IF ~r.row.exists
    THEN [exists |-> TRUE, session |-> r.session, token |-> r.token, active |-> TRUE]
    ELSE [old EXCEPT !.session = IF r.session # r.row.session THEN r.session ELSE @,
                     !.token = IF r.token # r.row.token THEN r.token ELSE @,
                     !.active = IF r.row.active THEN @ ELSE TRUE]

RegisterCommit(t) ==
    LET r == thread[t]
        key == KeyOf(r.session, r.device)
    IN  /\ r.step = "register"
        /\ r.row.exists \/ ~endpoint[key].exists
        /\ endpoint' = [k \in Keys |-> IF k = key THEN Bound(r, endpoint[k])
                                       ELSE [endpoint[k] EXCEPT !.active = @ /\ k \notin r.off]]
        /\ thread' = [thread EXCEPT ![t] = Free]
        /\ UNCHANGED <<seen, status, revoked>>

\* Another request inserted the installation first: unique constraint, 500.
RegisterAborts(t) ==
    LET r == thread[t]
    IN  /\ r.step = "register"
        /\ ~r.row.exists /\ endpoint[KeyOf(r.session, r.device)].exists
        /\ thread' = [thread EXCEPT ![t] = Free]
        /\ UNCHANGED pushVars

\* DELETE /v1/devices/{device_key}
RevokeDevice(s, d) ==
    /\ Live(s)
    /\ endpoint[KeyOf(s, d)].active
    /\ endpoint' = [endpoint EXCEPT ![KeyOf(s, d)].active = FALSE]
    /\ UNCHANGED <<seen, status, revoked, thread>>

-----------------------------------------------------------------------------
ThreadStep(t) ==
    \/ \E e \in Posted : ApplyBegin(t, e)
    \/ ApplyScope(t)
    \/ ApplyCommit(t)
    \/ ApplyAborts(t)
    \/ \E s \in Sessions, d \in Devices, tok \in Tokens : RegisterCheck(t, s, d, tok)
    \/ RegisterLoad(t)
    \/ RegisterCommit(t)
    \/ RegisterAborts(t)

Next ==
    \/ \E t \in Threads : ThreadStep(t)
    \/ \E s \in Sessions, d \in Devices : RevokeDevice(s, d)

Spec == Init /\ [][Next]_vars

-----------------------------------------------------------------------------
(* Properties.                                                             *)

StatusEvents(x) == {e \in seen : e.type \in StatusKinds /\ e.subject = x}

\* A status row says what the newest of a set of events says.
SaysNewest(row, events) ==
    \A e \in events : /\ e.at <= row.at
                      /\ e.at = row.at => (row.active <=> Enables(e))

\* The newest event committed for a subject decides what Push holds of it, in
\* whatever order and however often events arrive: a stale event cannot roll
\* the state back (apply_auth_event compares occurred_at with changed_at).
NewestWins ==
    \A x \in Subjects : /\ status[x].known <=> StatusEvents(x) # {}
                        /\ SaysNewest(status[x], StatusEvents(x))

\* A revocation Push committed is never forgotten and never invented: the
\* session is refused exactly from the first session.revoked event on.
RevocationSticks ==
    \A s \in Sessions :
        s \in revoked <=> \E e \in seen : e.type = "session.revoked" /\ e.subject = s

\* An active endpoint belongs to a session that is not revoked, of an account
\* and an application that are on: switching off reaches every endpoint, and
\* registering needs a live session (require_live_user_state).
ActiveEndpointIsLive ==
    \A k \in Keys : endpoint[k].active => Live(endpoint[k].session)

\* A provider token is bound to one installation of a product at a time: when
\* it moves to another account the old binding is switched off, so that no
\* notification reaches the previous user (register_device).
OneBindingPerToken ==
    \A k, l \in Keys : /\ endpoint[k].active /\ endpoint[l].active
                       /\ endpoint[k].token = endpoint[l].token
                       /\ k[2] = l[2]
                       => k = l
=============================================================================
