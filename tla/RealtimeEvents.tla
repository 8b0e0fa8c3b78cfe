--------------------------- MODULE RealtimeEvents ---------------------------
(***************************************************************************)
(* !thute Realtime: durable events, their delivery by API requests and by  *)
(* the event worker, and a recipient's client that follows them over the   *)
(* socket and replays what it missed after a cursor.                       *)
(*                                                                         *)
(* deliver_event takes no lock: every actor works on the row as it loaded  *)
(* it and commits status and attempts over whatever is in the table.       *)
(*                                                                         *)
(* Abstractions.  An event is named by its idempotency key.  Cursors are   *)
(* numbers in the order of queue_event.  deliver_at <= now is membership   *)
(* of "due" and expires_at <= now of "expired".  The push fallback is one  *)
(* call that succeeds or fails (repeats are deduplicated by Push); Redis   *)
(* fan-out reaches the connected client at once.  A replay is all its      *)
(* pages: the client asks again until nothing is left.                     *)
(***************************************************************************)
EXTENDS Naturals, FiniteSets

CONSTANTS Events,
          Actors,       \* API requests and event workers, each one at a time
          MaxAttempts,  \* settings.event_max_attempts
          MaxCrashes    \* bound: crashes of actors

ASSUME RealtimeAssumption ==
    /\ IsFiniteSet(Events)
    /\ MaxAttempts \in Nat \ {0} /\ MaxCrashes \in Nat

VARIABLES row,        \* realtime_events: status and attempts
          cursor,     \* realtime_events.cursor, 0 before the event exists
          due, expired,
          actor,      \* per actor: the rows it loaded and where it stands
          tries,      \* deliveries begun per event (history)
          published,  \* events handed to Redis (history)
          late,       \* events first published behind a newer one (history)
          client,     \* the recipient's client
          crashes

vars == <<row, cursor, due, expired, actor, tries, published, late, client, crashes>>

Pending == {"queued", "scheduled", "retry"}
Replayable == {"delivered", "publishing", "retry"}
Ended == {"delivered", "dead_letter", "expired"}
Row == [status : {"absent", "publishing"} \cup Pending \cup Ended, attempts : Nat]
Absent == [status |-> "absent", attempts |-> 0]
MaxCursor == Cardinality(Events)

\* An actor: the events still to deliver, the attempts of their rows as loaded, the
\* event being delivered and how far it got.
Idle == [todo |-> {}, mem |-> [e \in Events |-> 0], now |-> {}, step |-> "idle"]
ActorState == [todo : SUBSET Events, mem : [Events -> Nat], now : SUBSET Events,
               step : {"idle", "publishing", "published"}]

\* The client: its socket, the last cursor it saw (0: none), the cursor of its
\* auth frame, the events it has received and (history) those published before
\* it connected without a cursor, which no replay brings.
Client == [socket : {"off", "live", "replayed"}, after : 0..MaxCursor,
           frame : 0..MaxCursor, got : SUBSET Events, before : SUBSET Events]

TypeOK ==
    /\ row \in [Events -> Row]
    /\ cursor \in [Events -> 0..MaxCursor]
    /\ due \in SUBSET Events /\ expired \in SUBSET Events
    /\ actor \in [Actors -> ActorState]
    /\ tries \in [Events -> Nat]
    /\ published \in SUBSET Events /\ late \in SUBSET Events
    /\ client \in Client
    /\ crashes \in 0..MaxCrashes

Init ==
    /\ row = [e \in Events |-> Absent]
    /\ cursor = [e \in Events |-> 0]
    /\ due = {} /\ expired = {} /\ published = {} /\ late = {}
    /\ actor = [a \in Actors |-> Idle]
    /\ tries = [e \in Events |-> 0]
    /\ client = [socket |-> "replayed", after |-> 0, frame |-> 0,
                 got |-> {}, before |-> {}]
    /\ crashes = 0

-----------------------------------------------------------------------------
(* API requests.                                                           *)

Take(a, S) == [actor EXCEPT ![a] = [Idle EXCEPT !.todo = S,
                 !.mem = [e \in Events |-> IF e \in S THEN row'[e].attempts ELSE 0]]]

\* queue_event, then the request delivers a queued event itself; one with a
\* deliver_at in the future is left to the worker.
Publish(a, e, scheduled) ==
    /\ actor[a] = Idle
    /\ row[e].status = "absent"
    /\ row' = [row EXCEPT ![e].status = IF scheduled THEN "scheduled" ELSE "queued"]
    /\ cursor' = [cursor EXCEPT ![e] = 1 + Cardinality({f \in Events : cursor[f] # 0})]
    /\ due' = IF scheduled THEN due ELSE due \cup {e}
    /\ actor' = IF scheduled THEN actor ELSE Take(a, {e})
    /\ UNCHANGED <<expired, tries, published, late, client, crashes>>

\* The same request again: queue_event returns the existing event, and one that
\* is still queued is delivered by this request too.
PublishAgain(a, e) ==
    /\ actor[a] = Idle
    /\ row[e].status = "queued"
    /\ UNCHANGED row
    /\ actor' = Take(a, {e})
    /\ UNCHANGED <<cursor, due, expired, tries, published, late, client, crashes>>

\* Mutant of Select: failed deliveries are not picked up again.
SelectForgetsRetries(a) ==
    LET rows == {e \in due : row[e].status \in Pending \ {"retry"}}
    IN  /\ actor[a] = Idle
        /\ rows # {}
        /\ UNCHANGED row
        /\ actor' = Take(a, rows)
        /\ UNCHANGED <<cursor, due, expired, tries, published, late, client, crashes>>

\* process_due_events: load the due events, without locks.
Select(a) ==
    LET rows == {e \in due : row[e].status \in Pending}
    IN  /\ actor[a] = Idle
        /\ rows # {}
        /\ UNCHANGED row
        /\ actor' = Take(a, rows)
        /\ UNCHANGED <<cursor, due, expired, tries, published, late, client, crashes>>

-----------------------------------------------------------------------------
(* deliver_event.                                                          *)

\* What the actor keeps while it delivers e, and once it is done with e.
Working(r, e) == [todo |-> r.todo, mem |-> [r.mem EXCEPT ![e] = @ + 1],
                  now |-> {e}, step |-> "publishing"]
Rested(r, e) == [todo |-> r.todo \ {e}, mem |-> [r.mem EXCEPT ![e] = 0],
                 now |-> {}, step |-> "idle"]

Done(a, e) == actor' = [actor EXCEPT ![a] = Rested(@, e)]

\* The event expired before it was delivered.
Expired(a, e) ==
    /\ e \in actor[a].todo /\ actor[a].now = {}
    /\ e \in expired
    /\ row' = [row EXCEPT ![e].status = "expired"]
    /\ Done(a, e)
    /\ UNCHANGED <<cursor, due, expired, tries, published, late, client, crashes>>

\* Commit "publishing" and the attempt, counted from the loaded row.  The loaded
\* deliver_at has passed: only queued events and due rows get here.
Begin(a, e) ==
    /\ e \in actor[a].todo /\ actor[a].now = {}
    /\ e \notin expired
    /\ row' = [row EXCEPT ![e] = [status |-> "publishing",
                                  attempts |-> actor[a].mem[e] + 1]]
    /\ tries' = [tries EXCEPT ![e] = @ + 1]
    /\ actor' = [actor EXCEPT ![a] = Working(@, e)]
    /\ UNCHANGED <<cursor, due, expired, published, late, client, crashes>>

\* The client takes an event in; its cursor never moves back.
Receive(c, S) ==
    [c EXCEPT !.got = @ \cup S,
              !.after = CHOOSE m \in 0..MaxCursor :
                           /\ m \in {c.after} \cup {cursor[e] : e \in S}
                           /\ \A n \in {c.after} \cup {cursor[e] : e \in S} : n <= m]

\* hub.publish: Redis fans the event out to connected clients.
HubPublish(a) ==
    /\ actor[a].step = "publishing"
    /\ published' = published \cup actor[a].now
    /\ late' = late \cup {e \in actor[a].now \ published :
                            \E f \in Events : tries[f] > 0 /\ cursor[f] > cursor[e]}
    /\ client' = IF client.socket = "off" THEN client ELSE Receive(client, actor[a].now)
    /\ actor' = [actor EXCEPT ![a].step = "published"]
    /\ UNCHANGED <<row, cursor, due, expired, tries, crashes>>

\* Published, and push requested for those offline.
Delivered(a) ==
    /\ actor[a].step = "published"
    /\ \E e \in actor[a].now :
        /\ row' = [row EXCEPT ![e].status = "delivered"]
        /\ Done(a, e)
    /\ UNCHANGED <<cursor, due, expired, tries, published, late, client, crashes>>

\* Mutants of Failed: one attempt too few; an event given up is marked with a status
\* that nothing knows.
FailedOffByOne(a) ==
    /\ actor[a].step \in {"publishing", "published"}
    /\ \E e \in actor[a].now :
        /\ IF actor[a].mem[e] + 1 >= MaxAttempts
           THEN /\ row' = [row EXCEPT ![e].status = "dead_letter"]
                /\ UNCHANGED due
           ELSE /\ row' = [row EXCEPT ![e].status = "retry"]
                /\ due' = due \ {e}
        /\ Done(a, e)
    /\ UNCHANGED <<cursor, expired, tries, published, late, client, crashes>>

\* Publishing or the push request raised: retry later, or give up.
Failed(a) ==
    /\ actor[a].step \in {"publishing", "published"}
    /\ \E e \in actor[a].now :
        /\ IF actor[a].mem[e] >= MaxAttempts
           THEN /\ row' = [row EXCEPT ![e].status = "dead_letter"]
                /\ UNCHANGED due
           ELSE /\ row' = [row EXCEPT ![e].status = "retry"]
                /\ due' = due \ {e}
        /\ Done(a, e)
    /\ UNCHANGED <<cursor, expired, tries, published, late, client, crashes>>

\* The process dies: what it committed stays.
Crash(a) ==
    /\ actor[a] # Idle
    /\ crashes < MaxCrashes
    /\ crashes' = crashes + 1
    /\ actor' = [actor EXCEPT ![a] = Idle]
    /\ UNCHANGED <<row, cursor, due, expired, tries, published, late, client>>

\* deliver_at or expires_at passes.
Elapse(e) ==
    /\ row[e].status # "absent" /\ e \notin due
    /\ due' = due \cup {e}
    /\ UNCHANGED <<row, cursor, expired, actor, tries, published, late, client, crashes>>

Expire(e) ==
    /\ e \in due \/ tries[e] > 0
    /\ e \notin expired
    /\ expired' = expired \cup {e}
    /\ UNCHANGED <<row, cursor, due, actor, tries, published, late, client, crashes>>

-----------------------------------------------------------------------------
(* The socket.                                                             *)

\* The socket is lost.  The client keeps the cursor of its last complete replay
\* when this one was cut short.
Disconnect ==
    /\ client.socket # "off"
    /\ client' = [client EXCEPT !.socket = "off",
                               !.after = IF client.socket = "live" THEN client.frame ELSE @]
    /\ UNCHANGED <<row, cursor, due, expired, actor, tries, published, late, crashes>>

\* hub.connect: from now on the client receives what is published.  With no cursor
\* in its auth frame nothing is replayed to it.
Connect ==
    /\ client.socket = "off"
    /\ client' = IF client.after = 0
                 THEN [client EXCEPT !.socket = "replayed", !.before = published]
                 ELSE [client EXCEPT !.socket = "live", !.frame = client.after]
    /\ UNCHANGED <<row, cursor, due, expired, actor, tries, published, late, crashes>>

\* Mutant of ReplayEvents: only events whose delivery has been recorded.
ReplayDeliveredOnly(after) ==
    {e \in Events : row[e].status = "delivered" /\ e \notin expired /\ cursor[e] > after}

\* replay_events after the cursor of the auth frame, which is never 0 here.
ReplayEvents(after) ==
    {e \in Events : row[e].status \in Replayable /\ e \notin expired /\ cursor[e] > after}

Replay ==
    /\ client.socket = "live"
    /\ client' = [Receive(client, ReplayEvents(client.frame)) EXCEPT !.socket = "replayed"]
    /\ UNCHANGED <<row, cursor, due, expired, actor, tries, published, late, crashes>>

-----------------------------------------------------------------------------
Deliver(a) ==
    \/ \E e \in actor[a].todo : Expired(a, e) \/ Begin(a, e)
    \/ HubPublish(a)
    \/ Delivered(a)
    \/ Failed(a)

Next ==
    \/ \E a \in Actors, e \in Events : \/ \E b \in BOOLEAN : Publish(a, e, b)
                                       \/ PublishAgain(a, e)
    \/ \E a \in Actors : Select(a) \/ Deliver(a) \/ Crash(a)
    \/ \E e \in Events : Elapse(e) \/ Expire(e)
    \/ Disconnect \/ Connect \/ Replay

Spec == Init /\ [][Next]_vars

\* The worker polls for ever, a delivery that began goes on, time passes.
Fairness ==
    /\ \A a \in Actors : WF_vars(Deliver(a))
    /\ WF_vars(\E a \in Actors : Select(a))
    /\ \A e \in Events : WF_vars(Elapse(e))

FairSpec == Spec /\ Fairness

-----------------------------------------------------------------------------
(* Properties.                                                             *)

\* An event is given up only after the configured number of attempts, even when
\* overlapping actors count from stale rows; and it counts as delivered only
\* when it was published.
NeverGivesUpEarly ==
    \A e \in Events : /\ row[e].status = "dead_letter" => tries[e] >= MaxAttempts
                      /\ row[e].status = "delivered" => e \in published

\* Durable replay: a client that reconnects with a cursor and replays after it has
\* then received every replayable event that was published in cursor order since it
\* first connected and was not given up while another attempt was under way.
ReplayCatchesUp ==
    [][Replay => \A e \in published \ (late \cup client.before) :
                    row[e].status \in Replayable /\ e \notin expired /\ tries[e] <= MaxAttempts
                    => e \in client'.got]_vars

\* Unless an actor dies, every event the worker may pick up ends delivered, expired or
\* in dead_letter; a row that a dead actor left in publishing is never picked up again.
EventEnds ==
    [](crashes = 0) => \A e \in Events : (row[e].status \in Pending) ~> (row[e].status \in Ended)
=============================================================================
