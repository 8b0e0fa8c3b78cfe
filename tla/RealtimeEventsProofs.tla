------------------------ MODULE RealtimeEventsProofs ------------------------
(* Proofs that overlapping deliveries never give an event up too early and  *)
(* that a replay brings a client up to date; then of RealtimeChat that      *)
(* clients are told of every message as it is, and that overlapping         *)
(* requests take back neither a deletion nor a receipt.                     *)
EXTENDS MCRealtimeEvents, FiniteSetTheorems, WellFoundedInduction, TLAPS

-----------------------------------------------------------------------------
(* The inductive invariant.                                                *)

\* The part of the state that deliveries read and write has its type.
Typed ==
    /\ row \in [Events -> Row]
    /\ tries \in [Events -> Nat]
    /\ published \in SUBSET Events /\ due \in SUBSET Events
    /\ actor \in [Actors -> ActorState]

\* Neither the table nor a loaded copy counts more attempts than were begun.
Counted ==
    \A e \in Events : /\ row[e].attempts <= tries[e]
                      /\ \A a \in Actors : actor[a].mem[e] <= tries[e]

\* An actor past hub.publish works on a published event.
PublishedFirst ==
    \A a \in Actors : actor[a].step = "published" => actor[a].now \subseteq published

DeliveryInv == Typed /\ Counted /\ PublishedFirst /\ NeverGivesUpEarly

-----------------------------------------------------------------------------
(* Steps that end or take up work leave the inductive invariant intact.    *)

\* Loading rows, as an API request and process_due_events do.
LEMMA TakeKeeps ==
    ASSUME Typed, Counted, NEW a \in Actors, NEW S \in SUBSET Events, Typed',
           actor' = Take(a, S), tries' = tries, published' = published, PublishedFirst,
           \A e \in Events : row'[e].attempts = row[e].attempts
    PROVE  Counted' /\ PublishedFirst'
<1>1. ASSUME NEW e \in Events, NEW b \in Actors
      PROVE  actor'[b].mem[e] \in {actor[b].mem[e], row[e].attempts, 0}
  BY DEF Take, Typed, ActorState, Idle
<1>2. \A b \in Actors : actor'[b].step = "published"
                           => actor[b].step = "published" /\ actor'[b].now = actor[b].now
  BY DEF Take, Typed, ActorState, Idle
<1>3. Counted'
  BY <1>1 DEF Counted, Typed, Row
<1>4. PublishedFirst'
  BY <1>2 DEF PublishedFirst
<1> QED BY <1>3, <1>4

\* deliver_event is over for one event.
LEMMA DoneKeeps ==
    ASSUME Typed, Counted, NEW a \in Actors, NEW f \in Events,
           Done(a, f), tries' = tries, published' = published, PublishedFirst,
           \A e \in Events : row'[e].attempts = row[e].attempts
    PROVE  Counted' /\ PublishedFirst' /\ actor' \in [Actors -> ActorState]
<1>0. ASSUME NEW b \in Actors
      PROVE  /\ actor'[b] \in ActorState
             /\ \A e \in Events : actor'[b].mem[e] \in {actor[b].mem[e], 0}
             /\ actor'[b].step = "published" => /\ actor[b].step = "published"
                                                /\ actor'[b].now = actor[b].now
  <2>1. actor[a] \in ActorState /\ actor[b] \in ActorState
    BY DEF Typed
  <2>2. actor'[a] = Rested(actor[a], f)
    BY DEF Done, Typed
  <2>3. b # a => actor'[b] = actor[b]
    BY DEF Done, Typed
  <2>4. /\ actor'[a].todo = actor[a].todo \ {f} /\ actor'[a].now = {}
        /\ actor'[a].step = "idle" /\ actor'[a].mem = [actor[a].mem EXCEPT ![f] = 0]
        /\ actor'[a] \in ActorState
    BY <2>1, <2>2 DEF ActorState, Rested
  <2> QED BY <2>1, <2>3, <2>4 DEF ActorState
<1>1. actor' \in [Actors -> ActorState]
  <2>1. actor' = [b \in Actors |-> actor'[b]]
    BY DEF Done, Typed
  <2> QED BY <1>0, <2>1
<1> QED BY <1>0, <1>1 DEF Counted, PublishedFirst, Typed, Row

-----------------------------------------------------------------------------
(* One lemma per group of actions.                                         *)

LEMMA DeliveryInvInit == Init => DeliveryInv
<1> SUFFICES ASSUME Init PROVE DeliveryInv
  OBVIOUS
<1>1. Typed
  BY DEF Init, Typed, Row, Absent, Idle, ActorState
<1> QED BY <1>1 DEF Init, DeliveryInv, Counted, PublishedFirst, NeverGivesUpEarly, Absent, Idle

LEMMA TakeStep ==
    ASSUME DeliveryInv, NEW a \in Actors, NEW e \in Events,
           (\E b \in BOOLEAN : Publish(a, e, b)) \/ PublishAgain(a, e) \/ Select(a)
    PROVE  DeliveryInv'
<1> USE DEF DeliveryInv
<1>1. ASSUME NEW b \in BOOLEAN, Publish(a, e, b) PROVE DeliveryInv'
  <2>0. /\ row' \in [Events -> Row] /\ due' \in SUBSET Events
        /\ \A f \in Events : row'[f].attempts = row[f].attempts
        /\ \A f \in Events : row'[f].status \in {"dead_letter", "delivered"}
                                => row'[f].status = row[f].status
    BY <1>1 DEF Publish, Typed, Row, Pending
  <2>1. CASE b
    <3>1. actor' = actor /\ tries' = tries /\ published' = published
      BY <1>1, <2>1 DEF Publish
    <3> QED BY <2>0, <3>1 DEF Typed, Counted, PublishedFirst, NeverGivesUpEarly
  <2>2. CASE ~b
    <3>1. actor' = Take(a, {e}) /\ tries' = tries /\ published' = published
      BY <1>1, <2>2 DEF Publish
    <3>2. actor' \in [Actors -> ActorState]
      BY <2>0, <3>1 DEF Typed, Take, ActorState, Idle, Row
    <3>3. Typed'
      BY <2>0, <3>1, <3>2 DEF Typed
    <3>4. Counted' /\ PublishedFirst'
      BY <2>0, <3>1, <3>3, TakeKeeps, {e} \in SUBSET Events
    <3> QED BY <2>0, <3>1, <3>3, <3>4 DEF NeverGivesUpEarly
  <2> QED BY <2>1, <2>2
<1>2. ASSUME NEW S \in SUBSET Events, actor' = Take(a, S),
             row' = row, tries' = tries, published' = published, due' = due
      PROVE  DeliveryInv'
  <2>1. actor' \in [Actors -> ActorState]
    BY <1>2 DEF Typed, Take, ActorState, Idle, Row
  <2>2. Typed'
    BY <1>2, <2>1 DEF Typed
  <2>3. Counted' /\ PublishedFirst'
    BY <1>2, <2>2, TakeKeeps
  <2> QED BY <1>2, <2>2, <2>3 DEF NeverGivesUpEarly
<1>3. CASE PublishAgain(a, e)
  BY <1>2, <1>3, {e} \in SUBSET Events DEF PublishAgain
<1>4. CASE Select(a)
  <2>1. {f \in due : row[f].status \in Pending} \in SUBSET Events
    BY DEF Typed
  <2> QED BY <1>2, <1>4, <2>1 DEF Select
<1> QED BY <1>1, <1>3, <1>4

LEMMA DeliverStep ==
    ASSUME DeliveryInv, NEW a \in Actors, Deliver(a)
    PROVE  DeliveryInv'
<1> USE DEF DeliveryInv
<1>1. ASSUME NEW e \in Events, Expired(a, e) PROVE DeliveryInv'
  <2>1. /\ row' \in [Events -> Row]
        /\ tries' = tries /\ published' = published /\ due' = due /\ Done(a, e)
        /\ \A f \in Events : row'[f].attempts = row[f].attempts
        /\ \A f \in Events : row'[f].status \in {"dead_letter", "delivered"}
                                => row'[f].status = row[f].status
    BY <1>1 DEF Expired, Typed, Row, Ended
  <2>2. Counted' /\ PublishedFirst' /\ actor' \in [Actors -> ActorState]
    BY <2>1, DoneKeeps
  <2> QED BY <2>1, <2>2 DEF Typed, NeverGivesUpEarly
<1>2. ASSUME NEW e \in Events, Begin(a, e) PROVE DeliveryInv'
  <2>1. /\ row' = [row EXCEPT ![e] = [status |-> "publishing", attempts |-> actor[a].mem[e] + 1]]
        /\ tries' = [tries EXCEPT ![e] = @ + 1]
        /\ published' = published /\ due' = due
    BY <1>2 DEF Begin
  <2>2. row' \in [Events -> Row] /\ tries' \in [Events -> Nat]
    BY <2>1 DEF Typed, Row, ActorState
  <2>3. ASSUME NEW b \in Actors
        PROVE  /\ actor'[b] \in ActorState
               /\ \A f \in Events : actor'[b].mem[f] = IF b = a /\ f = e THEN actor[a].mem[e] + 1
                                                      ELSE actor[b].mem[f]
               /\ actor'[b].step = "published" => /\ actor[b].step = "published"
                                                  /\ actor'[b].now = actor[b].now
    <3>1. actor[a] \in ActorState /\ actor[b] \in ActorState
      BY DEF Typed
    <3>2. actor'[a] = Working(actor[a], e)
      BY <1>2 DEF Begin, Typed
    <3>3. b # a => actor'[b] = actor[b]
      BY <1>2 DEF Begin, Typed
    <3>4. /\ actor'[a].now = {e} /\ actor'[a].step = "publishing"
          /\ actor'[a].mem = [actor[a].mem EXCEPT ![e] = @ + 1]
          /\ actor'[a] \in ActorState
      BY <3>1, <3>2 DEF ActorState, Working
    <3> QED BY <3>1, <3>3, <3>4 DEF ActorState
  <2>4. actor' \in [Actors -> ActorState]
    <3>1. actor' = [b \in Actors |-> actor'[b]]
      BY <1>2 DEF Begin, Typed
    <3> QED BY <2>3, <3>1
  <2>5. Counted'
    BY <2>1, <2>3 DEF Counted, Typed, Row, ActorState
  <2>6. PublishedFirst'
    BY <2>1, <2>3 DEF PublishedFirst
  <2>7. NeverGivesUpEarly'
    BY <2>1, <2>2, RealtimeAssumption DEF NeverGivesUpEarly, Typed
  <2> QED BY <2>1, <2>2, <2>4, <2>5, <2>6, <2>7 DEF Typed
<1>3. CASE HubPublish(a)
  <2>1. /\ row' = row /\ tries' = tries /\ due' = due
        /\ published' = published \cup actor[a].now
        /\ actor' = [actor EXCEPT ![a].step = "published"]
    BY <1>3 DEF HubPublish
  <2>2. actor' \in [Actors -> ActorState]
    BY <2>1 DEF Typed, ActorState
  <2>3. published' \in SUBSET Events /\ published \subseteq published'
    BY <2>1 DEF Typed, ActorState
  <2>4. \A b \in Actors : actor'[b].mem = actor[b].mem /\ actor'[b].now = actor[b].now
    BY <2>1 DEF Typed, ActorState
  <2>5. \A b \in Actors : b # a => actor'[b].step = actor[b].step
    BY <2>1 DEF Typed
  <2>6. PublishedFirst'
    BY <2>1, <2>3, <2>4, <2>5 DEF PublishedFirst
  <2> QED BY <2>1, <2>2, <2>3, <2>4, <2>6 DEF Typed, Counted, NeverGivesUpEarly
<1>4. CASE Delivered(a)
  <2>1. PICK e \in actor[a].now : row' = [row EXCEPT ![e].status = "delivered"] /\ Done(a, e)
    BY <1>4 DEF Delivered
  <2>2. e \in Events /\ e \in published
    BY <1>4 DEF Delivered, Typed, ActorState, PublishedFirst
  <2>3. /\ row' \in [Events -> Row] /\ \A f \in Events : row'[f].attempts = row[f].attempts
        /\ \A f \in Events : f # e => row'[f].status = row[f].status
        /\ row'[e].status = "delivered"
    BY <2>1, <2>2 DEF Typed, Row, Ended
  <2>4. tries' = tries /\ published' = published /\ due' = due
    BY <1>4 DEF Delivered
  <2>5. Counted' /\ PublishedFirst' /\ actor' \in [Actors -> ActorState]
    BY <2>1, <2>2, <2>3, <2>4, DoneKeeps
  <2> QED BY <2>2, <2>3, <2>4, <2>5 DEF Typed, NeverGivesUpEarly
<1>5. CASE Failed(a)
  <2>1. PICK e \in actor[a].now :
           /\ \/ /\ actor[a].mem[e] >= MaxAttempts
                 /\ row' = [row EXCEPT ![e].status = "dead_letter"]
              \/ row' = [row EXCEPT ![e].status = "retry"]
           /\ due' \in SUBSET due
           /\ Done(a, e)
    BY <1>5 DEF Failed
  <2>2. e \in Events
    BY DEF Typed, ActorState
  <2>3. /\ row' \in [Events -> Row] /\ \A f \in Events : row'[f].attempts = row[f].attempts
        /\ \A f \in Events : f # e => row'[f].status = row[f].status
        /\ row'[e].status = "dead_letter" => actor[a].mem[e] >= MaxAttempts
        /\ row'[e].status # "delivered"
    BY <2>1, <2>2 DEF Typed, Row, Ended, Pending
  <2>4. tries' = tries /\ published' = published
    BY <1>5 DEF Failed
  <2>5. Counted' /\ PublishedFirst' /\ actor' \in [Actors -> ActorState]
    BY <2>1, <2>2, <2>3, <2>4, DoneKeeps
  <2>6. actor[a].mem[e] <= tries[e] /\ actor[a].mem[e] \in Nat /\ tries[e] \in Nat
    BY <2>2 DEF Counted, Typed, ActorState
  <2>7. NeverGivesUpEarly'
    BY <2>2, <2>3, <2>4, <2>6, RealtimeAssumption DEF NeverGivesUpEarly
  <2> QED BY <2>1, <2>3, <2>4, <2>5, <2>7 DEF Typed
<1>6. \A e \in actor[a].todo : e \in Events
  BY DEF Typed, ActorState
<1> QED BY <1>1, <1>2, <1>3, <1>4, <1>5, <1>6 DEF Deliver

LEMMA OtherStep ==
    ASSUME DeliveryInv,
           \/ \E a \in Actors : Crash(a)
           \/ \E e \in Events : Elapse(e) \/ Expire(e)
           \/ Disconnect \/ Connect \/ Replay
           \/ UNCHANGED vars
    PROVE  DeliveryInv'
<1> USE DEF DeliveryInv
<1>1. ASSUME NEW a \in Actors, Crash(a) PROVE DeliveryInv'
  <2>1. /\ actor' = [actor EXCEPT ![a] = Idle] /\ row' = row /\ tries' = tries
        /\ published' = published /\ due' = due
    BY <1>1 DEF Crash
  <2>2. actor' \in [Actors -> ActorState]
    BY <2>1 DEF Typed, ActorState, Idle
  <2>3. Counted'
    BY <2>1 DEF Counted, Typed, Idle, Row
  <2>4. PublishedFirst'
    BY <2>1 DEF PublishedFirst, Typed, Idle
  <2> QED BY <2>1, <2>2, <2>3, <2>4 DEF Typed, NeverGivesUpEarly
<1>2. ASSUME row' = row, tries' = tries, published' = published, actor' = actor,
             due' \in SUBSET Events
      PROVE  DeliveryInv'
  BY <1>2 DEF Typed, Counted, PublishedFirst, NeverGivesUpEarly
<1>3. ASSUME NEW e \in Events, Elapse(e) \/ Expire(e) PROVE DeliveryInv'
  BY <1>2, <1>3 DEF Elapse, Expire, Typed
<1>4. CASE Disconnect \/ Connect \/ Replay
  BY <1>2, <1>4 DEF Disconnect, Connect, Replay, Typed
<1>5. CASE UNCHANGED vars
  BY <1>2, <1>5 DEF vars, Typed
<1> QED BY <1>1, <1>3, <1>4, <1>5

LEMMA DeliveryInvNext == DeliveryInv /\ [Next]_vars => DeliveryInv'
<1> SUFFICES ASSUME DeliveryInv, [Next]_vars PROVE DeliveryInv'
  OBVIOUS
<1>1. ASSUME NEW a \in Actors, NEW e \in Events,
             (\E b \in BOOLEAN : Publish(a, e, b)) \/ PublishAgain(a, e)
      PROVE  DeliveryInv'
  BY <1>1, TakeStep
<1>2. ASSUME NEW a \in Actors, Select(a) PROVE DeliveryInv'
  <2>1. PICK e \in Events : TRUE
    BY <1>2 DEF Select, DeliveryInv, Typed
  <2> QED BY <1>2, <2>1, TakeStep
<1>3. ASSUME NEW a \in Actors, Deliver(a) PROVE DeliveryInv'
  BY <1>3, DeliverStep
<1> QED BY <1>1, <1>2, <1>3, OtherStep DEF Next

-----------------------------------------------------------------------------
(* The theorem.                                                            *)

\* deliver_event, run by any number of API requests and workers over stale rows
\* and cut short by crashes, moves an event to dead_letter only after the
\* configured number of attempts and to delivered only after hub.publish.
THEOREM GivesUpOnlyAfterMaxAttempts == Spec => []NeverGivesUpEarly
<1>1. DeliveryInv => NeverGivesUpEarly
  BY DEF DeliveryInv
<1> QED BY <1>1, DeliveryInvInit, DeliveryInvNext, PTL DEF Spec

-----------------------------------------------------------------------------
(* The replay after a cursor: the inductive invariant.                     *)

\* Deliveries that overlap.  An event is handed out only once it is stored and counts an
\* attempt once one began; it then never returns to the queue as if it were new.  While an
\* actor delivers it, the others hold a count behind the attempts begun, so that none of
\* them gives it up before all attempts are used.
Flight(e) ==
    /\ (\E a \in Actors : e \in actor[a].now) \/ e \in published \/ row[e].status \in Replayable
          => tries[e] > 0
    /\ tries[e] > 0 => row[e].status \in Replayable \cup {"dead_letter", "expired"}
    /\ row[e].status = "expired" => e \in expired
    /\ \A a \in Actors : e \in actor[a].todo => row[e].status # "absent"
    /\ \A a \in Actors : e \in actor[a].now =>
          /\ row[e].status \in Pending => row[e].attempts < tries[e]
          /\ row[e].status = "dead_letter" => tries[e] > MaxAttempts
          /\ \A b \in Actors \ {a} : /\ actor[b].mem[e] < tries[e]
                                     /\ e \in actor[b].now => row[e].attempts < tries[e]

Flights == \A e \in Events : Flight(e)

Queued == {e \in Events : cursor[e] # 0}

\* Stored events are numbered in the order of queue_event, without repetition.
Cursors ==
    /\ cursor \in [Events -> 0..MaxCursor]
    /\ \A e \in Events : /\ cursor[e] = 0 <=> row[e].status = "absent"
                         /\ cursor[e] <= Cardinality(Queued)
    /\ \A e, f \in Queued : cursor[e] = cursor[f] => e = f

\* A cursor the client holds is that of an event it received.
Seen(n) == n = 0 \/ \E e \in client.got : tries[e] > 0 /\ n = cursor[e]

Awaited(e) == row[e].status \in Replayable /\ e \notin expired /\ tries[e] <= MaxAttempts

\* What was published in order since the client first connected, and it lacks, is beyond
\* the cursor of its next replay.
CaughtUp ==
    /\ client \in Client /\ late \in SUBSET Events /\ expired \in SUBSET Events
    /\ Seen(client.after) /\ Seen(client.frame)
    /\ \A e \in published \ (late \cup client.before) : Awaited(e) =>
          \/ e \in client.got
          \/ client.socket = "off" /\ client.after < cursor[e]
          \/ client.socket = "live" /\ client.frame < cursor[e]

ReplayInv == DeliveryInv /\ Flights /\ Cursors /\ CaughtUp

-----------------------------------------------------------------------------
(* Helpers.                                                                *)

\* A nonempty set of numbers below a bound has a largest one.
LEMMA LargestExists ==
    ASSUME NEW m \in Nat, NEW S \in SUBSET (0..m), S # {}
    PROVE  \E x \in S : \A n \in S : n <= x
<1> DEFINE T == {k \in Nat : \E n \in S : k = m - n}
<1>1. T \subseteq Nat /\ T # {}
  <2>1. PICK n \in S : TRUE
    OBVIOUS
  <2>2. m - n \in T
    BY <2>1
  <2> QED BY <2>2
<1>2. PICK k \in T : \A j \in T : ~ (<<j, k>> \in OpToRel(<, Nat))
  <2> HIDE DEF T
  <2> QED BY <1>1, NatLessThanWellFounded, WFMin
<1>3. \A j \in T : k <= j
  <2> SUFFICES ASSUME NEW j \in T, j < k PROVE FALSE
    BY <1>1
  <2>1. <<j, k>> \in OpToRel(<, Nat)
    BY <1>1 DEF OpToRel
  <2> QED BY <1>2, <2>1
<1>4. PICK x \in S : k = m - x
  OBVIOUS
<1>5. ASSUME NEW n \in S PROVE n <= x
  <2>1. m - n \in T
    OBVIOUS
  <2> QED BY <2>1, <1>3, <1>4
<1> QED BY <1>5

LEMMA MaxCursorType == MaxCursor \in Nat
  BY RealtimeAssumption, FS_CardinalityType DEF MaxCursor

\* What the client takes in, and the cursor it then holds.
LEMMA Received ==
    ASSUME Cursors, NEW c \in Client, NEW S \in SUBSET Events
    PROVE  /\ Receive(c, S) \in Client
           /\ Receive(c, S).got = c.got \cup S
           /\ Receive(c, S).socket = c.socket /\ Receive(c, S).frame = c.frame /\ Receive(c, S).before = c.before
           /\ Receive(c, S).after = c.after \/ \E e \in S : Receive(c, S).after = cursor[e]
<1> DEFINE N == {c.after} \cup {cursor[e] : e \in S}
<1>1. N \in SUBSET (0..MaxCursor) /\ N # {}
  BY DEF Cursors, Client
<1>2. PICK x \in N : \A n \in N : n <= x
  <2> HIDE DEF N
  <2> QED BY <1>1, LargestExists, MaxCursorType
<1>3. PICK m : m = CHOOSE k \in 0..MaxCursor : k \in N /\ \A n \in N : n <= k
  OBVIOUS
<1>4. m \in 0..MaxCursor /\ m \in N
  <2> HIDE DEF N
  <2>1. \E k \in 0..MaxCursor : k \in N /\ \A n \in N : n <= k
    BY <1>1, <1>2
  <2> QED BY <1>3, <2>1
<1>5. Receive(c, S) = [c EXCEPT !.got = @ \cup S, !.after = m]
  BY <1>3 DEF Receive
<1>6. /\ Receive(c, S) \in Client
      /\ Receive(c, S).got = c.got \cup S /\ Receive(c, S).after = m
      /\ Receive(c, S).socket = c.socket /\ Receive(c, S).frame = c.frame /\ Receive(c, S).before = c.before
  <2> HIDE DEF N
  <2> QED BY <1>4, <1>5 DEF Client
<1> QED BY <1>4, <1>6

-----------------------------------------------------------------------------
(* Steps after which an actor delivers nothing: it took up rows, ended a   *)
(* delivery or died.                                                       *)

\* How such a step of a may change the status of e.
StatusMoves(a, e) ==
    \/ row'[e].status = row[e].status
    \/ row[e].status = "absent" /\ row'[e].status \in {"queued", "scheduled"}
    \/ row[e].status # "absent" /\ row'[e].status = "expired" /\ e \in expired
    \/ e \in actor[a].now /\ row'[e].status \in {"delivered", "retry"}
    \/ e \in actor[a].now /\ row'[e].status = "dead_letter" /\ actor[a].mem[e] >= MaxAttempts

Rest(a) ==
    /\ \A b \in Actors : b # a => actor'[b] = actor[b]
    /\ actor'[a].now = {}
    /\ tries' = tries /\ published' = published /\ late' = late /\ client' = client
    /\ expired' = expired
    /\ \A e \in Events :
          /\ row'[e].attempts = row[e].attempts
          /\ StatusMoves(a, e)
          /\ \/ actor'[a].mem[e] \in {0, actor[a].mem[e]}
             \/ row[e].status \in Pending \cup {"absent"} /\ actor'[a].mem[e] = row[e].attempts
          /\ e \in actor'[a].todo => row'[e].status # "absent"

\* What Take, Done and a crash do to the actor.
LEMMA Takes ==
    ASSUME Typed, NEW a \in Actors, NEW S \in SUBSET Events, actor' = Take(a, S)
    PROVE  /\ \A b \in Actors : b # a => actor'[b] = actor[b]
           /\ actor'[a].now = {} /\ actor'[a].todo = S
           /\ \A e \in Events : actor'[a].mem[e] = IF e \in S THEN row'[e].attempts ELSE 0
<1>1. \A b \in Actors : b # a => actor'[b] = actor[b]
  BY DEF Take, Typed
<1>2. actor'[a] = [Idle EXCEPT !.todo = S,
                     !.mem = [e \in Events |-> IF e \in S THEN row'[e].attempts ELSE 0]]
  BY DEF Take, Typed
<1> QED BY <1>1, <1>2 DEF Idle

LEMMA Dones ==
    ASSUME Typed, NEW a \in Actors, NEW f \in Events, Done(a, f)
    PROVE  /\ \A b \in Actors : b # a => actor'[b] = actor[b]
           /\ actor'[a].now = {} /\ actor'[a].todo \subseteq actor[a].todo
           /\ \A e \in Events : actor'[a].mem[e] \in {0, actor[a].mem[e]}
<1>1. \A b \in Actors : b # a => actor'[b] = actor[b]
  BY DEF Done, Typed
<1>2. actor'[a] = Rested(actor[a], f) /\ actor[a] \in ActorState
  BY DEF Done, Typed
<1> QED BY <1>1, <1>2 DEF Rested, ActorState

LEMMA RestSteps ==
    ASSUME ReplayInv, NEW a \in Actors, NEW e \in Events,
           \/ (\E b \in BOOLEAN : Publish(a, e, b)) \/ PublishAgain(a, e) \/ Select(a)
           \/ Expired(a, e) \/ Delivered(a) \/ Failed(a) \/ Crash(a)
    PROVE  Rest(a)
<1> USE DEF ReplayInv, DeliveryInv
<1>1. ASSUME NEW b \in BOOLEAN, Publish(a, e, b) PROVE Rest(a)
  <2>0. PICK s \in {"queued", "scheduled"} : row' = [row EXCEPT ![e].status = s]
    BY <1>1 DEF Publish
  <2>1. /\ row[e].status = "absent" /\ actor[a] = Idle
        /\ tries' = tries /\ published' = published /\ late' = late /\ client' = client
        /\ expired' = expired
    BY <1>1 DEF Publish
  <2>2. \A f \in Events : /\ row'[f].attempts = row[f].attempts
                          /\ f # e => row'[f].status = row[f].status
                          /\ row'[e].status \in {"queued", "scheduled"}
    BY <2>0 DEF Typed, Row
  <2>3. CASE b
    <3>1. actor' = actor
      BY <1>1, <2>3 DEF Publish
    <3> QED BY <2>1, <2>2, <3>1 DEF Rest, StatusMoves, Idle
  <2>4. CASE ~b
    <3>1. actor' = Take(a, {e}) /\ {e} \in SUBSET Events
      BY <1>1, <2>4 DEF Publish
    <3>2. /\ \A c \in Actors : c # a => actor'[c] = actor[c]
          /\ actor'[a].now = {} /\ actor'[a].todo = {e}
          /\ \A f \in Events : actor'[a].mem[f] = IF f \in {e} THEN row'[f].attempts ELSE 0
      BY <3>1, Takes
    <3> QED BY <2>1, <2>2, <3>2 DEF Rest, StatusMoves
  <2> QED BY <2>3, <2>4
<1>2. ASSUME NEW S \in SUBSET Events, actor' = Take(a, S), \A f \in S : row[f].status \in Pending,
             UNCHANGED <<row, tries, published, late, client, expired>>
      PROVE  Rest(a)
  BY <1>2, Takes DEF Rest, StatusMoves, Pending
<1>3. CASE PublishAgain(a, e)
  BY <1>2, <1>3, {e} \in SUBSET Events DEF PublishAgain, Pending
<1>4. CASE Select(a)
  <2>1. {f \in due : row[f].status \in Pending} \in SUBSET Events
    BY DEF Typed
  <2> QED BY <1>2, <1>4, <2>1 DEF Select
<1>5. CASE Expired(a, e)
  <2>1. /\ \A f \in Events : /\ row'[f].attempts = row[f].attempts
                             /\ f # e => row'[f].status = row[f].status
        /\ row'[e].status = "expired" /\ row[e].status # "absent" /\ e \in expired /\ Done(a, e)
        /\ tries' = tries /\ published' = published /\ late' = late /\ client' = client
        /\ expired' = expired
    BY <1>5 DEF Expired, Typed, Row, Flights, Flight
  <2>2. \A f \in actor[a].todo : row'[f].status # "absent"
    BY <2>1 DEF Flights, Flight, Typed, ActorState
  <2> QED BY <2>1, <2>2, Dones DEF Rest, StatusMoves
<1>6. ASSUME NEW f \in Events, f \in actor[a].now, Done(a, f),
             NEW s \in {"delivered", "retry", "dead_letter"}, row' = [row EXCEPT ![f].status = s],
             s = "dead_letter" => actor[a].mem[f] >= MaxAttempts,
             UNCHANGED <<tries, published, late, client, expired>>
      PROVE  Rest(a)
  <2>1. /\ \A g \in Events : /\ row'[g].attempts = row[g].attempts
                             /\ g # f => row'[g].status = row[g].status
        /\ row'[f].status = s
    BY <1>6 DEF Typed, Row
  <2>2. \A g \in actor[a].todo : row'[g].status # "absent"
    BY <2>1 DEF Flights, Flight, Typed, ActorState
  <2> QED BY <1>6, <2>1, <2>2, Dones DEF Rest, StatusMoves
<1>7. CASE Delivered(a)
  <2>1. PICK f \in actor[a].now : row' = [row EXCEPT ![f].status = "delivered"] /\ Done(a, f)
    BY <1>7 DEF Delivered
  <2>2. f \in Events /\ UNCHANGED <<tries, published, late, client, expired>>
    BY <1>7 DEF Delivered, Typed, ActorState
  <2> QED BY <1>6, <2>1, <2>2
<1>8. CASE Failed(a)
  <2>1. PICK f \in actor[a].now, s \in {"retry", "dead_letter"} :
           /\ row' = [row EXCEPT ![f].status = s] /\ Done(a, f)
           /\ s = "dead_letter" => actor[a].mem[f] >= MaxAttempts
    BY <1>8 DEF Failed
  <2>2. f \in Events /\ UNCHANGED <<tries, published, late, client, expired>>
    BY <1>8 DEF Failed, Typed, ActorState
  <2> QED BY <1>6, <2>1, <2>2
<1>9. CASE Crash(a)
  <2>1. /\ actor' = [actor EXCEPT ![a] = Idle]
        /\ UNCHANGED <<row, tries, published, late, client, expired>>
    BY <1>9 DEF Crash
  <2>2. actor'[a] = Idle /\ \A b \in Actors : b # a => actor'[b] = actor[b]
    BY <2>1 DEF Typed
  <2> QED BY <2>1, <2>2 DEF Rest, StatusMoves, Idle
<1> QED BY <1>1, <1>3, <1>4, <1>5, <1>7, <1>8, <1>9

LEMMA RestFlights ==
    ASSUME ReplayInv, DeliveryInv', NEW a \in Actors, Rest(a)
    PROVE  Flights'
<1> USE DEF ReplayInv
<1> SUFFICES ASSUME NEW e \in Events PROVE Flight(e)'
  BY DEF Flights
<1>1. /\ tries[e] \in Nat /\ row[e].attempts \in Nat /\ \A b \in Actors : actor[b].mem[e] \in Nat
      /\ MaxAttempts \in Nat
  BY RealtimeAssumption DEF DeliveryInv, Typed, Row, ActorState
<1>2. /\ (\E b \in Actors : e \in actor[b].now) \/ e \in published \/ row[e].status \in Replayable
            => tries[e] > 0
      /\ tries[e] > 0 => row[e].status \in Replayable \cup {"dead_letter", "expired"}
      /\ row[e].status = "expired" => e \in expired
      /\ \A b \in Actors : e \in actor[b].todo => row[e].status # "absent"
  BY DEF Flights, Flight
<1>3. \A b \in Actors : e \in actor[b].now =>
         /\ row[e].status \in Pending => row[e].attempts < tries[e]
         /\ row[e].status = "dead_letter" => tries[e] > MaxAttempts
         /\ \A c \in Actors \ {b} : /\ actor[c].mem[e] < tries[e]
                                    /\ e \in actor[c].now => row[e].attempts < tries[e]
  BY DEF Flights, Flight
<1>4. /\ tries' = tries /\ published' = published /\ expired' = expired
      /\ row'[e].attempts = row[e].attempts
      /\ \A b \in Actors : b # a => actor'[b] = actor[b]
      /\ actor'[a].now = {}
  BY DEF Rest
<1>5. StatusMoves(a, e) /\ (e \in actor'[a].todo => row'[e].status # "absent")
  BY DEF Rest
<1>6. (\E b \in Actors : e \in actor'[b].now) \/ e \in published' \/ row'[e].status \in Replayable
         => tries'[e] > 0
  BY <1>2, <1>4, <1>5 DEF StatusMoves, Replayable
<1>7. /\ tries'[e] > 0 => row'[e].status \in Replayable \cup {"dead_letter", "expired"}
      /\ row'[e].status = "expired" => e \in expired'
  BY <1>1, <1>2, <1>4, <1>5 DEF StatusMoves, Replayable
<1>8. \A b \in Actors : e \in actor'[b].todo => row'[e].status # "absent"
  BY <1>2, <1>4, <1>5 DEF StatusMoves
<1>9. ASSUME NEW b \in Actors, e \in actor'[b].now
      PROVE  /\ row'[e].status \in Pending => row'[e].attempts < tries'[e]
             /\ row'[e].status = "dead_letter" => tries'[e] > MaxAttempts
             /\ \A c \in Actors \ {b} : /\ actor'[c].mem[e] < tries'[e]
                                        /\ e \in actor'[c].now => row'[e].attempts < tries'[e]
  <2>1. b # a /\ e \in actor[b].now /\ tries[e] > 0
    BY <1>2, <1>4, <1>9
  <2>2. row[e].status \in Replayable \cup {"dead_letter", "expired"}
    BY <1>2, <2>1
  <2>3. actor[a].mem[e] < tries[e]
    BY <1>3, <2>1
  <2>4. row'[e].status \in Pending => row'[e].attempts < tries'[e]
    BY <1>3, <1>4, <1>5, <2>1, <2>2 DEF StatusMoves, Replayable, Pending
  <2>5. row'[e].status = "dead_letter" => tries'[e] > MaxAttempts
    BY <1>1, <1>3, <1>4, <1>5, <2>1, <2>3 DEF StatusMoves
  <2>6. actor'[a].mem[e] < tries[e]
    <3>1. \/ actor'[a].mem[e] \in {0, actor[a].mem[e]}
          \/ row[e].status \in Pending \cup {"absent"} /\ actor'[a].mem[e] = row[e].attempts
      BY DEF Rest
    <3> QED BY <1>1, <1>3, <2>1, <2>2, <2>3, <3>1 DEF Replayable
  <2>7. ASSUME NEW c \in Actors \ {b}
        PROVE  actor'[c].mem[e] < tries'[e] /\ (e \in actor'[c].now => row'[e].attempts < tries'[e])
    <3>1. CASE c = a
      BY <1>4, <2>6, <3>1
    <3>2. CASE c # a
      BY <1>3, <1>4, <2>1, <3>2
    <3> QED BY <3>1, <3>2
  <2> QED BY <2>4, <2>5, <2>7
<1> QED BY <1>6, <1>7, <1>8, <1>9 DEF Flight

\* Events are only ever numbered: a step that queues none leaves the cursors sound.
LEMMA SameCursors ==
    ASSUME Cursors, cursor' = cursor,
           \A e \in Events : row'[e].status = "absent" <=> row[e].status = "absent"
    PROVE  Cursors'
<1>1. Queued' = Queued
  BY DEF Queued
<1> QED BY <1>1 DEF Cursors

LEMMA PublishCursors ==
    ASSUME ReplayInv, DeliveryInv', NEW a \in Actors, NEW e \in Events, NEW b \in BOOLEAN, Publish(a, e, b)
    PROVE  Cursors' /\ \A f \in Events : f # e => cursor'[f] = cursor[f]
<1> USE DEF ReplayInv
<1>1. PICK n : n = Cardinality(Queued)
  OBVIOUS
<1>2. cursor' = [cursor EXCEPT ![e] = 1 + n] /\ row[e].status = "absent"
  BY <1>1 DEF Publish, Queued
<1>3. IsFiniteSet(Queued) /\ e \notin Queued /\ Queued \in SUBSET Events /\ n \in Nat
  <2>1. Queued \in SUBSET Events /\ e \notin Queued
    BY <1>2 DEF Queued, Cursors
  <2>2. IsFiniteSet(Queued)
    BY <2>1, FS_Subset, RealtimeAssumption
  <2> QED BY <1>1, <2>1, <2>2, FS_CardinalityType
<1>4. Queued' = Queued \cup {e}
  BY <1>2, <1>3 DEF Queued, Cursors
<1>5. Cardinality(Queued') = n + 1
  BY <1>1, <1>3, <1>4, FS_AddElement
<1>6. n + 1 <= MaxCursor
  <2>1. Queued \cup {e} \in SUBSET Events
    BY <1>3
  <2> QED BY <1>4, <1>5, <2>1, FS_Subset, RealtimeAssumption DEF MaxCursor
<1>7. \A f \in Events : /\ cursor[f] \in 0..MaxCursor /\ cursor[f] <= n
                        /\ f # e => cursor'[f] = cursor[f] /\ (row'[f].status = "absent" <=> row[f].status = "absent")
  <2>1. \A f \in Events : f # e => row'[f] = row[f]
    BY DEF Publish, DeliveryInv, Typed
  <2> QED BY <1>1, <1>2, <2>1 DEF Cursors
<1>8. cursor'[e] = n + 1 /\ cursor' \in [Events -> 0..MaxCursor]
  BY <1>2, <1>3, <1>6, MaxCursorType DEF Cursors
<1>9. row'[e].status # "absent"
  <2>1. PICK s \in {"queued", "scheduled"} : row' = [row EXCEPT ![e].status = s]
    BY DEF Publish
  <2> QED BY <2>1 DEF DeliveryInv, Typed, Row
<1>10. \A f \in Events : cursor'[f] = 0 <=> row'[f].status = "absent"
  BY <1>3, <1>7, <1>8, <1>9 DEF Cursors
<1>11. \A f \in Events : cursor'[f] <= Cardinality(Queued')
  BY <1>3, <1>5, <1>7, <1>8
<1>12. \A f, g \in Queued' : cursor'[f] = cursor'[g] => f = g
  <2>1. \A f \in Queued : f \in Events /\ f # e /\ cursor'[f] = cursor[f] /\ cursor'[f] # n + 1
    BY <1>3, <1>7
  <2>2. \A f, g \in Queued : cursor[f] = cursor[g] => f = g
    BY DEF Cursors
  <2> QED BY <1>4, <1>8, <2>1, <2>2
<1> QED BY <1>7, <1>8, <1>10, <1>11, <1>12 DEF Cursors

\* A step that leaves client and publications alone, and opens nothing that was closed
\* to a replay.
LEMMA SameClient ==
    ASSUME ReplayInv, client' = client, published' = published, late' = late,
           expired' \in SUBSET Events,
           \A e \in Events : tries[e] > 0 => tries'[e] > 0 /\ cursor'[e] = cursor[e],
           \A e \in published : Awaited(e)' => Awaited(e)
    PROVE  CaughtUp'
<1> USE DEF ReplayInv
<1>1. client.got \in SUBSET Events /\ published \in SUBSET Events
  BY DEF CaughtUp, Client, DeliveryInv, Typed
<1>2. ASSUME NEW n, Seen(n) PROVE n = 0 \/ \E e \in client'.got : tries'[e] > 0 /\ n = cursor'[e]
  BY <1>1, <1>2 DEF Seen
<1>3. Seen(client.after)' /\ Seen(client.frame)'
  BY <1>2 DEF CaughtUp, Seen
<1>4. \A e \in published : tries[e] > 0 /\ cursor'[e] = cursor[e]
  BY <1>1 DEF Flights, Flight
<1>5. ASSUME NEW e \in published' \ (late' \cup client'.before), Awaited(e)'
      PROVE  \/ e \in client'.got
             \/ client'.socket = "off" /\ client'.after < cursor'[e]
             \/ client'.socket = "live" /\ client'.frame < cursor'[e]
  <2>1. Awaited(e) /\ e \in published \ (late \cup client.before)
    BY <1>5
  <2> QED BY <1>4, <2>1 DEF CaughtUp
<1>6. client' \in Client' /\ late' \in SUBSET Events
  BY DEF CaughtUp, Client, MaxCursor
<1> QED BY <1>3, <1>5, <1>6 DEF CaughtUp

\* A published event that expired, or was given up within the allowed attempts, is not
\* opened to replays again.
LEMMA RestClient ==
    ASSUME ReplayInv, NEW a \in Actors, Rest(a),
           \A e \in Events : tries[e] > 0 => cursor'[e] = cursor[e]
    PROVE  CaughtUp'
<1> USE DEF ReplayInv
<1>1. /\ tries' = tries /\ published' = published /\ late' = late /\ client' = client
      /\ expired' = expired
  BY DEF Rest
<1>2. ASSUME NEW e \in published, Awaited(e)' PROVE Awaited(e)
  <2>1. e \in Events /\ tries[e] \in Nat /\ MaxAttempts \in Nat
    BY RealtimeAssumption DEF DeliveryInv, Typed
  <2>2. /\ row'[e].status \in Replayable /\ e \notin expired /\ tries[e] <= MaxAttempts
    BY <1>1, <1>2 DEF Awaited
  <2>3. row[e].status \in Replayable \cup {"dead_letter"}
    BY <2>1, <2>2 DEF Flights, Flight
  <2>4. row[e].status = "dead_letter" => e \notin actor[a].now
    BY <2>1, <2>2 DEF Flights, Flight
  <2>5. StatusMoves(a, e)
    BY <2>1 DEF Rest
  <2>6. row[e].status # "dead_letter"
    BY <2>2, <2>4, <2>5 DEF StatusMoves, Replayable
  <2> QED BY <2>2, <2>3, <2>6 DEF Awaited
<1>3. expired' \in SUBSET Events
  BY <1>1 DEF CaughtUp
<1> QED BY <1>1, <1>2, <1>3, SameClient

LEMMA BeginReplayInv ==
    ASSUME ReplayInv, DeliveryInv', NEW a \in Actors, NEW e \in Events, e \in actor[a].todo, Begin(a, e)
    PROVE  ReplayInv'
<1> USE DEF ReplayInv
<1>1. /\ actor[a].now = {} /\ e \notin expired
      /\ UNCHANGED <<cursor, due, expired, published, late, client>>
  BY DEF Begin
<1>2. /\ row'[e].status = "publishing" /\ row'[e].attempts = actor[a].mem[e] + 1
      /\ tries'[e] = tries[e] + 1
      /\ \A f \in Events : f # e => row'[f] = row[f] /\ tries'[f] = tries[f]
  BY DEF Begin, DeliveryInv, Typed
<1>3. /\ \A b \in Actors : b # a => actor'[b] = actor[b]
      /\ actor'[a].now = {e} /\ actor'[a].todo = actor[a].todo
      /\ \A f \in Events : actor'[a].mem[f] = IF f = e THEN actor[a].mem[e] + 1 ELSE actor[a].mem[f]
  <2>1. \A b \in Actors : b # a => actor'[b] = actor[b]
    BY DEF Begin, DeliveryInv, Typed
  <2>2. actor'[a] = Working(actor[a], e) /\ actor[a] \in ActorState
    BY DEF Begin, DeliveryInv, Typed
  <2> QED BY <2>1, <2>2 DEF Working, ActorState
<1>4. /\ \A f \in Events : tries[f] \in Nat /\ row[f].attempts \in Nat
                           /\ \A b \in Actors : actor[b].mem[f] \in Nat /\ actor[b].mem[f] <= tries[f]
      /\ MaxAttempts \in Nat
  BY RealtimeAssumption DEF DeliveryInv, Typed, Row, ActorState, Counted
<1>5. Flights'
  <2>1. ASSUME NEW f \in Events
        PROVE  /\ (\E b \in Actors : f \in actor'[b].now) \/ f \in published' \/ row'[f].status \in Replayable
                     => tries'[f] > 0
               /\ tries'[f] > 0 => row'[f].status \in Replayable \cup {"dead_letter", "expired"}
               /\ row'[f].status = "expired" => f \in expired'
               /\ \A b \in Actors : f \in actor'[b].todo => row'[f].status # "absent"
    <3>1. CASE f = e
      BY <1>2, <1>4, <3>1 DEF Replayable
    <3>2. CASE f # e
      BY <1>1, <1>2, <1>3, <3>2 DEF Flights, Flight
    <3> QED BY <3>1, <3>2
  <2>2. ASSUME NEW f \in Events, NEW b \in Actors, f \in actor'[b].now
        PROVE  /\ row'[f].status \in Pending => row'[f].attempts < tries'[f]
               /\ row'[f].status = "dead_letter" => tries'[f] > MaxAttempts
               /\ \A c \in Actors \ {b} : /\ actor'[c].mem[f] < tries'[f]
                                          /\ f \in actor'[c].now => row'[f].attempts < tries'[f]
    <3>1. CASE f = e
      <4>1. b # a => actor[a].mem[e] < tries[e]
        BY <1>3, <2>2, <3>1 DEF Flights, Flight
      <4>2. ASSUME NEW c \in Actors \ {b}
            PROVE  actor'[c].mem[e] < tries'[e] /\ (e \in actor'[c].now => row'[e].attempts < tries'[e])
        <5>1. CASE c = a
          BY <1>2, <1>3, <1>4, <4>1, <5>1
        <5>2. CASE c # a
          <6>1. actor'[c].mem[e] < tries'[e]
            BY <1>2, <1>3, <1>4, <5>2
          <6>2. e \in actor[c].now => actor[a].mem[e] < tries[e]
            BY <5>2 DEF Flights, Flight
          <6> QED BY <1>2, <1>3, <1>4, <5>2, <6>1, <6>2
        <5> QED BY <5>1, <5>2
      <4> QED BY <1>2, <3>1, <4>2 DEF Pending
    <3>2. CASE f # e
      <4>1. b # a /\ f \in actor[b].now
        BY <1>3, <2>2, <3>2
      <4>2. \A c \in Actors : actor'[c].mem[f] = actor[c].mem[f] /\ (f \in actor'[c].now => f \in actor[c].now)
        BY <1>3, <3>2
      <4>3. row'[f] = row[f] /\ tries'[f] = tries[f]
        BY <1>2, <3>2
      <4>4. /\ row[f].status \in Pending => row[f].attempts < tries[f]
            /\ row[f].status = "dead_letter" => tries[f] > MaxAttempts
            /\ \A c \in Actors \ {b} : /\ actor[c].mem[f] < tries[f]
                                       /\ f \in actor[c].now => row[f].attempts < tries[f]
        BY <4>1 DEF Flights, Flight
      <4> QED BY <4>2, <4>3, <4>4
    <3> QED BY <3>1, <3>2
  <2> QED BY <2>1, <2>2 DEF Flights, Flight
<1>6. Cursors'
  <2>1. row[e].status # "absent"
    BY DEF Flights, Flight
  <2> QED BY <1>1, <1>2, <2>1, SameCursors
<1>7. CaughtUp'
  <2>1. ASSUME NEW f \in published, Awaited(f)' PROVE Awaited(f)
    <3>1. f \in Events /\ tries[f] > 0 /\ (row[f].status = "dead_letter" => tries[f] >= MaxAttempts)
      BY DEF DeliveryInv, Typed, Flights, Flight, NeverGivesUpEarly
    <3>2. row'[f].status \in Replayable /\ f \notin expired /\ tries'[f] <= MaxAttempts
      BY <1>1, <2>1 DEF Awaited
    <3>3. row[f].status \in Replayable \cup {"dead_letter"}
      BY <3>1, <3>2 DEF Flights, Flight
    <3>4. CASE f = e
      <4>1. tries[e] < MaxAttempts
        BY <1>2, <1>4, <3>2, <3>4
      <4> QED BY <1>4, <3>1, <3>2, <3>3, <3>4, <4>1 DEF Awaited
    <3>5. CASE f # e
      BY <1>2, <3>1, <3>2, <3>5 DEF Awaited
    <3> QED BY <3>4, <3>5
  <2>2. \A f \in Events : tries[f] > 0 => tries'[f] > 0 /\ cursor'[f] = cursor[f]
    BY <1>1, <1>2, <1>4
  <2>3. expired' \in SUBSET Events
    BY <1>1 DEF CaughtUp
  <2> QED BY <1>1, <2>1, <2>2, <2>3, SameClient
<1> QED BY <1>5, <1>6, <1>7

\* Elapse, Expire, the socket and HubPublish leave rows and counts as they are.
LEMMA SameFlights ==
    ASSUME ReplayInv, UNCHANGED <<row, tries>>, expired \subseteq expired',
           \A e \in published' : e \in published \/ \E a \in Actors : e \in actor[a].now,
           \A a \in Actors : /\ actor'[a].mem = actor[a].mem /\ actor'[a].now = actor[a].now
                             /\ actor'[a].todo = actor[a].todo
    PROVE  Flights'
<1> SUFFICES ASSUME NEW e \in Events PROVE Flight(e)'
  BY DEF Flights
<1> QED BY DEF ReplayInv, Flights, Flight

\* hub.publish: an event that is not late has the highest cursor that was begun, so that a
\* client which is away and has seen no higher cursor will replay it.
LEMMA HubReplayInv ==
    ASSUME ReplayInv, DeliveryInv', NEW a \in Actors, HubPublish(a)
    PROVE  ReplayInv'
<1> USE DEF ReplayInv
<1>1. /\ UNCHANGED <<row, cursor, due, expired, tries>>
      /\ published' = published \cup actor[a].now
      /\ late' = late \cup {e \in actor[a].now \ published :
                              \E f \in Events : tries[f] > 0 /\ cursor[f] > cursor[e]}
  BY DEF HubPublish
<1>2. \A b \in Actors : /\ actor'[b].mem = actor[b].mem /\ actor'[b].now = actor[b].now
                        /\ actor'[b].todo = actor[b].todo
  BY DEF HubPublish, DeliveryInv, Typed, ActorState
<1>3. Flights'
  BY <1>1, <1>2, SameFlights
<1>4. Cursors'
  BY <1>1, SameCursors
<1>5. actor[a].now \in SUBSET Events /\ client \in Client /\ late' \in SUBSET Events
  BY <1>1 DEF DeliveryInv, Typed, ActorState, CaughtUp
<1>6. /\ client' \in Client /\ client'.socket = client.socket /\ client'.frame = client.frame
      /\ client'.before = client.before
      /\ client.got \subseteq client'.got
      /\ client.socket # "off" => actor[a].now \subseteq client'.got
      /\ client.socket = "off" => client'.after = client.after
      /\ \/ client'.after = client.after
         \/ \E e \in actor[a].now \cap client'.got : client'.after = cursor[e]
  <2>1. CASE client.socket = "off"
    BY <1>5, <2>1 DEF HubPublish
  <2>2. CASE client.socket # "off"
    <3>1. client' = Receive(client, actor[a].now)
      BY <2>2 DEF HubPublish
    <3> QED BY <1>5, <2>2, <3>1, Received
  <2> QED BY <2>1, <2>2
<1>7. Seen(client.after)' /\ Seen(client.frame)'
  <2>1. \A e \in actor[a].now : tries[e] > 0
    BY <1>5 DEF Flights, Flight
  <2>2. ASSUME NEW n, Seen(n) PROVE n = 0 \/ \E e \in client'.got : tries'[e] > 0 /\ n = cursor'[e]
    BY <1>1, <1>6, <2>2 DEF Seen
  <2>3. Seen(client.after) /\ Seen(client.frame)
    BY DEF CaughtUp
  <2>4. client'.frame = 0 \/ \E e \in client'.got : tries'[e] > 0 /\ client'.frame = cursor'[e]
    BY <1>6, <2>2, <2>3
  <2>5. client'.after = 0 \/ \E e \in client'.got : tries'[e] > 0 /\ client'.after = cursor'[e]
    BY <1>1, <1>6, <2>1, <2>2, <2>3
  <2> QED BY <2>4, <2>5 DEF Seen
<1>8. ASSUME NEW e \in published' \ (late' \cup client'.before), Awaited(e)'
      PROVE  \/ e \in client'.got
             \/ client'.socket = "off" /\ client'.after < cursor'[e]
             \/ client'.socket = "live" /\ client'.frame < cursor'[e]
  <2>1. Awaited(e)
    BY <1>1, <1>8 DEF Awaited
  <2>2. CASE e \in published
    BY <1>1, <1>6, <1>8, <2>1, <2>2 DEF CaughtUp
  <2>3. CASE e \notin published
    <3>1. e \in actor[a].now /\ e \in Events /\ \A f \in Events : tries[f] > 0 => ~(cursor[f] > cursor[e])
      BY <1>1, <1>5, <1>8, <2>3
    <3>2. CASE client.socket # "off"
      BY <1>6, <3>1, <3>2
    <3>3. CASE client.socket = "off"
      <4>1. /\ e \in Queued /\ \A f \in Events : cursor[f] \in Nat
        <5>1. tries[e] > 0
          BY <3>1 DEF Flights, Flight
        <5>2. row[e].status # "absent"
          BY <3>1, <5>1 DEF Flights, Flight, Replayable
        <5>3. e \in Queued
          BY <3>1, <5>2 DEF Cursors, Queued
        <5>4. \A f \in Events : cursor[f] \in Nat
          BY MaxCursorType DEF Cursors
        <5> QED BY <5>3, <5>4
      <4>2. CASE client.after = 0
        BY <1>1, <1>6, <3>1, <3>3, <4>1, <4>2 DEF Queued
      <4>3. CASE client.after # 0
        <5>1. PICK f \in client.got : tries[f] > 0 /\ client.after = cursor[f]
          BY <4>3 DEF CaughtUp, Seen
        <5>2. f \in Queued /\ f \in Events
          BY <1>5, <4>3, <5>1 DEF Client, Queued
        <5>3. CASE f = e
          BY <1>6, <5>1, <5>3
        <5>4. CASE f # e
          <6>1. cursor[f] # cursor[e]
            BY <4>1, <5>2, <5>4 DEF Cursors
          <6>2. client.after < cursor[e]
            BY <3>1, <4>1, <5>1, <5>2, <6>1
          <6> QED BY <1>1, <1>6, <3>3, <6>2
        <5> QED BY <5>3, <5>4
      <4> QED BY <4>2, <4>3
    <3> QED BY <3>2, <3>3
  <2> QED BY <2>2, <2>3
<1>9. CaughtUp'
  <2>1. expired' \in SUBSET Events
    BY <1>1 DEF CaughtUp
  <2>2. client' \in Client'
    BY <1>6 DEF Client, MaxCursor
  <2> QED BY <1>5, <1>7, <1>8, <2>1, <2>2 DEF CaughtUp
<1> QED BY <1>3, <1>4, <1>9

\* What an event's time, the socket or a replay changes.
LEMMA SocketReplayInv ==
    ASSUME ReplayInv, DeliveryInv',
           \/ \E e \in Events : Elapse(e) \/ Expire(e)
           \/ Disconnect \/ Connect \/ Replay
           \/ UNCHANGED vars
    PROVE  /\ ReplayInv'
           /\ Replay => \A e \in published \ (late \cup client.before) : Awaited(e) => e \in client'.got
<1> USE DEF ReplayInv
<1>1. /\ UNCHANGED <<row, cursor, tries, published, late, actor>>
      /\ expired \subseteq expired' /\ expired' \in SUBSET Events
  BY DEF Elapse, Expire, Disconnect, Connect, Replay, vars, CaughtUp
<1>2. Flights' /\ Cursors'
  BY <1>1, SameFlights, SameCursors
<1>3. \A e \in published : Awaited(e)' => Awaited(e)
  BY <1>1 DEF Awaited
<1>4. CASE client' = client
  <2>1. CaughtUp'
    BY <1>1, <1>3, <1>4, SameClient
  <2>2. ~Replay
    <3>1. client \in Client
      BY DEF CaughtUp
    <3>2. client'.socket = "replayed" => client.socket # "live"
      BY <1>4
    <3>3. Replay => client'.socket = "replayed" /\ client.socket = "live"
      <4>1. ReplayEvents(client.frame) \in SUBSET Events
        BY DEF ReplayEvents
      <4>2. Receive(client, ReplayEvents(client.frame)) \in Client
        BY <3>1, <4>1, Received
      <4> QED BY <4>2 DEF Replay, Client
    <3> QED BY <3>2, <3>3
  <2> QED BY <1>2, <2>1, <2>2
<1>5. client \in Client /\ late' \in SUBSET Events
  BY <1>1 DEF CaughtUp
<1>6. ASSUME client' \in Client,
             client.got \subseteq client'.got,
             \A n \in {client'.after, client'.frame} :
                \/ n \in {client.after, client.frame}
                \/ \E f \in client'.got : tries[f] > 0 /\ n = cursor[f],
             \A e \in published \ (late \cup client'.before) : Awaited(e) =>
                \/ e \in client'.got
                \/ client'.socket = "off" /\ client'.after < cursor[e]
                \/ client'.socket = "live" /\ client'.frame < cursor[e]
      PROVE  ReplayInv'
  <2>1. \A n \in {client'.after, client'.frame} :
           n = 0 \/ \E f \in client'.got : tries[f] > 0 /\ n = cursor[f]
    BY <1>6 DEF CaughtUp, Seen
  <2>2. Seen(client.after)' /\ Seen(client.frame)'
    BY <1>1, <2>1 DEF Seen
  <2>3. client' \in Client'
    BY <1>6 DEF Client, MaxCursor
  <2>4. \A e \in published' \ (late' \cup client'.before) : Awaited(e)' =>
           \/ e \in client'.got
           \/ client'.socket = "off" /\ client'.after < cursor'[e]
           \/ client'.socket = "live" /\ client'.frame < cursor'[e]
    BY <1>1, <1>3, <1>6
  <2>5. CaughtUp'
    BY <1>1, <1>5, <2>2, <2>3, <2>4 DEF CaughtUp
  <2> QED BY <1>2, <2>5
<1>7. CASE Disconnect
  <2>1. /\ client' \in Client /\ client'.got = client.got /\ client'.frame = client.frame
        /\ client'.before = client.before
        /\ client'.socket = "off" /\ client.socket \in {"live", "replayed"}
        /\ client.socket = "live" => client'.after = client.frame
        /\ client.socket = "replayed" => client'.after = client.after
    BY <1>5, <1>7 DEF Disconnect, Client
  <2>2. ~Replay
    <3>1. Replay => client'.socket = "replayed"
      <4>1. ReplayEvents(client.frame) \in SUBSET Events
        BY DEF ReplayEvents
      <4>2. Receive(client, ReplayEvents(client.frame)) \in Client
        BY <1>5, <4>1, Received
      <4> QED BY <4>2 DEF Replay, Client
    <3> QED BY <2>1, <3>1
  <2> QED BY <1>6, <2>1, <2>2 DEF CaughtUp
<1>8. CASE Connect
  <2>0. published \in SUBSET Events /\ client.socket = "off" /\ ~Replay
    BY <1>8 DEF DeliveryInv, Typed, Connect, Replay
  <2>1. CASE client.after = 0
    <3>1. /\ client' \in Client /\ client'.got = client.got /\ client'.after = client.after
          /\ client'.frame = client.frame /\ client'.before = published
      BY <1>5, <1>8, <2>0, <2>1 DEF Connect, Client
    <3>2. published \ (late \cup client'.before) = {}
      BY <3>1
    <3> QED BY <1>6, <2>0, <3>1, <3>2
  <2>2. CASE client.after # 0
    <3>1. /\ client' \in Client /\ client'.got = client.got /\ client'.after = client.after
          /\ client'.socket = "live" /\ client'.frame = client.after
          /\ client'.before = client.before
      BY <1>5, <1>8, <2>2 DEF Connect, Client
    <3> QED BY <1>6, <2>0, <3>1 DEF CaughtUp
  <2> QED BY <2>1, <2>2
<1>9. CASE Replay
  <2>1. ReplayEvents(client.frame) \in SUBSET Events /\ client.socket = "live"
    BY <1>9 DEF ReplayEvents, Replay
  <2>2. PICK c : c = Receive(client, ReplayEvents(client.frame))
    OBVIOUS
  <2>3. /\ c \in Client /\ c.got = client.got \cup ReplayEvents(client.frame) /\ c.frame = client.frame
        /\ c.before = client.before
        /\ c.after = client.after \/ \E e \in ReplayEvents(client.frame) : c.after = cursor[e]
    BY <1>5, <2>1, <2>2, Received
  <2>4. /\ client' \in Client /\ client'.got = client.got \cup ReplayEvents(client.frame)
        /\ client'.frame = client.frame /\ client'.after = c.after /\ client'.socket = "replayed"
        /\ client'.before = client.before
    <3>1. client' = [c EXCEPT !.socket = "replayed"]
      BY <1>9, <2>2 DEF Replay
    <3> QED BY <2>3, <3>1 DEF Client
  <2>5. ASSUME NEW e \in published \ (late \cup client.before), Awaited(e) PROVE e \in client'.got
    <3>1. e \in Events /\ cursor[e] \in Nat /\ client.frame \in Nat
      BY <1>5, MaxCursorType DEF DeliveryInv, Typed, Cursors, Client
    <3>2. e \in client.got \/ client.frame < cursor[e]
      BY <2>1, <2>5 DEF CaughtUp
    <3>3. client.frame < cursor[e] => e \in ReplayEvents(client.frame)
      BY <2>5, <3>1 DEF ReplayEvents, Awaited
    <3> QED BY <2>4, <3>2, <3>3
  <2>6. \A e \in ReplayEvents(client.frame) : tries[e] > 0
    BY DEF ReplayEvents, Flights, Flight
  <2>7. ReplayInv'
    BY <1>6, <2>3, <2>4, <2>5, <2>6
  <2> QED BY <2>5, <2>7
<1> QED BY <1>4, <1>7, <1>8, <1>9 DEF Elapse, Expire, vars

-----------------------------------------------------------------------------
(* The theorem.                                                            *)

LEMMA ReplayInvInit == Init => ReplayInv
<1> SUFFICES ASSUME Init PROVE ReplayInv
  OBVIOUS
<1>1. Flights
  BY DEF Init, Flights, Flight, Absent, Idle, Replayable
<1>2. Cursors
  <2>1. Queued = {} /\ Cardinality(Queued) \in Nat
    BY FS_EmptySet DEF Init, Queued
  <2> QED BY <2>1, MaxCursorType DEF Init, Cursors, Absent
<1>3. CaughtUp
  BY MaxCursorType DEF Init, CaughtUp, Client, Seen
<1> QED BY <1>1, <1>2, <1>3, DeliveryInvInit DEF ReplayInv

LEMMA ReplayInvNext ==
    ReplayInv /\ [Next]_vars =>
       /\ ReplayInv'
       /\ Replay => \A e \in published \ (late \cup client.before) : Awaited(e) => e \in client'.got
<1> SUFFICES ASSUME ReplayInv, [Next]_vars
             PROVE  /\ ReplayInv'
                    /\ Replay => \A e \in published \ (late \cup client.before) : Awaited(e) => e \in client'.got
  OBVIOUS
<1>0. DeliveryInv'
  BY DeliveryInvNext DEF ReplayInv
<1>1. CASE Replay
  BY <1>0, <1>1, SocketReplayInv
<1>2. ASSUME NEW a \in Actors, Rest(a),
             \/ cursor' = cursor /\ \A e \in Events : row'[e].status = "absent" <=> row[e].status = "absent"
             \/ \E e \in Events, b \in BOOLEAN : Publish(a, e, b)
      PROVE  ReplayInv'
  <2>1. Flights'
    BY <1>0, <1>2, RestFlights
  <2>2. Cursors' /\ \A e \in Events : tries[e] > 0 => cursor'[e] = cursor[e]
    <3>1. CASE cursor' = cursor /\ \A e \in Events : row'[e].status = "absent" <=> row[e].status = "absent"
      BY <3>1, SameCursors DEF ReplayInv
    <3>2. ASSUME NEW e \in Events, NEW b \in BOOLEAN, Publish(a, e, b)
          PROVE  Cursors' /\ \A f \in Events : tries[f] > 0 => cursor'[f] = cursor[f]
      <4>1. Cursors' /\ \A f \in Events : f # e => cursor'[f] = cursor[f]
        BY <1>0, <3>2, PublishCursors
      <4>2. ~(tries[e] > 0)
        BY <3>2 DEF Publish, ReplayInv, Flights, Flight, Replayable
      <4> QED BY <4>1, <4>2
    <3> QED BY <1>2, <3>1, <3>2
  <2>3. CaughtUp'
    BY <1>2, <2>2, RestClient
  <2> QED BY <1>0, <2>1, <2>2, <2>3 DEF ReplayInv
<1>3. ASSUME NEW a \in Actors, NEW e \in Events,
             PublishAgain(a, e) \/ Select(a) \/ Expired(a, e) \/ Delivered(a) \/ Failed(a) \/ Crash(a)
      PROVE  ReplayInv'
  <2>1. Rest(a) /\ cursor' = cursor
    BY <1>3, RestSteps DEF PublishAgain, Select, Expired, Delivered, Failed, Crash
  <2>2. ASSUME NEW f \in Events PROVE row'[f].status = "absent" <=> row[f].status = "absent"
    <3>1. StatusMoves(a, f)
      BY <2>1 DEF Rest
    <3>2. f \in actor[a].now => row[f].status # "absent"
      BY DEF ReplayInv, Flights, Flight, Replayable
    <3>3. row[f].status = "absent" => row'[f].status \notin {"queued", "scheduled"}
      BY <1>3 DEF PublishAgain, Select, Expired, Delivered, Failed, Crash, ReplayInv, DeliveryInv, Typed, Row
    <3> QED BY <3>1, <3>2, <3>3 DEF StatusMoves
  <2> QED BY <1>2, <2>1, <2>2
<1>4. ASSUME NEW a \in Actors, NEW e \in Events, NEW b \in BOOLEAN, Publish(a, e, b) PROVE ReplayInv'
  BY <1>2, <1>4, RestSteps
<1>5. ASSUME NEW a \in Actors, Select(a) \/ Deliver(a) \/ Crash(a) PROVE ReplayInv'
  <2>1. CASE HubPublish(a)
    BY <1>0, <2>1, HubReplayInv
  <2>2. ASSUME NEW e \in actor[a].todo, Expired(a, e) \/ Begin(a, e) PROVE ReplayInv'
    <3>1. e \in Events
      BY DEF ReplayInv, DeliveryInv, Typed, ActorState
    <3> QED BY <1>0, <1>3, <2>2, <3>1, BeginReplayInv
  <2>3. CASE Select(a) \/ Delivered(a) \/ Failed(a)
    <3>1. PICK e \in Events : TRUE
      BY <2>3 DEF Select, Delivered, Failed, ReplayInv, DeliveryInv, Typed, ActorState
    <3> QED BY <1>3, <2>3, <3>1
  <2>4. CASE Crash(a)
    <3>1. CASE Events = {}
      <4>1. UNCHANGED <<row, cursor, expired, tries, published, late, client>> /\ Rest(a)
        <5>1. /\ actor' = [actor EXCEPT ![a] = Idle]
              /\ UNCHANGED <<row, cursor, expired, tries, published, late, client>>
          BY <2>4 DEF Crash
        <5>2. actor'[a] = Idle /\ \A b \in Actors : b # a => actor'[b] = actor[b]
          BY <5>1 DEF ReplayInv, DeliveryInv, Typed
        <5> QED BY <3>1, <5>1, <5>2 DEF Rest, Idle
      <4> QED BY <1>2, <4>1
    <3>2. CASE Events # {}
      BY <1>3, <2>4, <3>2
    <3> QED BY <3>1, <3>2
  <2> QED BY <1>5, <2>1, <2>2, <2>3, <2>4 DEF Deliver
<1>6. CASE (\E e \in Events : Elapse(e) \/ Expire(e)) \/ Disconnect \/ Connect \/ UNCHANGED vars
  BY <1>0, <1>6, SocketReplayInv
<1>7. ReplayInv'
  BY <1>1, <1>3, <1>4, <1>5, <1>6 DEF Next
<1> QED BY <1>1, <1>7

\* Durable replay, for any number of actors, crashes and reconnects: after a replay from its
\* cursor the client has every event published in cursor order since it first connected that
\* replay_events may still return.
THEOREM ReplayIsComplete == Spec => ReplayCatchesUp
<1>1. ReplayInv /\ [Next]_vars =>
         [Replay => \A e \in published \ (late \cup client.before) :
                       row[e].status \in Replayable /\ e \notin expired /\ tries[e] <= MaxAttempts
                       => e \in client'.got]_vars
  BY ReplayInvNext DEF Awaited
<1>2. ReplayInv /\ [Next]_vars => ReplayInv'
  BY ReplayInvNext
<1> QED BY <1>1, <1>2, ReplayInvInit, PTL DEF Spec, ReplayCatchesUp

-----------------------------------------------------------------------------
(* RealtimeChat: what clients are told.                                    *)

\* Columns of a message row, without which a request could not write it.
Columns == {"sender", "body", "edited", "deleted"}
IsRow(x) == DOMAIN x = Columns

Stored(m) == message[m] # Chat!NoMessage
TextTypes == {"message", "edited"}

\* A stored message, an event about one and a request under way.
MessageSound(m) ==
  Stored(m) => /\ IsRow(message[m]) /\ message[m].sender # {}
               /\ message[m].edited \in 0..requests /\ message[m].deleted \in Nat

\* A text that was told with the edit time the message has is the text it has.
CopySound(m, type, copy) ==
  /\ m \in Messages /\ Stored(m) /\ type \in TextTypes \cup {"deleted"} /\ copy.edited \in 0..requests
  /\ type = "edited" => copy.edited # 0
  /\ type \in TextTypes /\ copy.edited = message[m].edited => copy.body = message[m].body

EventSound(e) ==
  /\ CopySound(e.key.m, e.key.type, e.copy)
  /\ e.key.type = "edited" => e.key.time = e.copy.edited

RequestSound(t) ==
  LET r == thread[t] IN
  /\ r.at \in {"idle", "send", "edit", "delete", "refresh", "emit", "receipt"}
  /\ r.at = "send" => r.m \in Messages /\ IsRow(r.new) /\ r.new.sender # {} /\ r.new.edited = 0 /\ r.new.deleted = 0
  /\ r.at \in {"edit", "delete"} => r.m \in Messages /\ Stored(r.m) /\ r.new.sender = r.loaded.sender
  /\ r.at = "edit" => /\ r.new.deleted = r.loaded.deleted /\ r.new.edited # r.loaded.edited
                      /\ r.new.edited \in 1..requests
  /\ r.at = "delete" => /\ r.new.body = r.loaded.body /\ r.new.edited = r.loaded.edited
                        /\ r.new.deleted # r.loaded.deleted /\ r.new.deleted \in Nat \ {0}
                        /\ r.new.edited \in 0..requests
  /\ r.at = "refresh" => /\ r.m \in Messages /\ Stored(r.m) /\ r.type \in TextTypes
                         /\ r.type = "edited" => message[r.m].edited # 0
  /\ r.at = "emit" => CopySound(r.m, r.type, r.copy)

\* The time of an edit to come is no one else's.
EditFresh(t) ==
  LET k == thread[t].new.edited IN
  thread[t].at = "edit" =>
    /\ \A m \in Messages : Stored(m) => message[m].edited # k
    /\ \A e \in events : e.copy.edited # k
    /\ \A s \in Threads : /\ thread[s].at = "emit" => thread[s].copy.edited # k
                          /\ thread[s].at \in {"edit", "delete"} /\ s # t => thread[s].new.edited # k

\* Request t is about to tell of message m.
Tells(t, m) == thread[t].at \in {"refresh", "emit"} /\ thread[t].m = m
Announces(t, m) == Tells(t, m) /\ thread[t].type = "message"

\* That a message exists is told once: it was, or the request that inserted it will.
ToldOnce(m) ==
  /\ \A e, f \in Chat!Told(m, "message") : e = f
  /\ \A s, t \in Threads : Announces(s, m) /\ Announces(t, m) => s = t
  /\ \A t \in Threads : Announces(t, m) => Chat!Told(m, "message") = {}
  /\ Stored(m) /\ m \notin lost => Chat!Told(m, "message") # {} \/ \E t \in Threads : Announces(t, m)

\* The text as it is was told, or a request will tell it.
TextTold(m) ==
  Stored(m) /\ m \notin lost =>
    \/ \E e \in events : e.key.m = m /\ e.key.type \in TextTypes /\ e.copy.edited = message[m].edited
    \/ \E t \in Threads : /\ Tells(t, m) /\ thread[t].type \in TextTypes
                          /\ thread[t].at = "emit" => thread[t].copy.edited = message[m].edited

DeletionTold(m) ==
  Stored(m) /\ m \notin lost /\ message[m].deleted # 0 =>
    \/ Chat!Told(m, "deleted") # {}
    \/ \E t \in Threads : Tells(t, m) /\ thread[t].at = "emit" /\ thread[t].type = "deleted"

ChatInv ==
  /\ requests \in Nat /\ DOMAIN message = Messages /\ DOMAIN thread = Threads
  /\ \A m \in Messages : MessageSound(m) /\ ToldOnce(m) /\ TextTold(m) /\ DeletionTold(m)
  /\ \A e \in events : EventSound(e)
  /\ \A t \in Threads : RequestSound(t) /\ EditFresh(t)

\* Receipts, and what a request will write of one.
ReceiptColumns == {"state", "delivered", "read"}
IsReceipt(x) == DOMAIN x = ReceiptColumns /\ x.read \in BOOLEAN
ReceiptsSound ==
  /\ DOMAIN receipt = Messages
  /\ \A m \in Messages : DOMAIN receipt[m] = Users /\ \A u \in Users : IsReceipt(receipt[m][u])
  /\ \A t \in Threads :
       LET r == thread[t] IN
       r.at = "receipt" => /\ r.m \in Messages /\ r.user \in Users /\ r.new.read \in BOOLEAN
                           /\ r.new.read = r.loaded.read \/ r.new.read

-----------------------------------------------------------------------------
(* Rows and requests.                                                      *)

LEMMA WrittenRow ==
  ASSUME NEW old, IsRow(old), NEW loaded, NEW new, NEW x, x = Chat!Written(old, loaded, new)
  PROVE  /\ IsRow(x)
         /\ x.sender = IF new.sender = loaded.sender THEN old.sender ELSE new.sender
         /\ x.body = IF new.body = loaded.body THEN old.body ELSE new.body
         /\ x.edited = IF new.edited = loaded.edited THEN old.edited ELSE new.edited
         /\ x.deleted = IF new.deleted = loaded.deleted THEN old.deleted ELSE new.deleted
BY DEF Chat!Written, IsRow, Columns

LEMMA DeletedRow ==
  ASSUME NEW old, IsRow(old), NEW k, NEW x, x = [old EXCEPT !.deleted = k]
  PROVE  x.sender = old.sender /\ x.body = old.body /\ x.edited = old.edited /\ x.deleted = k
BY DEF IsRow, Columns

LEMMA SentRow ==
  ASSUME NEW s, NEW b, NEW x, x = [sender |-> s, body |-> b, edited |-> 0, deleted |-> 0]
  PROVE  IsRow(x) /\ x.sender = s /\ x.edited = 0 /\ x.deleted = 0
BY DEF IsRow, Columns

\* A step gives request t the state r.
OnlyRequest(t, r) ==
  /\ DOMAIN thread' = Threads /\ thread'[t] = r
  /\ \A s \in Threads \ {t} : thread'[s] = thread[s]

LEMMA RequestGoes ==
  ASSUME ChatInv, NEW t \in Threads, NEW r, thread' = [thread EXCEPT ![t] = r]
  PROVE  OnlyRequest(t, r)
BY DEF ChatInv, OnlyRequest

\* Time passes: what was sound stays so.
LEMMA Later ==
  ASSUME ChatInv, UNCHANGED <<message, events>>, requests' \in {requests, requests + 1}
  PROVE  /\ requests' \in Nat
         /\ \A m \in Messages : MessageSound(m)'
         /\ \A e \in events : EventSound(e)'
         /\ \A s \in Threads : thread'[s] = thread[s] => RequestSound(s)'
<1>1. requests \in Nat /\ requests' \in Nat /\ requests' >= requests
  BY DEF ChatInv
<1>2. \A k : (k \in 0..requests => k \in 0..requests') /\ (k \in 1..requests => k \in 1..requests')
  BY <1>1
<1>3. \A m \in Messages : MessageSound(m)'
  BY <1>2 DEF ChatInv, MessageSound, Stored
<1>4. \A e \in events : EventSound(e)'
  BY <1>2 DEF ChatInv, EventSound, CopySound, Stored
<1>5. ASSUME NEW s \in Threads, thread'[s] = thread[s] PROVE RequestSound(s)'
  <2>1. RequestSound(s)
    BY DEF ChatInv
  <2> QED BY <1>2, <1>5, <2>1 DEF RequestSound, CopySound, Stored
<1> QED BY <1>1, <1>3, <1>4, <1>5

\* What is told of a message is the same when requests tell it as before.
LEMMA ToldSame ==
  ASSUME ChatInv, UNCHANGED <<message, events, lost>>, NEW m \in Messages,
         \A s \in Threads : (thread'[s].at \in {"refresh", "emit"} \/ thread[s].at \in {"refresh", "emit"})
                              => thread'[s] = thread[s]
  PROVE  ToldOnce(m)' /\ TextTold(m)' /\ DeletionTold(m)'
<1>1. \A s \in Threads : (Tells(s, m)' <=> Tells(s, m)) /\ (Tells(s, m) => thread'[s] = thread[s])
  BY DEF Tells
<1>2. ToldOnce(m) /\ TextTold(m) /\ DeletionTold(m)
  BY DEF ChatInv
<1>3. ToldOnce(m)'
  BY <1>1, <1>2 DEF ToldOnce, Announces, Stored, Chat!Told
<1>4. TextTold(m)'
  BY <1>1, <1>2 DEF TextTold, Stored
<1>5. DeletionTold(m)'
  BY <1>1, <1>2 DEF DeletionTold, Stored, Chat!Told
<1> QED BY <1>3, <1>4, <1>5

\* A request begins.
LEMMA BeginKeeps ==
  ASSUME ChatInv, NEW t \in Threads, NEW r, Chat!Begin(t, r),
         r.at \in {"send", "edit", "delete", "receipt"},
         r.at = "send" => r.m \in Messages /\ IsRow(r.new) /\ r.new.sender # {} /\ r.new.edited = 0 /\ r.new.deleted = 0,
         r.at \in {"edit", "delete"} =>
           r.m \in Messages /\ Stored(r.m) /\ r.loaded = message[r.m] /\ r.new.sender = r.loaded.sender,
         r.at = "edit" => r.new.deleted = r.loaded.deleted /\ r.new.edited = requests + 1,
         r.at = "delete" => /\ r.new.body = r.loaded.body /\ r.new.edited = r.loaded.edited
                            /\ r.loaded.deleted = 0 /\ r.new.deleted = requests + 1
  PROVE  ChatInv'
<1>1. /\ thread[t].at = "idle" /\ requests' = requests + 1 /\ OnlyRequest(t, r)
      /\ UNCHANGED <<message, events, lost>>
  <2>1. /\ thread[t] = Chat!Idle /\ requests' = requests + 1 /\ thread' = [thread EXCEPT ![t] = r]
        /\ UNCHANGED <<message, events, lost>>
    BY DEF Chat!Begin, Chat!Now
  <2>2. thread[t].at = "idle"
    BY <2>1 DEF Chat!Idle
  <2>3. OnlyRequest(t, r)
    BY <2>1, RequestGoes
  <2> QED BY <2>1, <2>2, <2>3
<1>2. requests \in Nat /\ requests + 1 \notin 0..requests /\ requests + 1 \in Nat \ {0} /\ requests + 1 \in 1..requests'
  BY <1>1 DEF ChatInv
<1>3. /\ requests' \in Nat
      /\ \A m \in Messages : MessageSound(m)'
      /\ \A e \in events : EventSound(e)'
      /\ \A s \in Threads : thread'[s] = thread[s] => RequestSound(s)'
  BY <1>1, Later
<1>4. thread'[t] = r /\ DOMAIN thread' = Threads /\ \A s \in Threads \ {t} : thread'[s] = thread[s]
  BY <1>1 DEF OnlyRequest
<1>5. \A m \in Messages : ToldOnce(m)' /\ TextTold(m)' /\ DeletionTold(m)'
  BY <1>1, <1>4, ToldSame
<1>6. r.at \in {"edit", "delete"} => r.loaded.edited \in 0..requests
  BY DEF ChatInv, MessageSound
<1>7. r.at \in {"edit", "delete"} => r.loaded.edited \in 0..requests'
  BY <1>1, <1>2, <1>6
<1>8. RequestSound(t)'
  BY <1>1, <1>2, <1>4, <1>6, <1>7 DEF RequestSound, Stored
<1>9. /\ \A m \in Messages : Stored(m) => message[m].edited \in 0..requests
      /\ \A e \in events : e.copy.edited \in 0..requests
      /\ \A s \in Threads : /\ thread[s].at = "emit" => thread[s].copy.edited \in 0..requests
                            /\ thread[s].at \in {"edit", "delete"} => thread[s].new.edited \in 0..requests
  <2>1. \A k \in 1..requests : k \in 0..requests
    BY <1>2
  <2> QED BY <2>1 DEF ChatInv, MessageSound, EventSound, CopySound, RequestSound
<1>10. ASSUME NEW s \in Threads PROVE EditFresh(s)'
  <2>1. CASE s = t
    BY <1>1, <1>2, <1>4, <1>9, <2>1 DEF EditFresh, Stored
  <2>2. CASE s # t
    <3>1. EditFresh(s) /\ thread'[s] = thread[s]
      BY <1>4, <2>2 DEF ChatInv
    <3>2. r.at = "edit" /\ thread[s].at = "edit" => r.new.edited # thread[s].new.edited
      BY <1>2, <1>9
    <3>3. r.at = "delete" => r.new.edited = message[r.m].edited
      OBVIOUS
    <3> QED BY <1>1, <1>4, <3>1, <3>2, <3>3 DEF EditFresh, Stored
  <2> QED BY <2>1, <2>2
<1> QED BY <1>1, <1>3, <1>4, <1>5, <1>8, <1>10 DEF ChatInv

\* A request ends, or dies: of a message it was to tell of and did not, nothing more is expected.
LEMMA RestKeeps ==
  ASSUME ChatInv, NEW t \in Threads, thread' = [thread EXCEPT ![t] = Chat!Idle],
         UNCHANGED <<message, events, requests>>,
         lost' = IF thread[t].at \in {"refresh", "emit"} THEN lost \cup {thread[t].m} ELSE lost
  PROVE  ChatInv'
<1>1. thread'[t].at = "idle" /\ DOMAIN thread' = Threads /\ \A s \in Threads \ {t} : thread'[s] = thread[s]
  BY RequestGoes DEF OnlyRequest, Chat!Idle
<1>2. /\ requests' \in Nat
      /\ \A m \in Messages : MessageSound(m)'
      /\ \A e \in events : EventSound(e)'
      /\ \A s \in Threads : thread'[s] = thread[s] => RequestSound(s)'
  BY Later
<1>3. \A s \in Threads : RequestSound(s)' /\ EditFresh(s)'
  <2>1. \A s \in Threads : EditFresh(s)'
    BY <1>1 DEF ChatInv, EditFresh, Stored
  <2>2. RequestSound(t)'
    BY <1>1 DEF RequestSound
  <2> QED BY <1>1, <1>2, <2>1, <2>2
<1>4. ASSUME NEW m \in Messages PROVE ToldOnce(m)' /\ TextTold(m)' /\ DeletionTold(m)'
  <2>1. ToldOnce(m) /\ TextTold(m) /\ DeletionTold(m)
    BY DEF ChatInv
  <2>2. \A s \in Threads : Tells(s, m)' => Tells(s, m) /\ thread'[s] = thread[s]
    BY <1>1 DEF Tells
  <2>3. m \notin lost' => m \notin lost /\ \A s \in Threads : Tells(s, m) => Tells(s, m)' /\ thread'[s] = thread[s]
    BY <1>1 DEF Tells
  <2>4. ToldOnce(m)'
    BY <2>1, <2>2, <2>3 DEF ToldOnce, Announces, Stored, Chat!Told
  <2>5. TextTold(m)'
    BY <2>1, <2>2, <2>3 DEF TextTold, Stored
  <2>6. DeletionTold(m)'
    BY <2>1, <2>2, <2>3 DEF DeletionTold, Stored, Chat!Told
  <2> QED BY <2>4, <2>5, <2>6
<1> QED BY <1>1, <1>2, <1>3, <1>4 DEF ChatInv

\* The insert of a message that is not there yet: nothing was told of it, and its request will tell.
LEMMA InsertKeeps ==
  ASSUME ChatInv, NEW t \in Threads, thread[t].at = "send", ~Stored(thread[t].m),
         message' = [message EXCEPT ![thread[t].m] = thread[t].new],
         thread' = [thread EXCEPT ![t] = [at |-> "refresh", type |-> "message", m |-> thread[t].m]],
         UNCHANGED <<events, lost, requests>>
  PROVE  ChatInv'
<1>1. PICK n \in Messages : n = thread[t].m
  BY DEF ChatInv, RequestSound
<1> DEFINE r == [at |-> "refresh", type |-> "message", m |-> thread[t].m]
<1>2. OnlyRequest(t, r)
  BY RequestGoes
<1>3. r.at = "refresh" /\ r.type = "message" /\ r.m = n
  BY <1>1
<1> HIDE DEF r
<1>4. thread'[t] = r /\ DOMAIN thread' = Threads /\ \A s \in Threads \ {t} : thread'[s] = thread[s]
  BY <1>2 DEF OnlyRequest
<1>5. /\ message'[n] = thread[t].new /\ DOMAIN message' = Messages
      /\ \A m \in Messages \ {n} : message'[m] = message[m]
  BY <1>1 DEF ChatInv
<1>6. IsRow(message'[n]) /\ message'[n].sender # {} /\ message'[n].edited = 0 /\ message'[n].deleted = 0
  BY <1>5 DEF ChatInv, RequestSound
<1>7. message'[n] # Chat!NoMessage
  BY <1>6 DEF Chat!NoMessage
<1>8. \A m \in Messages : (m # n => (Stored(m)' <=> Stored(m))) /\ ~Stored(n)
  BY <1>1, <1>5 DEF Stored
<1>9. requests \in Nat /\ \A m \in Messages : MessageSound(m)'
  BY <1>5, <1>6, <1>8 DEF ChatInv, MessageSound
<1>10. \A e \in events : EventSound(e)' /\ e.key.m # n
  BY <1>5, <1>8 DEF ChatInv, EventSound, CopySound
<1>11. ASSUME NEW s \in Threads PROVE RequestSound(s)'
  <2>1. CASE s = t
    BY <1>3, <1>4, <1>7, <2>1 DEF RequestSound, Stored, TextTypes
  <2>2. CASE s # t
    <3>1. RequestSound(s) /\ thread'[s] = thread[s]
      BY <1>4, <2>2 DEF ChatInv
    <3> QED BY <1>5, <1>8, <3>1 DEF RequestSound, CopySound
  <2> QED BY <2>1, <2>2
<1>12. ASSUME NEW s \in Threads PROVE EditFresh(s)'
  <2>1. EditFresh(s) /\ RequestSound(s)
    BY DEF ChatInv
  <2>2. thread[s].at = "edit" => thread[s].new.edited # 0
    BY <1>9, <2>1 DEF RequestSound
  <2> QED BY <1>3, <1>4, <1>5, <1>6, <1>8, <2>1, <2>2 DEF EditFresh
<1>13. ASSUME NEW s \in Threads PROVE ~Tells(s, n) /\ ~Tells(t, n)
  BY <1>8 DEF ChatInv, RequestSound, CopySound, Tells
<1>14. ASSUME NEW m \in Messages PROVE ToldOnce(m)' /\ TextTold(m)' /\ DeletionTold(m)'
  <2>1. CASE m = n
    <3>1. \A s \in Threads : Announces(s, n)' <=> s = t
      BY <1>3, <1>4, <1>13 DEF Announces, Tells
    <3>2. \A type : Chat!Told(n, type)' = {}
      BY <1>10 DEF Chat!Told
    <3>3. ToldOnce(m)'
      BY <2>1, <3>1, <3>2 DEF ToldOnce
    <3>4. TextTold(m)' /\ DeletionTold(m)'
      BY <1>3, <1>4, <1>6, <2>1 DEF TextTold, DeletionTold, Tells, TextTypes
    <3> QED BY <3>3, <3>4
  <2>2. CASE m # n
    <3>1. ToldOnce(m) /\ TextTold(m) /\ DeletionTold(m)
      BY DEF ChatInv
    <3>2. \A s \in Threads : (Tells(s, m)' <=> Tells(s, m)) /\ (Tells(s, m) => thread'[s] = thread[s])
      BY <1>3, <1>4, <2>2 DEF Tells
    <3>3. ToldOnce(m)'
      BY <1>8, <2>2, <3>1, <3>2 DEF ToldOnce, Announces, Chat!Told
    <3>4. TextTold(m)' /\ DeletionTold(m)'
      BY <1>5, <1>8, <2>2, <3>1, <3>2 DEF TextTold, DeletionTold, Chat!Told
    <3> QED BY <3>3, <3>4
  <2> QED BY <2>1, <2>2
<1> QED BY <1>4, <1>5, <1>9, <1>10, <1>11, <1>12, <1>14 DEF ChatInv

\* The UPDATE of an edit or a deletion.  An edit gives the row a time no copy has, so that what was
\* told before is no longer its text; a deletion leaves the text alone.
LEMMA ChangeKeeps ==
  ASSUME ChatInv, NEW t \in Threads, Chat!ChangeCommit(t)
  PROVE  ChatInv'
<1> DEFINE r == IF thread[t].at = "edit" THEN [at |-> "refresh", type |-> "edited", m |-> thread[t].m]
                ELSE [at |-> "emit", type |-> "deleted", m |-> thread[t].m, copy |-> thread[t].new]
<1>1. /\ thread[t].at \in {"edit", "delete"} /\ thread' = [thread EXCEPT ![t] = r]
      /\ message' = [message EXCEPT ![thread[t].m] = Chat!Written(@, thread[t].loaded, thread[t].new)]
      /\ UNCHANGED <<events, lost, requests>>
  BY DEF Chat!ChangeCommit, Chat!Goes
<1>2. PICK n \in Messages : n = thread[t].m
  BY <1>1 DEF ChatInv, RequestSound
<1>3. OnlyRequest(t, r)
  BY <1>1, RequestGoes
<1>4. /\ r.m = n
      /\ thread[t].at = "edit" => r.at = "refresh" /\ r.type = "edited"
      /\ thread[t].at = "delete" => r.at = "emit" /\ r.type = "deleted" /\ r.copy = thread[t].new
  BY <1>2
<1> HIDE DEF r
<1>5. thread'[t] = r /\ DOMAIN thread' = Threads /\ \A s \in Threads \ {t} : thread'[s] = thread[s]
  BY <1>3 DEF OnlyRequest
<1>6. /\ message'[n] = Chat!Written(message[n], thread[t].loaded, thread[t].new) /\ DOMAIN message' = Messages
      /\ \A m \in Messages \ {n} : message'[m] = message[m]
  BY <1>1, <1>2 DEF ChatInv
<1>7. RequestSound(t) /\ MessageSound(n) /\ EditFresh(t) /\ requests \in Nat
  BY DEF ChatInv
<1>8. Stored(n) /\ IsRow(message[n]) /\ message[n].sender # {}
  BY <1>1, <1>2, <1>7 DEF RequestSound, MessageSound
<1>9. /\ IsRow(message'[n]) /\ message'[n].sender # {}
      /\ thread[t].at = "edit" => message'[n].edited = thread[t].new.edited /\ message'[n].deleted = message[n].deleted
      /\ thread[t].at = "delete" => /\ message'[n].edited = message[n].edited /\ message'[n].body = message[n].body
                                    /\ message'[n].deleted = thread[t].new.deleted
  BY <1>1, <1>6, <1>7, <1>8, WrittenRow DEF RequestSound
<1>10. \A m \in Messages : Stored(m)' <=> Stored(m)
  BY <1>6, <1>8, <1>9 DEF Stored, Chat!NoMessage
<1>11. thread[t].at = "edit" => thread[t].new.edited \in 0..requests /\ thread[t].new.edited # 0
  BY <1>7 DEF RequestSound
<1>12. \A m \in Messages : MessageSound(m)'
  BY <1>1, <1>6, <1>7, <1>9, <1>10, <1>11 DEF ChatInv, MessageSound, RequestSound
<1>13. ASSUME NEW m, NEW type, NEW copy, CopySound(m, type, copy), thread[t].at = "edit" => copy.edited # thread[t].new.edited
       PROVE  CopySound(m, type, copy)'
  BY <1>1, <1>6, <1>9, <1>10, <1>13 DEF CopySound
<1>14. \A e \in events : EventSound(e)'
  <2>1. \A e \in events : EventSound(e) /\ (thread[t].at = "edit" => e.copy.edited # thread[t].new.edited)
    BY <1>7 DEF ChatInv, EditFresh
  <2> QED BY <1>13, <2>1 DEF EventSound
<1>15. ASSUME NEW s \in Threads PROVE RequestSound(s)'
  <2>1. CASE s = t
    <3>1. CASE thread[t].at = "edit"
      BY <1>4, <1>5, <1>8, <1>9, <1>10, <1>11, <2>1, <3>1 DEF RequestSound, TextTypes
    <3>2. CASE thread[t].at = "delete"
      <4>1. thread[t].new.edited \in 0..requests
        BY <1>7, <3>2 DEF RequestSound
      <4> QED BY <1>1, <1>4, <1>5, <1>8, <1>10, <2>1, <3>2, <4>1 DEF RequestSound, CopySound, TextTypes
    <3> QED BY <1>1, <3>1, <3>2
  <2>2. CASE s # t
    <3>1. RequestSound(s) /\ thread'[s] = thread[s]
      BY <1>5, <2>2 DEF ChatInv
    <3>2. thread[s].at = "emit" => CopySound(thread[s].m, thread[s].type, thread[s].copy)'
      BY <1>7, <1>13, <3>1 DEF RequestSound, EditFresh
    <3>3. \A m \in Messages : message[m].edited # 0 => message'[m].edited # 0
      BY <1>1, <1>6, <1>9, <1>11
    <3> QED BY <1>1, <1>10, <3>1, <3>2, <3>3 DEF RequestSound
  <2> QED BY <2>1, <2>2
<1>16. ASSUME NEW s \in Threads PROVE EditFresh(s)'
  <2>1. EditFresh(s)
    BY DEF ChatInv
  <2>2. CASE s = t
    BY <1>1, <1>4, <1>5, <2>2 DEF EditFresh
  <2>3. CASE s # t
    BY <1>1, <1>4, <1>5, <1>6, <1>9, <1>10, <2>1, <2>3 DEF EditFresh
  <2> QED BY <2>2, <2>3
<1>17. ASSUME NEW m \in Messages PROVE ToldOnce(m)' /\ TextTold(m)' /\ DeletionTold(m)'
  <2>1. ToldOnce(m) /\ TextTold(m) /\ DeletionTold(m)
    BY DEF ChatInv
  <2>2. /\ \A s \in Threads : Tells(s, m) => Tells(s, m)' /\ thread'[s] = thread[s]
        /\ \A s \in Threads : Tells(s, m)' => Tells(s, m) \/ s = t
        /\ Tells(t, m)' => m = n
    BY <1>1, <1>4, <1>5 DEF Tells
  <2>3. ToldOnce(m)'
    BY <1>1, <1>4, <1>5, <1>10, <2>1, <2>2 DEF ToldOnce, Announces, Chat!Told
  <2>4. TextTold(m)'
    <3>1. CASE m = n /\ thread[t].at = "edit"
      BY <1>4, <1>5, <3>1 DEF TextTold, Tells, TextTypes
    <3>2. CASE m # n \/ thread[t].at = "delete"
      <4>1. message'[m].edited = message[m].edited
        BY <1>6, <1>9, <3>2
      <4> QED BY <1>1, <1>10, <2>1, <2>2, <4>1 DEF TextTold
    <3> QED BY <1>1, <3>1, <3>2
  <2>5. DeletionTold(m)'
    <3>1. CASE m = n /\ thread[t].at = "delete"
      BY <1>4, <1>5, <3>1 DEF DeletionTold, Tells
    <3>2. CASE m # n \/ thread[t].at = "edit"
      <4>1. message'[m].deleted = message[m].deleted
        BY <1>6, <1>9, <3>2
      <4> QED BY <1>1, <1>10, <2>1, <2>2, <4>1 DEF DeletionTold, Chat!Told
    <3> QED BY <1>1, <3>1, <3>2
  <2> QED BY <2>3, <2>4, <2>5
<1> QED BY <1>1, <1>5, <1>6, <1>7, <1>12, <1>14, <1>15, <1>16, <1>17 DEF ChatInv

\* db.refresh
LEMMA RefreshKeeps ==
  ASSUME ChatInv, NEW t \in Threads, Chat!Refresh(t)
  PROVE  ChatInv'
<1> DEFINE r == [at |-> "emit", type |-> thread[t].type, m |-> thread[t].m, copy |-> message[thread[t].m]]
<1>1. /\ thread[t].at = "refresh" /\ thread' = [thread EXCEPT ![t] = r]
      /\ UNCHANGED <<message, events, lost, requests>>
  BY DEF Chat!Refresh, Chat!Goes
<1>2. PICK n \in Messages : n = thread[t].m
  BY <1>1 DEF ChatInv, RequestSound
<1>3. OnlyRequest(t, r)
  BY <1>1, RequestGoes
<1>4. r.at = "emit" /\ r.type = thread[t].type /\ r.m = n /\ r.copy = message[n]
  BY <1>2
<1> HIDE DEF r
<1>5. thread'[t] = r /\ DOMAIN thread' = Threads /\ \A s \in Threads \ {t} : thread'[s] = thread[s]
  BY <1>3 DEF OnlyRequest
<1>6. /\ requests' \in Nat
      /\ \A m \in Messages : MessageSound(m)'
      /\ \A e \in events : EventSound(e)'
      /\ \A s \in Threads : thread'[s] = thread[s] => RequestSound(s)'
  BY <1>1, Later
<1>7. RequestSound(t) /\ MessageSound(n) /\ Stored(n)
  BY <1>1, <1>2 DEF ChatInv, RequestSound
<1>8. RequestSound(t)'
  <2>1. message[n].edited \in 0..requests
    BY <1>7 DEF MessageSound
  <2>2. thread[t].type \in TextTypes /\ (thread[t].type = "edited" => message[n].edited # 0)
    BY <1>1, <1>2, <1>7 DEF RequestSound
  <2> QED BY <1>1, <1>4, <1>5, <1>7, <2>1, <2>2 DEF RequestSound, CopySound, Stored
<1>9. ASSUME NEW s \in Threads PROVE EditFresh(s)'
  <2>1. EditFresh(s)
    BY DEF ChatInv
  <2> QED BY <1>1, <1>4, <1>5, <1>7, <2>1 DEF EditFresh, Stored
<1>10. ASSUME NEW m \in Messages PROVE ToldOnce(m)' /\ TextTold(m)' /\ DeletionTold(m)'
  <2>1. ToldOnce(m) /\ TextTold(m) /\ DeletionTold(m)
    BY DEF ChatInv
  <2>2. \A s \in Threads : (Tells(s, m)' <=> Tells(s, m)) /\ (Tells(s, m) => thread'[s].type = thread[s].type)
    BY <1>1, <1>2, <1>4, <1>5 DEF Tells
  <2>3. ToldOnce(m)'
    BY <1>1, <2>1, <2>2 DEF ToldOnce, Announces, Stored, Chat!Told
  <2>4. TextTold(m)'
    BY <1>1, <1>4, <1>5, <2>1, <2>2 DEF TextTold, Stored, Tells
  <2>5. DeletionTold(m)'
    BY <1>1, <1>4, <1>5, <2>1, <2>2 DEF DeletionTold, Stored, Chat!Told
  <2> QED BY <2>3, <2>4, <2>5
<1> QED BY <1>1, <1>5, <1>6, <1>8, <1>9, <1>10 DEF ChatInv

\* The event is queued, or one with its key is there: then that one tells what this one would.
LEMMA EmitKeeps ==
  ASSUME ChatInv, NEW t \in Threads, Chat!EmitMessageEvent(t)
  PROVE  ChatInv'
<1> DEFINE k == Chat!Key(thread[t].type, thread[t].m, thread[t].copy)
           x == [key |-> k, copy |-> thread[t].copy]
<1>1. /\ thread[t].at = "emit" /\ thread' = [thread EXCEPT ![t] = Chat!Idle]
      /\ events' = IF \E e \in events : e.key = k THEN events ELSE events \cup {x}
      /\ UNCHANGED <<message, lost, requests>>
  BY DEF Chat!EmitMessageEvent, Chat!Goes
<1>2. PICK n \in Messages : n = thread[t].m
  BY <1>1 DEF ChatInv, RequestSound, CopySound
<1>3. /\ x.key = k /\ x.copy = thread[t].copy /\ k.m = n /\ k.type = thread[t].type
      /\ thread[t].copy.edited # 0 => k.time = thread[t].copy.edited
  BY <1>2 DEF Chat!Key
<1> HIDE DEF k, x
<1>4. thread'[t].at = "idle" /\ DOMAIN thread' = Threads /\ \A s \in Threads \ {t} : thread'[s] = thread[s]
  BY <1>1, RequestGoes DEF OnlyRequest, Chat!Idle
<1>5. RequestSound(t) /\ CopySound(n, thread[t].type, thread[t].copy)
  BY <1>1, <1>2 DEF ChatInv, RequestSound
<1>6. PICK y \in events' : /\ y.key = k /\ events' \in {events, events \cup {x}} /\ (y \in events \/ y = x)
                           /\ events' = events => y \in events
  BY <1>1, <1>3
<1>7. EventSound(y)
  <2>1. CASE y \in events
    BY <2>1 DEF ChatInv
  <2>2. CASE y = x
    BY <1>3, <1>5, <2>2 DEF EventSound, CopySound
  <2> QED BY <1>6, <2>1, <2>2
<1>8. EventSound(x)
  BY <1>3, <1>5 DEF EventSound, CopySound
<1>9. requests \in Nat /\ (\A m \in Messages : MessageSound(m)') /\ \A e \in events' : EventSound(e)'
  <2>1. \A e \in events' : EventSound(e)
    BY <1>6, <1>8 DEF ChatInv
  <2>2. \A e \in events' : EventSound(e)'
    BY <1>1, <2>1 DEF EventSound, CopySound, Stored
  <2> QED BY <1>1, <2>2 DEF ChatInv, MessageSound, Stored
<1>10. ASSUME NEW s \in Threads PROVE RequestSound(s)' /\ EditFresh(s)'
  <2>1. RequestSound(s) /\ EditFresh(s)
    BY DEF ChatInv
  <2>2. CASE s = t
    BY <1>4, <2>2 DEF RequestSound, EditFresh
  <2>3. CASE s # t
    <3>1. RequestSound(s)'
      BY <1>1, <1>4, <2>1, <2>3 DEF RequestSound, CopySound, Stored
    <3>2. thread[s].at = "edit" => x.copy.edited # thread[s].new.edited
      BY <1>1, <1>3, <2>1 DEF EditFresh
    <3>3. EditFresh(s)'
      BY <1>1, <1>4, <1>6, <2>1, <2>3, <3>2 DEF EditFresh, Stored
    <3> QED BY <3>1, <3>3
  <2> QED BY <2>2, <2>3
<1>11. ASSUME NEW m \in Messages PROVE ToldOnce(m)' /\ TextTold(m)' /\ DeletionTold(m)'
  <2>1. ToldOnce(m) /\ TextTold(m) /\ DeletionTold(m)
    BY DEF ChatInv
  <2>2. /\ \A s \in Threads : Tells(s, m)' => Tells(s, m) /\ thread'[s] = thread[s] /\ s # t
        /\ \A s \in Threads : Tells(s, m) /\ s # t => Tells(s, m)' /\ thread'[s] = thread[s]
        /\ Tells(t, m) <=> m = n
    BY <1>1, <1>2, <1>4 DEF Tells
  <2>3. \A type : Chat!Told(m, type) \subseteq Chat!Told(m, type)'
    BY <1>6 DEF Chat!Told
  <2>4. y.key.m = n /\ y.key.type = thread[t].type
    BY <1>3, <1>6
  <2>5. m = n /\ thread[t].type = "message" => Announces(t, m) /\ Chat!Told(m, "message") = {} /\ y \notin events
    BY <2>1, <2>2, <2>4 DEF ToldOnce, Announces, Chat!Told
  <2>6. ToldOnce(m)'
    <3>1. CASE m = n /\ thread[t].type = "message"
      <4>1. \A e \in Chat!Told(m, "message")' : e = x
        BY <1>6, <2>5, <3>1 DEF Chat!Told
      <4>2. y \in Chat!Told(m, "message")'
        BY <2>4, <3>1 DEF Chat!Told
      <4>3. \A s \in Threads : ~Announces(s, m)'
        BY <2>1, <2>2, <2>5, <3>1 DEF ToldOnce, Announces
      <4> QED BY <4>1, <4>2, <4>3 DEF ToldOnce
    <3>2. CASE m # n \/ thread[t].type # "message"
      <4>1. Chat!Told(m, "message")' = Chat!Told(m, "message")
        BY <1>3, <1>6, <3>2 DEF Chat!Told
      <4>2. \A s \in Threads : Announces(s, m)' <=> Announces(s, m)
        BY <2>2, <3>2 DEF Announces
      <4> QED BY <1>1, <2>1, <4>1, <4>2 DEF ToldOnce, Stored
    <3> QED BY <3>1, <3>2
  <2>7. m = n /\ thread[t].type \in TextTypes => y.copy.edited = thread[t].copy.edited
    <3>1. SUFFICES ASSUME m = n, thread[t].type \in TextTypes, y \in events
                   PROVE  y.copy.edited = thread[t].copy.edited
      BY <1>3, <1>6
    <3>2. thread[t].type = "edited"
      BY <2>5, <3>1 DEF TextTypes
    <3> QED BY <1>3, <1>5, <1>6, <1>7, <2>4, <3>2 DEF EventSound, CopySound
  <2>8. TextTold(m)'
    BY <1>1, <1>6, <2>1, <2>2, <2>4, <2>7 DEF TextTold, Stored
  <2>9. DeletionTold(m)'
    <3>1. m = n /\ thread[t].type = "deleted" => y \in Chat!Told(m, "deleted")'
      BY <2>4 DEF Chat!Told
    <3> QED BY <1>1, <2>1, <2>2, <2>3, <3>1 DEF DeletionTold, Stored
  <2> QED BY <2>6, <2>8, <2>9
<1> QED BY <1>1, <1>4, <1>9, <1>10, <1>11 DEF ChatInv

-----------------------------------------------------------------------------
(* Every step, and the theorem.                                            *)

LEMMA RequestsKeep ==
  ASSUME ChatInv, NEW t \in Threads, NEW u, NEW m \in Messages,
         \/ \E b \in Bodies : Chat!SendMessage(t, u, m, b) \/ Chat!EditMessage(t, u, m, b) \/ Chat!PlatformPublish(t, m, b)
         \/ Chat!DeleteMessage(t, u, m) \/ Chat!Acknowledge(t, u, m, "delivered") \/ Chat!MarkRead(t, u, m)
  PROVE  ChatInv'
<1>1. ASSUME NEW b \in Bodies, Chat!SendMessage(t, u, m, b) \/ Chat!PlatformPublish(t, m, b) PROVE ChatInv'
  <2>1. PICK s, to : /\ s # {}
                     /\ Chat!Begin(t, [at |-> "send", m |-> m, to |-> to,
                                       new |-> [sender |-> s, body |-> b, edited |-> 0, deleted |-> 0]])
    <3>1. {u} # {} /\ {Service} # {}
      OBVIOUS
    <3> QED BY <1>1, <3>1 DEF Chat!SendMessage, Chat!PlatformPublish
  <2> DEFINE x == [sender |-> s, body |-> b, edited |-> 0, deleted |-> 0]
             r == [at |-> "send", m |-> m, to |-> to, new |-> x]
  <2>2. IsRow(x) /\ x.sender # {} /\ x.edited = 0 /\ x.deleted = 0
    BY <2>1, SentRow
  <2> HIDE DEF x
  <2>3. Chat!Begin(t, r) /\ r.at = "send" /\ r.m = m /\ r.new = x
    BY <2>1 DEF x
  <2> HIDE DEF r
  <2> QED BY <2>2, <2>3, BeginKeeps
<1>2. ASSUME Chat!MayChange(u, m) PROVE Stored(m) /\ IsRow(message[m])
  BY <1>2 DEF Chat!MayChange, Stored, ChatInv, MessageSound
<1>3. ASSUME NEW b \in Bodies, Chat!EditMessage(t, u, m, b) PROVE ChatInv'
  <2> DEFINE x == [message[m] EXCEPT !.body = b, !.edited = requests + 1]
             r == [at |-> "edit", m |-> m, loaded |-> message[m], new |-> x]
  <2>1. Chat!MayChange(u, m) /\ Chat!Begin(t, r)
    BY <1>3 DEF Chat!EditMessage, Chat!Now
  <2>2. x.sender = message[m].sender /\ x.edited = requests + 1 /\ x.deleted = message[m].deleted
    <3>1. IsRow(message[m])
      BY <1>2, <2>1
    <3> QED BY <3>1 DEF IsRow, Columns
  <2> HIDE DEF x
  <2>3. r.at = "edit" /\ r.m = m /\ r.loaded = message[m] /\ r.new = x
    OBVIOUS
  <2> HIDE DEF r
  <2> QED BY <1>2, <2>1, <2>2, <2>3, BeginKeeps
<1>4. ASSUME Chat!DeleteMessage(t, u, m) PROVE ChatInv'
  <2> DEFINE x == [message[m] EXCEPT !.deleted = requests + 1]
             r == [at |-> "delete", m |-> m, loaded |-> message[m], new |-> x]
  <2>1. Chat!MayChange(u, m) /\ message[m].deleted = 0 /\ Chat!Begin(t, r)
    BY <1>4 DEF Chat!DeleteMessage, Chat!Now
  <2>2. /\ x.sender = message[m].sender /\ x.body = message[m].body
        /\ x.edited = message[m].edited /\ x.deleted = requests + 1
    BY <1>2, <2>1, DeletedRow
  <2> HIDE DEF x
  <2>3. r.at = "delete" /\ r.m = m /\ r.loaded = message[m] /\ r.new = x
    OBVIOUS
  <2> HIDE DEF r
  <2> QED BY <1>2, <2>1, <2>2, <2>3, BeginKeeps
<1>5. ASSUME NEW state, Chat!Acknowledge(t, u, m, state) PROVE ChatInv'
  <2>1. PICK old, new, moves :
          Chat!Begin(t, [at |-> "receipt", m |-> m, user |-> u, loaded |-> old, new |-> new, moves |-> moves])
    BY <1>5 DEF Chat!Acknowledge
  <2> DEFINE r == [at |-> "receipt", m |-> m, user |-> u, loaded |-> old, new |-> new, moves |-> moves]
  <2>2. r.at = "receipt" /\ Chat!Begin(t, r)
    BY <2>1
  <2> HIDE DEF r
  <2> QED BY <2>2, BeginKeeps
<1> QED BY <1>1, <1>3, <1>4, <1>5 DEF Chat!MarkRead

LEMMA CommitsKeep ==
  ASSUME ChatInv, NEW t \in Threads,
         \/ Chat!SendCommit(t) \/ Chat!ChangeCommit(t) \/ Chat!Refresh(t) \/ Chat!EmitMessageEvent(t)
         \/ Chat!ReceiptCommit(t) \/ Chat!Dies(t)
  PROVE  ChatInv'
<1>1. CASE Chat!SendCommit(t)
  <2>1. CASE message[thread[t].m] = Chat!NoMessage
    BY <1>1, <2>1, InsertKeeps DEF Chat!SendCommit, Chat!Goes, Stored
  <2>2. CASE message[thread[t].m] # Chat!NoMessage
    BY <1>1, <2>2, RestKeeps DEF Chat!SendCommit, Chat!Goes
  <2> QED BY <2>1, <2>2
<1>2. CASE Chat!ReceiptCommit(t)
  BY <1>2, RestKeeps DEF Chat!ReceiptCommit, Chat!Goes
<1>3. CASE Chat!Dies(t)
  BY <1>3, RestKeeps DEF Chat!Dies, Chat!Goes
<1> QED BY <1>1, <1>2, <1>3, ChangeKeeps, RefreshKeeps, EmitKeeps

LEMMA ChatInvInit == Chat!Init => ChatInv
<1> SUFFICES ASSUME Chat!Init PROVE ChatInv
  OBVIOUS
<1>1. /\ requests = 0 /\ DOMAIN message = Messages /\ DOMAIN thread = Threads /\ events = {}
      /\ \A m \in Messages : ~Stored(m)
      /\ \A t \in Threads : thread[t].at = "idle"
  BY DEF Chat!Init, Stored, Chat!Idle
<1>2. \A m \in Messages : MessageSound(m) /\ ToldOnce(m) /\ TextTold(m) /\ DeletionTold(m)
  BY <1>1 DEF MessageSound, ToldOnce, TextTold, DeletionTold, Announces, Tells, Chat!Told
<1>3. \A t \in Threads : RequestSound(t) /\ EditFresh(t)
  BY <1>1 DEF RequestSound, EditFresh
<1> QED BY <1>1, <1>2, <1>3 DEF ChatInv

LEMMA ChatInvNext == ChatInv /\ [Chat!Next]_(Chat!chatVars) => ChatInv'
<1> SUFFICES ASSUME ChatInv, [Chat!Next]_(Chat!chatVars) PROVE ChatInv'
  OBVIOUS
<1>1. CASE (\E u \in Users, role \in {"none", "viewer", "member", "owner"} : Chat!ManageMembers(u, role))
           \/ UNCHANGED Chat!chatVars
  <2>1. UNCHANGED <<message, events, thread, lost>> /\ requests' \in {requests, requests + 1}
    BY <1>1 DEF Chat!ManageMembers, Chat!Now, Chat!chatVars
  <2>2. /\ requests' \in Nat
        /\ \A m \in Messages : MessageSound(m)'
        /\ \A e \in events : EventSound(e)'
        /\ \A s \in Threads : RequestSound(s)'
    BY <2>1, Later
  <2>3. \A m \in Messages : ToldOnce(m)' /\ TextTold(m)' /\ DeletionTold(m)'
    BY <2>1, ToldSame
  <2>4. \A s \in Threads : EditFresh(s)'
    BY <2>1 DEF ChatInv, EditFresh, Stored
  <2> QED BY <2>1, <2>2, <2>3, <2>4 DEF ChatInv
<1> QED BY <1>1, RequestsKeep, CommitsKeep DEF Chat!Next

\* Once its requests are through, clients have been told of a message once, of the text and the edit
\* time it has, and of its deletion, for any number of users, messages and overlapping requests
\* (_emit_message_event).
THEOREM ClientsAreTold == Chat!Spec => []ClientsTold
<1>1. ChatInv => ClientsTold
  <2> SUFFICES ASSUME ChatInv, NEW m \in Messages, Stored(m), m \notin lost, \A t \in Threads : ~Tells(t, m)
               PROVE  /\ Chat!Cardinality(Chat!Told(m, "message")) = 1
                      /\ \E e \in Chat!Told(m, "message") \cup Chat!Told(m, "edited") :
                           e.copy.body = message[m].body /\ e.copy.edited = message[m].edited
                      /\ message[m].deleted # 0 => Chat!Told(m, "deleted") # {}
    BY DEF ClientsTold, Chat!ClientsTold, Stored, Tells
  <2>1. ToldOnce(m) /\ TextTold(m) /\ DeletionTold(m) /\ \A e \in events : EventSound(e)
    BY DEF ChatInv
  <2>2. PICK e \in Chat!Told(m, "message") : Chat!Told(m, "message") = {e}
    BY <2>1 DEF ToldOnce, Announces
  <2>3. Chat!Cardinality({e}) = Cardinality({e})
    BY DEF Chat!Cardinality, Cardinality
  <2>4. Cardinality({e}) = 1
    BY FS_Singleton
  <2>5. PICK f \in events : f.key.m = m /\ f.key.type \in TextTypes /\ f.copy.edited = message[m].edited
    BY <2>1 DEF TextTold
  <2>6. f \in Chat!Told(m, "message") \cup Chat!Told(m, "edited") /\ f.copy.body = message[m].body
    BY <2>1, <2>5 DEF EventSound, CopySound, Chat!Told, TextTypes
  <2>7. message[m].deleted # 0 => Chat!Told(m, "deleted") # {}
    BY <2>1 DEF DeletionTold
  <2> QED BY <2>2, <2>3, <2>4, <2>5, <2>6, <2>7
<1> QED BY <1>1, ChatInvInit, ChatInvNext, PTL DEF Chat!Spec

-----------------------------------------------------------------------------
(* Nothing is taken back.                                                  *)

LEMMA WrittenReceipt ==
  ASSUME NEW old, IsReceipt(old), NEW loaded, NEW new, new.read \in BOOLEAN, new.read = loaded.read \/ new.read,
         NEW x, x = Chat!Written(old, loaded, new)
  PROVE  IsReceipt(x) /\ (old.read => x.read)
<1>1. DOMAIN x = ReceiptColumns /\ x.read = IF new.read = loaded.read THEN old.read ELSE new.read
  BY DEF Chat!Written, IsReceipt, ReceiptColumns
<1> QED BY <1>1 DEF IsReceipt

\* A step that writes no receipt, in a request that is to write one only if it was before.
LEMMA ReceiptsSame ==
  ASSUME ReceiptsSound, receipt' = receipt,
         \A t \in Threads : thread'[t].at = "receipt" => thread'[t] = thread[t]
  PROVE  ReceiptsSound'
BY DEF ReceiptsSound, IsReceipt

LEMMA AcknowledgeKeepsReceipts ==
  ASSUME ChatInv, ReceiptsSound, NEW t \in Threads, NEW u \in Users, NEW m \in Messages, NEW state,
         Chat!Acknowledge(t, u, m, state)
  PROVE  ReceiptsSound'
<1> DEFINE old == receipt[m][u]
           new == IF state = "read" THEN [state |-> "read", delivered |-> TRUE, read |-> TRUE]
                  ELSE [old EXCEPT !.delivered = TRUE, !.state = IF @ = "read" THEN @ ELSE "delivered"]
<1>1. PICK moves : Chat!Begin(t, [at |-> "receipt", m |-> m, user |-> u, loaded |-> old, new |-> new, moves |-> moves])
  BY DEF Chat!Acknowledge
<1>2. IsReceipt(old)
  BY DEF ReceiptsSound
<1>3. new.read \in BOOLEAN /\ (new.read = old.read \/ new.read)
  <2> HIDE DEF old
  <2> QED BY <1>2 DEF IsReceipt, ReceiptColumns
<1> HIDE DEF new, old
<1> DEFINE r == [at |-> "receipt", m |-> m, user |-> u, loaded |-> old, new |-> new, moves |-> moves]
<1>4. r.m = m /\ r.user = u /\ r.loaded = old /\ r.new = new
  OBVIOUS
<1>5. thread' = [thread EXCEPT ![t] = r] /\ receipt' = receipt
  BY <1>1 DEF Chat!Begin
<1> HIDE DEF r
<1>6. thread'[t] = r /\ \A s \in Threads \ {t} : thread'[s] = thread[s]
  BY <1>5, RequestGoes DEF OnlyRequest
<1> QED BY <1>3, <1>4, <1>5, <1>6 DEF ReceiptsSound, IsReceipt

\* One step: receipts stay sound, a stored deletion and a time of reading stay.
Kept ==
  \A m \in Messages : Stored(m) =>
    /\ message[m].deleted # 0 => message'[m].deleted # 0
    /\ \A u \in Users : receipt[m][u].read => receipt'[m][u].read

LEMMA SendKeepsReceipts ==
  ASSUME ChatInv, ReceiptsSound, NEW t \in Threads, Chat!SendCommit(t)
  PROVE  ReceiptsSound' /\ Kept
<1>1. thread[t].at = "send" /\ thread[t].m \in Messages
  BY DEF Chat!SendCommit, ChatInv, RequestSound
<1>2. CASE Stored(thread[t].m)
  <2>1. thread' = [thread EXCEPT ![t] = Chat!Idle] /\ UNCHANGED <<message, receipt>>
    BY <1>2 DEF Chat!SendCommit, Chat!Goes, Stored
  <2>2. \A s \in Threads : thread'[s].at = "receipt" => thread'[s] = thread[s]
    BY <2>1, RequestGoes DEF OnlyRequest, Chat!Idle
  <2> QED BY <2>1, <2>2, ReceiptsSame DEF Kept
<1>3. CASE ~Stored(thread[t].m)
  <2> DEFINE r == [at |-> "refresh", type |-> "message", m |-> thread[t].m]
             rows == [u \in Users |->
                       IF u \notin thread[t].to THEN receipt[thread[t].m][u]
                       ELSE IF u \in thread[t].new.sender THEN [state |-> "read", delivered |-> TRUE, read |-> TRUE]
                       ELSE [Chat!NoReceipt EXCEPT !.state = "accepted"]]
  <2>1. /\ thread' = [thread EXCEPT ![t] = r] /\ receipt' = [receipt EXCEPT ![thread[t].m] = rows]
        /\ message' = [message EXCEPT ![thread[t].m] = thread[t].new]
    BY <1>3 DEF Chat!SendCommit, Chat!Goes, Stored
  <2>2. \A u \in Users : IsReceipt(rows[u])
    <3>1. \A u \in Users : IsReceipt(receipt[thread[t].m][u])
      BY <1>1 DEF ReceiptsSound
    <3> QED BY <3>1 DEF IsReceipt, ReceiptColumns, Chat!NoReceipt
  <2>3. DOMAIN rows = Users
    OBVIOUS
  <2> HIDE DEF rows
  <2>4. /\ DOMAIN receipt' = Messages /\ receipt'[thread[t].m] = rows
        /\ \A m \in Messages \ {thread[t].m} : receipt'[m] = receipt[m] /\ message'[m] = message[m]
    BY <1>1, <2>1 DEF ReceiptsSound, ChatInv
  <2>5. \A s \in Threads : thread'[s].at = "receipt" => thread'[s] = thread[s]
    BY <2>1, RequestGoes DEF OnlyRequest
  <2>6. \A m \in Messages : DOMAIN receipt'[m] = Users /\ \A u \in Users : IsReceipt(receipt'[m][u])
    BY <2>2, <2>3, <2>4 DEF ReceiptsSound
  <2>7. ReceiptsSound'
    BY <2>4, <2>5, <2>6 DEF ReceiptsSound, IsReceipt
  <2> QED BY <1>3, <2>4, <2>7 DEF Kept
<1> QED BY <1>2, <1>3

LEMMA ReceiptCommitKeeps ==
  ASSUME ChatInv, ReceiptsSound, NEW t \in Threads, Chat!ReceiptCommit(t)
  PROVE  ReceiptsSound' /\ Kept
<1>1. thread' = [thread EXCEPT ![t] = Chat!Idle] /\ message' = message /\ thread[t].at = "receipt"
  BY DEF Chat!ReceiptCommit, Chat!Goes
<1>2. \A s \in Threads : thread'[s].at = "receipt" => thread'[s] = thread[s]
  BY <1>1, RequestGoes DEF OnlyRequest, Chat!Idle
<1>3. CASE receipt' = receipt
  BY <1>1, <1>2, <1>3, ReceiptsSame DEF Kept
<1>4. CASE receipt' # receipt
  <2>1. PICK n \in Messages, v \in Users : n = thread[t].m /\ v = thread[t].user
    BY <1>1 DEF ReceiptsSound
  <2> DEFINE x == Chat!Written(receipt[n][v], thread[t].loaded, thread[t].new)
  <2>2. receipt' = [receipt EXCEPT ![n][v] = x]
    BY <1>4, <2>1 DEF Chat!ReceiptCommit
  <2>3. IsReceipt(x) /\ (receipt[n][v].read => x.read)
    <3>1. /\ IsReceipt(receipt[n][v]) /\ thread[t].new.read \in BOOLEAN
          /\ thread[t].new.read = thread[t].loaded.read \/ thread[t].new.read
      BY <1>1 DEF ReceiptsSound
    <3> QED BY <3>1, WrittenReceipt
  <2> HIDE DEF x
  <2>4. /\ DOMAIN receipt' = Messages /\ receipt'[n] = [receipt[n] EXCEPT ![v] = x]
        /\ \A m \in Messages \ {n} : receipt'[m] = receipt[m]
    BY <2>2 DEF ReceiptsSound
  <2>5. DOMAIN receipt'[n] = Users /\ receipt'[n][v] = x /\ \A u \in Users \ {v} : receipt'[n][u] = receipt[n][u]
    BY <2>4 DEF ReceiptsSound
  <2>6. \A m \in Messages : DOMAIN receipt'[m] = Users /\ \A u \in Users : IsReceipt(receipt'[m][u])
    <3>1. ASSUME NEW m \in Messages \ {n} PROVE DOMAIN receipt'[m] = Users /\ \A u \in Users : IsReceipt(receipt'[m][u])
      BY <2>4, <3>1 DEF ReceiptsSound
    <3>2. \A u \in Users : IsReceipt(receipt'[n][u])
      BY <2>3, <2>5 DEF ReceiptsSound
    <3> QED BY <2>5, <3>1, <3>2
  <2>7. ReceiptsSound'
    BY <1>2, <2>4, <2>6 DEF ReceiptsSound, IsReceipt
  <2>8. Kept
    BY <1>1, <2>3, <2>4, <2>5 DEF Kept
  <2> QED BY <2>7, <2>8
<1> QED BY <1>3, <1>4

\* An older copy of a message never overwrites its deletion: an edit writes the deletion time only
\* if it changed it, and a deletion sets one.
LEMMA ChangeKeepsDeletion ==
  ASSUME ChatInv, ReceiptsSound, NEW t \in Threads, Chat!ChangeCommit(t)
  PROVE  ReceiptsSound' /\ Kept
<1> DEFINE r == IF thread[t].at = "edit" THEN [at |-> "refresh", type |-> "edited", m |-> thread[t].m]
                ELSE [at |-> "emit", type |-> "deleted", m |-> thread[t].m, copy |-> thread[t].new]
<1>1. /\ thread[t].at \in {"edit", "delete"} /\ thread' = [thread EXCEPT ![t] = r]
      /\ message' = [message EXCEPT ![thread[t].m] = Chat!Written(@, thread[t].loaded, thread[t].new)]
      /\ receipt' = receipt
  BY DEF Chat!ChangeCommit, Chat!Goes
<1>2. r.at \in {"refresh", "emit"}
  OBVIOUS
<1> HIDE DEF r
<1>3. ReceiptsSound'
  <2>1. \A s \in Threads : thread'[s].at = "receipt" => thread'[s] = thread[s]
    BY <1>1, <1>2, RequestGoes DEF OnlyRequest
  <2> QED BY <1>1, <2>1, ReceiptsSame
<1>4. PICK n \in Messages : n = thread[t].m
  BY <1>1 DEF ChatInv, RequestSound
<1>5. RequestSound(t) /\ IsRow(message[n])
  BY <1>1, <1>4 DEF ChatInv, RequestSound, MessageSound
<1>6. /\ message'[n] = Chat!Written(message[n], thread[t].loaded, thread[t].new)
      /\ \A m \in Messages \ {n} : message'[m] = message[m]
  BY <1>1, <1>4 DEF ChatInv
<1>7. message'[n].deleted \in {message[n].deleted, thread[t].new.deleted}
      /\ (thread[t].at = "edit" => message'[n].deleted = message[n].deleted)
  BY <1>5, <1>6, WrittenRow DEF RequestSound
<1>8. thread[t].at = "delete" => thread[t].new.deleted # 0
  BY <1>5 DEF RequestSound
<1> QED BY <1>1, <1>3, <1>6, <1>7, <1>8 DEF Kept

LEMMA ReceiptsInit == Chat!Init => ReceiptsSound
<1> SUFFICES ASSUME Chat!Init PROVE ReceiptsSound
  OBVIOUS
<1>1. \A t \in Threads : thread[t].at = "idle"
  BY DEF Chat!Init, Chat!Idle
<1>2. /\ DOMAIN receipt = Messages
      /\ \A m \in Messages : DOMAIN receipt[m] = Users /\ \A u \in Users : receipt[m][u] = Chat!NoReceipt
  BY DEF Chat!Init
<1>3. IsReceipt(Chat!NoReceipt)
  BY DEF IsReceipt, ReceiptColumns, Chat!NoReceipt
<1> QED BY <1>1, <1>2, <1>3 DEF ReceiptsSound

LEMMA NextKeepsReceipts == ChatInv /\ ReceiptsSound /\ [Chat!Next]_(Chat!chatVars) => ReceiptsSound' /\ Kept
<1> SUFFICES ASSUME ChatInv, ReceiptsSound, [Chat!Next]_(Chat!chatVars) PROVE ReceiptsSound' /\ Kept
  OBVIOUS
<1>1. ASSUME NEW t \in Threads, NEW r, r.at # "receipt", thread' = [thread EXCEPT ![t] = r], UNCHANGED <<message, receipt>>
      PROVE  ReceiptsSound' /\ Kept
  <2>1. \A s \in Threads : thread'[s].at = "receipt" => thread'[s] = thread[s]
    BY <1>1, RequestGoes DEF OnlyRequest
  <2> QED BY <1>1, <2>1, ReceiptsSame DEF Kept
<1>2. ASSUME NEW t \in Threads, NEW u, NEW m \in Messages, NEW b,
             \/ Chat!SendMessage(t, u, m, b) \/ Chat!EditMessage(t, u, m, b)
             \/ Chat!PlatformPublish(t, m, b) \/ Chat!DeleteMessage(t, u, m)
      PROVE  ReceiptsSound' /\ Kept
  <2>1. PICK r : r.at # "receipt" /\ Chat!Begin(t, r)
    BY <1>2 DEF Chat!SendMessage, Chat!EditMessage, Chat!PlatformPublish, Chat!DeleteMessage
  <2> QED BY <1>1, <2>1 DEF Chat!Begin
<1>3. ASSUME NEW t \in Threads, NEW u \in Users, NEW m \in Messages, NEW state, Chat!Acknowledge(t, u, m, state)
      PROVE  ReceiptsSound' /\ Kept
  <2>1. UNCHANGED <<message, receipt>>
    BY <1>3 DEF Chat!Acknowledge, Chat!Begin
  <2> QED BY <1>3, <2>1, AcknowledgeKeepsReceipts DEF Kept
<1>4. ASSUME NEW t \in Threads, Chat!Refresh(t) \/ Chat!EmitMessageEvent(t) \/ Chat!Dies(t)
      PROVE  ReceiptsSound' /\ Kept
  <2>1. PICK r : r.at # "receipt" /\ Chat!Goes(t, r)
    BY <1>4 DEF Chat!Refresh, Chat!EmitMessageEvent, Chat!Dies, Chat!Idle
  <2>2. UNCHANGED <<message, receipt>>
    BY <1>4 DEF Chat!Refresh, Chat!EmitMessageEvent, Chat!Dies
  <2> QED BY <1>1, <2>1, <2>2 DEF Chat!Goes
<1>5. CASE (\E u \in Users, role \in {"none", "viewer", "member", "owner"} : Chat!ManageMembers(u, role))
           \/ UNCHANGED Chat!chatVars
  <2>1. UNCHANGED <<message, receipt, thread>>
    BY <1>5 DEF Chat!ManageMembers, Chat!chatVars
  <2> QED BY <2>1, ReceiptsSame DEF Kept
<1> QED BY <1>2, <1>3, <1>4, <1>5, SendKeepsReceipts, ReceiptCommitKeeps, ChangeKeepsDeletion DEF Chat!Next, Chat!MarkRead

\* No step takes back a deletion or the time a member read a message, whatever older copy of the row
\* its request had loaded, for any number of overlapping requests (edit_message, acknowledge_message).
THEOREM NothingIsTakenBack == Chat!Spec => NothingTakenBack
<1>1. ChatInv /\ ReceiptsSound /\ [Chat!Next]_(Chat!chatVars) =>
        [\A m \in Messages : message[m] # Chat!NoMessage =>
           /\ message[m].deleted # 0 => message'[m].deleted # 0
           /\ \A u \in Users : receipt[m][u].read => receipt'[m][u].read]_(Chat!chatVars)
  BY NextKeepsReceipts DEF Kept, Stored
<1> QED BY <1>1, ChatInvInit, ChatInvNext, ReceiptsInit, NextKeepsReceipts, PTL
        DEF Chat!Spec, NothingTakenBack, Chat!NothingTakenBack
=============================================================================
