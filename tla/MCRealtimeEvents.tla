-------------------------- MODULE MCRealtimeEvents --------------------------
(* TLC instance of RealtimeEvents and RealtimeChat.  A behaviour is one of a conversation  *)
(* or one of events: the first ends where the second begins, with a row in the event table. *)
(* Two actors overlap on one event, and one may crash; a second event is queued only while  *)
(* the second actor rests, which it then does, and before a crash.                          *)
EXTENDS RealtimeEvents

CONSTANTS
  SecondActor,  \* bound: works only while there is a single event
  Creator,      \* bound: the user who made the conversation
  Users, Messages, Bodies, Service, Threads, MaxRequests, MaxFaults

VARIABLES member, message, receipt, events, thread, lost, requests, faults, part

chatSide == <<member, message, receipt, events, thread, lost, requests, faults>>
Chat == INSTANCE RealtimeChat

Bound ==
  (\E e, f \in Events : e # f /\ cursor[e] # 0 /\ cursor[f] # 0)
    => actor[SecondActor] = Idle /\ crashes = 0

MCInit ==
  /\ Init /\ Chat!Init /\ part \in {"events", "chat"}
  /\ member[Creator].role = "owner" /\ \A u \in Users : member[u].role # "none"

MCNext ==
  /\ part' = part
  /\ \/ part = "events" /\ Next /\ Bound' /\ UNCHANGED chatSide
     \/ part = "chat" /\ Chat!Next /\ UNCHANGED vars

MCSpec == MCInit /\ [][MCNext]_<<vars, chatSide, part>> /\ Fairness

\* Once its requests are through, clients have been told of a message as it is.
ClientsTold == Chat!ClientsTold

\* No step takes back a deletion or the time a member read a message.
NothingTakenBack == Chat!NothingTakenBack
=============================================================================
