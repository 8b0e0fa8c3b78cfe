---------------------------- MODULE DeliveryQueue ---------------------------
(***************************************************************************)
(* What a delivery queue promises, whatever its workers do: a job is       *)
(* queued, may be handed to a provider any number of times while it is     *)
(* open, and ends once; it ends as delivered only if a provider accepted   *)
(* it.  Push's PushDelivery and the Notification gateway implement it.     *)
(***************************************************************************)
CONSTANT Jobs

VARIABLES state,    \* "absent", "open", "delivered" or "unsuccessful"
          handed    \* jobs a provider has accepted

vars == <<state, handed>>

Init ==
    /\ state = [j \in Jobs |-> "absent"]
    /\ handed = {}

\* Jobs are queued together: one request, one transaction.
Enqueue(S) ==
    /\ \A j \in S : state[j] = "absent"
    /\ state' = [j \in Jobs |-> IF j \in S THEN "open" ELSE state[j]]
    /\ UNCHANGED handed

HandOver(j) ==
    /\ state[j] = "open"
    /\ handed' = handed \cup {j}
    /\ UNCHANGED state

\* A transaction ends some jobs.
Settle(ok, bad) ==
    /\ \A j \in ok \cup bad : state[j] = "open"
    /\ ok \subseteq handed
    /\ ok \cap bad = {}
    /\ state' = [j \in Jobs |-> IF j \in ok THEN "delivered"
                                ELSE IF j \in bad THEN "unsuccessful" ELSE state[j]]
    /\ UNCHANGED handed

Next ==
    \/ \E S \in SUBSET Jobs : Enqueue(S)
    \/ \E j \in Jobs : HandOver(j)
    \/ \E ok, bad \in SUBSET Jobs : Settle(ok, bad)

Spec == Init /\ [][Next]_vars
=============================================================================
