----------------------- MODULE MCLifecyclePropagation -----------------------
(* TLC instance of LifecyclePropagation: one account signed in to one        *)
(* application from one device, and two threads of Push.  A behaviour is one *)
(* of two kinds: Push's requests, registrations included, come one at a time *)
(* and two posts may be on the network; or lifecycle events of accounts and  *)
(* sessions overlap in any way, with one post on the network.  Registering a *)
(* device changes nothing that is claimed of requests that overlapped.       *)
(* Threads are interchangeable.                                              *)
EXTENDS LifecyclePropagation, FiniteSets, TLC

CONSTANTS u1, a1, s1

VARIABLE part

MCOwner == s1 :> u1
MCClient == s1 :> a1
ThreadSymmetry == Permutations(Threads)

Registering == \E t \in Threads : thread[t].step \in {"checked", "register"}

MCInit == Init /\ part \in {"serial", "overlapping"}

MCNext ==
    /\ Next /\ part' = part
    /\ \/ part = "serial" /\ ~overlapped' /\ Cardinality(inflight') <= 2
       \/ /\ part = "overlapping" /\ ~Registering' /\ appActive' = appActive
          /\ Cardinality(inflight') <= 1

MCSpec == MCInit /\ [][MCNext]_<<vars, part>>
=============================================================================
