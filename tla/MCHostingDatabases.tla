------------------------- MODULE MCHostingDatabases -------------------------
(* TLC instance of Hosting without its failover, which MCHostingFailover has: a behaviour is *)
(* one of a node's databases or one of a project's builds.  Requests and projects are        *)
(* interchangeable; Builders and Uploads are the same model values as they.                  *)
EXTENDS Hosting, TLC

CONSTANT n1
VARIABLE part

nodeSide == <<capacity, placement, reservation, db, backups, env, role, dbAgent, thread, drift, requests, faults>>
buildSide == <<kind, source, registered, credential, hook, builds, queuing, hooking, builder,
               head, delivered, announced, built, archive, put, buildRequests, buildFaults>>

\* The other part, and the failover, stay in one initial state.
MCInit ==
  /\ Init /\ ~project.consented
  /\ D!Init /\ Build!Init /\ part \in {"databases", "builds"}
  /\ (part = "databases" => kind = "git" /\ credential = "none")
  /\ (part = "builds" => \A c \in Capacities : capacity <= c /\ \A p \in Tenants : placement[p] = "absent")

MCNext ==
  /\ UNCHANGED <<vars, part>>
  /\ \/ part = "databases" /\ D!Next /\ UNCHANGED buildSide
     \/ part = "builds" /\ Build!Next /\ UNCHANGED nodeSide

MCSpec == MCInit /\ [][MCNext]_<<vars, nodeSide, buildSide, part>>

HostingSymmetry == Permutations(Threads) \cup Permutations(Tenants)
=============================================================================
