------------------------------ MODULE Hosting ------------------------------
(***************************************************************************)
(* The hosting service: the failover of a project (HostingFailover), a     *)
(* node with its capacity and databases (HostingDatabases), and the builds *)
(* of a project (HostingBuilds).  The three read none of each other's      *)
(* state; what one leaves open of another is said in its module.           *)
(***************************************************************************)
EXTENDS HostingFailover

CONSTANTS Threads, Tenants, Reservations, Databases, Capacities, MaxRequests, MaxBackups, MaxFaults
VARIABLES capacity, placement, reservation, db, backups, env, role, dbAgent, thread, drift, requests, faults

D == INSTANCE HostingDatabases WITH Projects <- Tenants, project <- placement, agent <- dbAgent

\* What HostingDatabases assumes of its constants.
ASSUME HostingNodeAssumption == D!HostingDatabasesAssumption

CONSTANTS Builders, Uploads, Contents, MaxPushes, MaxBuilds, MaxBuildRequests
VARIABLES kind, source, registered, credential, hook, builds, queuing, hooking, builder,
          head, delivered, announced, built, archive, put, buildRequests, buildFaults

Build == INSTANCE HostingBuilds
           WITH MaxRequests <- MaxBuildRequests, requests <- buildRequests, faults <- buildFaults

-----------------------------------------------------------------------------
(* Properties of the node and of the builds, as their modules state them. *)

\* A node holds no more than its capacity and what came to it without a look at the capacity
\* (rank_nodes, reserve_capacity).
PlacementFits == D!PlacementFits

\* The engine does what the row of the database says (report_database_operation).
EngineMatches == D!EngineMatches

\* No push that the webhook took is forgotten (queue_webhook_build).
NoPushForgotten == Build!NoPushForgotten

\* With a registered checksum, no build gets to see other bytes (materialize_verified_zip).
OnlyRegisteredBuilt == Build!OnlyRegisteredBuilt
============================================================================
