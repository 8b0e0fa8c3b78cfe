-------------------------- MODULE LifecycleEvents ---------------------------
(***************************************************************************)
(* The lifecycle events !thute Auth publishes and !thute Push consumes:    *)
(* the status of an account or an application changed, or a session was    *)
(* revoked.  An event carries its type, the id it is about and occurred_at *)
(* (the created_at of its outbox row), abstracted to the number of the     *)
(* Auth transaction that wrote it; these three identify it, so the random  *)
(* event_id is left out.                                                   *)
(***************************************************************************)
EXTENDS Naturals

CONSTANTS Users,      \* accounts
          Apps,       \* registered applications (client ids)
          Sessions,   \* product sessions
          Owner,      \* Owner[s]: the account of session s
          Client,     \* Client[s]: the application of session s
          MaxTx       \* bound: status transactions of Auth

ASSUME AuthAssumption ==
    /\ Owner \in [Sessions -> Users]
    /\ Client \in [Sessions -> Apps]
    /\ MaxTx \in Nat
    \* ids of the three tables never collide
    /\ Users \cap Apps = {} /\ Users \cap Sessions = {} /\ Apps \cap Sessions = {}

AccountKinds == {"account.enabled", "account.disabled"}
AppKinds == {"application.enabled", "application.disabled"}
RevocationKinds == {"session.revoked"}

Event == [type : AccountKinds, subject : Users, at : 1..MaxTx]
           \cup [type : AppKinds, subject : Apps, at : 1..MaxTx]
           \cup [type : RevocationKinds, subject : Sessions, at : 1..MaxTx]

NoEvent == [type |-> "none", subject |-> "none", at |-> 0]
=============================================================================
