---------------------------- MODULE MCMailNodes ----------------------------
(* TLC instance of MailNodes.  A behaviour is of one of three kinds: changes *)
(* of two mailboxes, one node calling in; failovers of one mailbox, with     *)
(* approvals and without; backups and failovers without mailboxes, enough of *)
(* them for the retention to delete a snapshot.  Nodes, mailboxes, owners    *)
(* and requests are interchangeable: no two mailboxes move together, so      *)
(* nothing depends on the order that SetToSeq chooses.                       *)
EXTENDS MailFleet, Sequences, TLC

CONSTANTS
  MaxBusy,   \* bound on the snapshots and the faults together in a behaviour with failovers
  MaxKept    \* the same in one with backups only

VARIABLE part

Within ==
  \/ /\ part = "mailboxes" /\ snaps' = <<>>
     /\ Cardinality({n \in Nodes : mailNode'[n].fresh}) <= 1
  \/ /\ part = "failovers" /\ Len(snaps') + faults' <= MaxBusy
     /\ Cardinality({b \in Boxes : box'[b].node # NoNode}) <= 1
  \/ /\ part = "backups" /\ Len(snaps') + faults' <= MaxKept
     /\ UNCHANGED <<box, approval>>

MCInit == Fleet!Init /\ part \in {"mailboxes", "failovers", "backups"}
MCNext == Fleet!Next /\ part' = part /\ Within
MCSpec == MCInit /\ [][MCNext]_<<Fleet!vars, part>>

MailSymmetry == Permutations(Nodes) \cup Permutations(Boxes) \cup Permutations(Owners) \cup Permutations(Callers)
=============================================================================
