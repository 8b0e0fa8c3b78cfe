------------------------------ MODULE MailFleet ------------------------------
(* The external mail nodes beside other components: names that others use as well are told  *)
(* apart, what is assumed of the constants is said, and the properties are stated.          *)
EXTENDS Naturals, FiniteSets

CONSTANTS Nodes, Boxes, Owners, Approvals,
          Callers,  \* requests that may be under way at the same time
          DualControl, NoNode, Keep, MaxCalls, MaxSnapshots, MaxFaults

ASSUME FleetAssumption ==
  /\ NoNode \notin Nodes /\ IsFiniteSet(Boxes) /\ Keep \in Nat \ {0}
  /\ MaxCalls \in Nat /\ MaxSnapshots \in Nat /\ MaxFaults \in Nat

VARIABLES mailNode, box, snaps, ops, cmds, approval, agent, storage, files, caller, alone, calls, faults

Fleet == INSTANCE MailNodes
           WITH Threads <- Callers, MaxRequests <- MaxCalls, node <- mailNode, store <- storage,
                thread <- caller, requests <- calls

\* A completed command leaves the account as the mailbox says, until another command fails.
AccountsFollow == Fleet!AccountsFollow

\* Mailboxes move only by a restore, and under dual control with an approval given for just this.
MoveApproved == Fleet!MoveApproved
=============================================================================
