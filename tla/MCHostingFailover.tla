------------------------- MODULE MCHostingFailover -------------------------
(* TLC instance of HostingFailover: nodes are interchangeable.               *)
EXTENDS HostingFailover, TLC

CONSTANTS
  n1, n2,
  MaxBusy  \* bound on the moves, operations and manual changes together

MCNext == Next /\ Len(attempts') + Len(operations') + switches' <= MaxBusy
MCSpec == Init /\ [][MCNext]_vars

NodeSymmetry == Permutations(Nodes)
============================================================================
