--------------------------- MODULE MCPushDelivery ---------------------------
(* TLC instance of PushDelivery: liveness is checked, so no symmetry.        *)
EXTENDS PushDelivery
=============================================================================
