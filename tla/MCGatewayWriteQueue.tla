------------------------- MODULE MCGatewayWriteQueue -------------------------
(* Instances of GatewayWriteQueue for TLC, with few packets and a small    *)
(* limit. Symmetry is left out: the run checks liveness.                   *)
EXTENDS GatewayWriteQueue
=============================================================================
