--------------------------- MODULE MCShardManager ---------------------------
(* An instance of ShardManager for TLC. Symmetry is left out: the run      *)
(* checks liveness.                                                        *)
EXTENDS ShardManager
=============================================================================
