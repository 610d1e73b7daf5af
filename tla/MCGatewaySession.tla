-------------------------- MODULE MCGatewaySession --------------------------
(* Instances of GatewaySession for TLC: one or two user goroutines, which  *)
(* are interchangeable.                                                    *)
EXTENDS GatewaySession, TLC

UserSymmetry == Permutations(Users)
=============================================================================
