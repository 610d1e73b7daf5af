---------------------------- MODULE MCDaveSession ----------------------------
(* Instances of DaveSession for TLC: three users join a call; one of two   *)
(* users rekeys, or leaves and joins again, or the call is without DAVE    *)
(* for a time.                                                             *)
EXTENDS DaveSession, TLC
CONSTANTS alice, bob, carol

Scenario(alices, carols, rekeys, leaves, downgrades, announces, frames) ==
    [connect |-> alice :> alices @@ bob :> 1 @@ carol :> carols,
     rekey |-> alice :> rekeys @@ bob :> 0 @@ carol :> 0,
     leave |-> alice :> leaves @@ bob :> 0 @@ carol :> 0,
     downgrade |-> alice :> 0 @@ bob :> downgrades @@ carol :> 0,
     announce |-> alice :> announces @@ bob :> 0 @@ carol :> 0,
     frame |-> alice :> frames @@ bob :> 0 @@ carol :> 0]
MCBounds ==
    {Scenario(1, 1, 0, 0, 0, 0, 1), Scenario(1, 1, 0, 1, 0, 0, 0), Scenario(1, 0, 1, 0, 0, 0, 2),
     Scenario(1, 0, 0, 0, 1, 1, 0), Scenario(2, 0, 0, 1, 0, 0, 1), Scenario(1, 0, 1, 0, 1, 0, 0)}
==============================================================================
