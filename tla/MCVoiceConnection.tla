--------------------------- MODULE MCVoiceConnection ---------------------------
(* Instances of VoiceConnection for TLC.                                   *)
EXTENDS VoiceConnection

Scenario(generations, updates, hellos, ends) ==
    [generation |-> generations, update |-> updates, hello |-> hellos, join |-> 1,
     disconnect |-> ends, close |-> ends, recover |-> ends]

(* Two server updates at once; a resume of a resume; an end by the user or *)
(* by the Session, or a failure of the Gateway.                            *)
MCBounds == {Scenario(2, 2, 0, 0), Scenario(3, 1, 2, 0), Scenario(2, 1, 1, 1)}

(* A server update while the connection is being removed, then an end.     *)
RemovedBounds == {[Scenario(2, 2, 0, 0) EXCEPT !.close = 1]}
=============================================================================
