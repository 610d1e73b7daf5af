----------------------------- MODULE RateWindow -----------------------------
(***************************************************************************)
(* What every limiter of the library promises, whatever its bookkeeping:   *)
(* at most Limit grants in any Window. RestRequests implements it with the *)
(* proactive global limit of the REST rate limiter.                        *)
(***************************************************************************)
EXTENDS Integers, FiniteSets

CONSTANTS Limit, Window

VARIABLES
    now,
    grants              \* grants of the last Window, as <<whom, when>>

Recent(gs, t) == {g \in gs : g[2] + Window > t}

Init == grants = {}

Grant ==
    /\ Cardinality(grants) < Limit
    /\ \E g \in grants' \ grants : g[2] = now /\ grants' = grants \cup {g}
    /\ UNCHANGED now

Tick == now' > now /\ grants' = Recent(grants, now')

Next == Grant \/ Tick

Spec == Init /\ [][Next]_<<now, grants>>
=============================================================================
