---------------------------- MODULE MCRestRequests ----------------------------
(* Instances of RestRequests for TLC. Two scenarios keep them small: the   *)
(* requests share a route, and Discord may pause the bot; or they have a   *)
(* route each, and Discord may give one of them another hash.              *)
EXTENDS RestRequests
CONSTANTS p1, p2, p3, get, post, put, m1, m2

OneRoute ==
    /\ pauses = 0 /\ hash[post] = 1
    /\ \A p \in Requests : route[p] = get /\ majorKey[p] = m1
TwoRoutes ==
    /\ pauses = MaxPauses
    /\ \A p \in Requests : route[p] = (IF p = p2 THEN post ELSE get)
    /\ majorKey[p1] = m1
MCInit == Init /\ hash[get] = 1 /\ (OneRoute \/ TwoRoutes)
MCSpec == MCInit /\ [][Next]_vars

-----------------------------------------------------------------------------
(* Three routes, of which post moves from the hash of get to that of put.  *)
(* Before, each is requested once and the first two meet their limit; then *)
(* these two try again, at the same time.                                  *)
MovingInit ==
    /\ Init /\ pauses = MaxPauses
    /\ route = (p1 :> get @@ p2 :> post @@ p3 :> put)
    /\ hash = (get :> 1 @@ post :> 1 @@ put :> 2)
MovingSpec == MovingInit /\ [][Next]_vars

Tried(p) == pc[p] \in {"ended", "backoff"} \/ attempt[p].retries = 1
MovingScenario ==
    /\ pc[p1] # "start" => Tried(p3)
    /\ pc[p2] # "start" => Tried(p1)
    /\ now = 1 \/ hash[post] = 2 => Tried(p2)
    /\ \A p \in {p1, p2} : pc[p] # "ended" /\ (now = 0 => attempt[p].retries = 0)
    /\ \A p \in Requests : attempt[p].response.kind \in
           {"none", IF p = p3 \/ attempt[p].retries = 1 THEN "ok" ELSE "limited"}
=============================================================================
