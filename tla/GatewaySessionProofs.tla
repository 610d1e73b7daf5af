------------------------ MODULE GatewaySessionProofs ------------------------
(***************************************************************************)
(* Proofs about GatewaySession for any number of users, lifetimes and      *)
(* generations. First, type correctness, and that one generation lives at a*)
(* time. Then the order in which the goroutines work: who may reconnect or *)
(* stop a lifetime, that no event is stranded, and what Close leaves. And, *)
(* for a program that opens and closes from one goroutine, that DataReady  *)
(* and the Connect and Disconnect events tell the truth.                   *)
(***************************************************************************)
EXTENDS GatewaySession, SequenceTheorems, TLAPS

-----------------------------------------------------------------------------
(* The inductive invariant. OneLiveGeneration alone is not inductive: a    *)
(* goroutine must hold a generation that was begun, and a generation that  *)
(* was not begun must be untouched.                                        *)
HoldsGeneration == {"dial", "attach", "abort", "hello", "auth", "wait",
                    "activate", "drain", "handling", "finish", "closing"}
HoldsLifetime == {"begin", "dial", "attach", "abort", "hello", "auth", "wait",
                  "activate", "drain", "handling", "finish", "result", "backoff",
                  "stop", "defer"}

Placement ==
    /\ \A c \in Callers : pc[c] \in HoldsGeneration => cur[c] \in 1 .. gens
    /\ \A c \in Callers : pc[c] \in HoldsLifetime => life[c] \in Lives
    /\ \A g \in Gens : g <= gens => lifeOf[g] \in Lives
    /\ \A g \in Gens : g > gens =>
          finish[g] = "idle" /\ ws[g] = "none" /\ listener[g] = "none"
    /\ wsConn # 0 => ws[wsConn] # "none"

CoreInv == TypeOK /\ Placement /\ OneLiveGeneration

(* Two goroutines never open the same generation, and the one that opens a *)
(* current generation works for the lifetime the generation belongs to.    *)
OpenerOwnsGeneration ==
    LET opening == {c \in Callers :
            pc[c] \in {"dial", "attach", "abort", "hello", "auth", "wait",
                       "activate", "drain", "handling", "finish"}}
    IN  \A c \in opening : /\ lifeOf[cur[c]] = life[c]
                           /\ \A d \in opening : cur[c] = cur[d] => c = d

(* An aborted generation has no websocket and is not connected: otherwise  *)
(* abort would leave wsConn or connected behind. That needs every opener to*)
(* know how far its generation is, and nobody else to open the same one.   *)
BeforeAttach == {"dial", "attach", "abort"}
AfterAttach == {"hello", "auth", "wait", "activate", "drain", "handling", "finish"}

Attachment ==
    /\ \A c \in Callers : pc[c] \in BeforeAttach => ws[cur[c]] = "none"
    /\ \A c \in Callers : pc[c] \in AfterAttach => ws[cur[c]] # "none"
    /\ \A g \in Gens : connected[g] => ws[g] # "none"

IInv == CoreInv /\ Attachment /\ OpenerOwnsGeneration

-----------------------------------------------------------------------------
(* TypeOK in two halves: what the goroutines share, and what they own.     *)
SharedType ==
    /\ gatewayLifecycle \in 0 .. MaxLife
    /\ gatewayConnection \in 0 .. MaxGen
    /\ gatewayReconnectRunning \in BOOLEAN
    /\ wsConn \in 0 .. MaxGen
    /\ DataReady \in BOOLEAN
    /\ events \in Seq(Events)
    /\ dispatching \in BOOLEAN
    /\ lastEvent \in Events
    /\ cancelled \in SUBSET Lives
    /\ lifeOf \in [Gens -> 0 .. MaxLife]
    /\ ws \in [Gens -> {"none", "open", "closed"}]
    /\ connected \in [Gens -> BOOLEAN]
    /\ ready \in [Gens -> Results]
    /\ ctxDone \in SUBSET Gens
    /\ stopClosed \in SUBSET Gens
    /\ finish \in [Gens -> Phases]
    /\ recovery \in [Gens -> Recoveries]
    /\ willReconnect \in [Gens -> BOOLEAN]

OwnType ==
    /\ lives \in 0 .. MaxLife
    /\ gens \in 0 .. MaxGen
    /\ auth \in [Gens -> {"none", "sent", "ready"}]
    /\ pc \in [Callers -> CallerStates]
    /\ life \in [Callers -> 0 .. MaxLife]
    /\ cur \in [Callers -> 0 .. MaxGen]
    /\ res \in [Callers -> Results]
    /\ listener \in [Gens -> ListenerStates]
    /\ loss \in [Gens -> Recoveries]

(* TypeOK is its two halves.                                               *)
LEMMA TypeSplits == TypeOK <=> SharedType /\ OwnType
BY DEF TypeOK, SharedType, OwnType

(* The two halves give TypeOK after a step.                                *)
LEMMA TypeJoins == SharedType' /\ OwnType' => TypeOK'
BY DEF TypeOK, SharedType, OwnType

(* The results the code builds are results, and carry a recovery.          *)
LEMMA ResultTypes ==
    /\ NoResult \in Results /\ Success \in Results /\ Canceled \in Results
    /\ \A a \in Recoveries : Failure(a, TRUE) \in Results
    /\ \A a \in Recoveries : Failure(a, FALSE) \in Results
    /\ \A r \in Results : r.action \in Recoveries /\ r.retry \in BOOLEAN
BY DEF Results, Recoveries, NoResult, Success, Canceled, Failure

(* Nothing the invariant mentions changes.                                 *)
LEMMA Stuttering == ASSUME CoreInv, UNCHANGED vars PROVE CoreInv'
<1> USE DEF vars, session, legacy, queue, counters, conns, finishing, callers,
            readers
<1>1. TypeOK'
  BY DEF CoreInv, TypeOK
<1>2. Placement'
  BY DEF CoreInv, Placement
<1>3. OneLiveGeneration'
  BY DEF CoreInv, OneLiveGeneration
<1> QED BY <1>1, <1>2, <1>3 DEF CoreInv

(* The initial state satisfies the core of the invariant.                  *)
LEMMA InitCoreInv == Init => CoreInv
<1> SUFFICES ASSUME Init PROVE CoreInv
  OBVIOUS
<1> USE BoundsAssumption DEF Init, Lives, Gens
<1>1. TypeOK
  <2>1. NoResult \in Results
    BY DEF NoResult, Results, Recoveries
  <2>2. events \in Seq(Events) /\ lastEvent \in Events
    BY DEF Events
  <2>3. SharedType
    <3>1. /\ gatewayReconnectRunning \in BOOLEAN /\ DataReady \in BOOLEAN
          /\ dispatching \in BOOLEAN
      BY Zenon
    <3>2. /\ cancelled \in SUBSET Lives /\ ctxDone \in SUBSET Gens
          /\ stopClosed \in SUBSET Gens
      BY Zenon
    <3>3. /\ connected \in [Gens -> BOOLEAN] /\ willReconnect \in [Gens -> BOOLEAN]
      BY Zenon
    <3> QED
      BY <2>1, <2>2, <3>1, <3>2, <3>3 DEF SharedType, Phases, Recoveries
  <2>4. OwnType
    BY <2>1 DEF OwnType, CallerStates, ListenerStates, Recoveries
  <2> QED
    BY <2>3, <2>4, TypeSplits
<1>2. Placement
  BY DEF Placement, HoldsGeneration, HoldsLifetime
<1>3. OneLiveGeneration
  BY DEF OneLiveGeneration
<1> QED BY <1>1, <1>2, <1>3 DEF CoreInv

(* The lifecycle events of any generation, or of none, are events.         *)
LEMMA EventTypes ==
    \A g \in 0 .. MaxGen : <<"Connect", g>> \in Events /\ <<"Disconnect", g>> \in Events
BY DEF Events

(* What every drain step keeps.                                            *)
LEMMA DrainTypes ==
    ASSUME events \in Seq(Events), dispatching \in BOOLEAN, lastEvent \in Events,
           DrainStarts \/ DrainSkips \/ DrainContinues \/ DrainEnds
    PROVE  /\ events' \in Seq(Events)
           /\ dispatching' \in BOOLEAN
           /\ lastEvent' \in Events
<1>1. CASE events # <<>> /\ DispatchNext
  <2>1. Head(events) \in Events /\ Tail(events) \in Seq(Events)
    BY <1>1, HeadTailProperties
  <2> QED BY <1>1, <2>1 DEF DispatchNext
<1>2. CASE DrainSkips
  BY <1>2 DEF DrainSkips, queue
<1>3. CASE DrainEnds
  BY <1>3 DEF DrainEnds
<1> QED BY <1>1, <1>2, <1>3 DEF DrainStarts, DrainContinues

(* The critical section of a finish, whoever runs it.                      *)
LEMMA FinishCriticalKeeps ==
    ASSUME CoreInv, NEW g \in Gens, g <= gens, NEW r \in Results,
           FinishCritical(g, r), UNCHANGED counters
    PROVE  /\ SharedType' /\ OneLiveGeneration'
           /\ wsConn' # 0 => ws'[wsConn'] # "none"
           /\ \A h \in Gens : h > gens => finish'[h] = "idle"
           /\ lifeOf' = lifeOf /\ ws' = ws
<1> USE DEF CoreInv, Gens
<1>1. gatewayConnection = g /\ finish[g] = "idle" /\ lifeOf[g] \in Lives
  BY DEF OneLiveGeneration, FinishCritical, Placement
<1>2. SharedType'
  <2>1. SharedType
    BY TypeSplits
  <2>2. AfterLoss(g) \in Seq(Events)
    BY <2>1, BoundsAssumption, AppendProperties DEF AfterLoss, Events, SharedType
  <2>3. r.action \in Recoveries /\ r.retry \in BOOLEAN
    BY ResultTypes
  <2>4. cancelled' \in SUBSET Lives /\ gatewayLifecycle' \in 0 .. MaxLife
    BY <1>1, <2>1, BoundsAssumption DEF FinishCritical, NamesWebsocket, SharedType
  <2>5. gatewayConnection' \in 0 .. MaxGen /\ wsConn' \in 0 .. MaxGen
    BY <1>1, <2>1, BoundsAssumption DEF FinishCritical, NamesWebsocket, SharedType, legacy
  <2>8. DataReady' \in BOOLEAN /\ gatewayReconnectRunning' \in BOOLEAN
    BY <2>1, Zenon DEF FinishCritical, NamesWebsocket, SharedType, legacy
  <2>6. /\ connected' \in [Gens -> BOOLEAN] /\ ready' \in [Gens -> Results]
        /\ finish' \in [Gens -> Phases] /\ recovery' \in [Gens -> Recoveries]
    BY <2>1, <2>3 DEF FinishCritical, NamesWebsocket, SharedType, Phases
  <2>7. willReconnect' \in [Gens -> BOOLEAN]
    BY <2>1, <2>3 DEF FinishCritical, NamesWebsocket, SharedType
  <2> QED
    BY <2>1, <2>2, <2>4, <2>5, <2>6, <2>7, <2>8
       DEF FinishCritical, NamesWebsocket, SharedType
<1>3. OneLiveGeneration'
  BY <1>1 DEF FinishCritical, NamesWebsocket, OneLiveGeneration, TypeOK, Placement, legacy, counters
<1>4. lifeOf' = lifeOf /\ ws' = ws
  BY DEF FinishCritical
<1>5. wsConn' # 0 => ws'[wsConn'] # "none"
  BY <1>4 DEF FinishCritical, NamesWebsocket, Placement, legacy
<1>6. \A h \in Gens : h > gens => finish'[h] = "idle"
  BY <1>1 DEF FinishCritical, NamesWebsocket, Placement, TypeOK
<1> QED BY <1>2, <1>3, <1>4, <1>5, <1>6


-----------------------------------------------------------------------------
(* Every step keeps the invariant: one lemma per action that does not run  *)
(* the critical section of a finish.                                       *)

(* A new lifetime: nobody holds a generation of it yet.                    *)
LEMMA OpenWithContextKeeps ==
    ASSUME CoreInv, NEW u \in Users, OpenWithContext(u) PROVE CoreInv'
<1> USE BoundsAssumption DEF Callers, Gens, Lives
<1>1. SharedType /\ OwnType /\ Placement /\ OneLiveGeneration
  BY TypeSplits DEF CoreInv
<1> USE DEF OpenWithContext, Goto, MayOpen, session, legacy, queue, counters, conns, finishing,
            callers, readers
<1>2. SharedType'
  <2>1. gatewayLifecycle' \in 0 .. MaxLife
    BY <1>1 DEF SharedType, OwnType, Placement, HoldsLifetime, HoldsGeneration
  <2> QED BY <1>1, <2>1 DEF SharedType
<1>3. OwnType'
  <2>1. lives' \in 0 .. MaxLife
    BY <1>1 DEF SharedType, OwnType, Placement, HoldsLifetime, HoldsGeneration
  <2>2. life' \in [Callers -> 0 .. MaxLife]
    BY <1>1 DEF SharedType, OwnType, Placement, HoldsLifetime, HoldsGeneration
  <2>3. pc' \in [Callers -> CallerStates]
    BY <1>1 DEF OwnType, CallerStates
  <2> QED BY <1>1, <2>1, <2>2, <2>3 DEF OwnType
<1>4. Placement'
  BY <1>1 DEF SharedType, OwnType, Placement, HoldsGeneration, HoldsLifetime
<1>5. OneLiveGeneration'
  BY <1>1 DEF SharedType, OwnType, Placement, OneLiveGeneration
<1> QED BY <1>2, <1>3, <1>4, <1>5, TypeJoins DEF CoreInv

(* A new generation becomes current only when there was none.              *)
LEMMA beginGatewayGenerationKeeps ==
    ASSUME CoreInv, NEW c \in Callers, beginGatewayGeneration(c) PROVE CoreInv'
<1> USE BoundsAssumption DEF Callers, Gens, Lives
<1>1. SharedType /\ OwnType /\ Placement /\ OneLiveGeneration
  BY TypeSplits DEF CoreInv
<1> USE DEF beginGatewayGeneration, MayBegin, Goto, Return, session, legacy, queue, counters, conns, finishing,
            callers, readers
<1>2. SharedType'
  <2>1. gatewayConnection' \in 0 .. MaxGen
    BY <1>1 DEF SharedType, OwnType, Placement, HoldsLifetime, HoldsGeneration
  <2>2. lifeOf' \in [Gens -> 0 .. MaxLife]
    BY <1>1 DEF SharedType, OwnType, Placement, HoldsLifetime, HoldsGeneration
  <2> QED BY <1>1, <2>1, <2>2 DEF SharedType
<1>3. OwnType'
  <2>1. gens' \in 0 .. MaxGen
    BY <1>1 DEF SharedType, OwnType, Placement, HoldsLifetime, HoldsGeneration
  <2>2. cur' \in [Callers -> 0 .. MaxGen]
    <3>1. cur' = cur \/ (gens + 1 \in 0 .. MaxGen /\ cur' = [cur EXCEPT ![c] = gens + 1])
      BY <1>1 DEF OwnType
    <3> HIDE DEF beginGatewayGeneration
    <3> QED BY <1>1, <3>1 DEF OwnType
  <2>3. pc' \in [Callers -> CallerStates]
    BY <1>1, ZenonT(60) DEF OwnType, CallerStates
  <2>4. res' \in [Callers -> Results]
    BY <1>1, ResultTypes, ZenonT(60) DEF SharedType, OwnType, Recoveries
  <2> QED BY <1>1, <2>1, <2>2, <2>3, <2>4 DEF OwnType
<1>4. Placement'
  <2>1. CASE gens' = gens
    <3>1. /\ pc' = [pc EXCEPT ![c] = "result"] /\ cur' = cur /\ life' = life
          /\ lifeOf' = lifeOf /\ finish' = finish /\ ws' = ws
          /\ listener' = listener /\ wsConn' = wsConn
          /\ pc[c] = "begin"
      BY <1>1, <2>1 DEF OwnType
    <3> HIDE DEF beginGatewayGeneration
    <3> QED BY <1>1, <2>1, <3>1 DEF OwnType, Placement, HoldsGeneration, HoldsLifetime
  <2>2. CASE gens' # gens
    <3>1. /\ pc' = [pc EXCEPT ![c] = "dial"] /\ cur' = [cur EXCEPT ![c] = gens + 1]
          /\ gens' = gens + 1 /\ gens + 1 \in Gens /\ life' = life
          /\ lifeOf' = [lifeOf EXCEPT ![gens + 1] = life[c]]
          /\ finish' = finish /\ ws' = ws
          /\ listener' = listener /\ wsConn' = wsConn
          /\ pc[c] = "begin"
      BY <1>1, <2>2 DEF OwnType
    <3>2. life[c] \in Lives
      BY <1>1, <3>1 DEF Placement, HoldsLifetime
    <3> HIDE DEF beginGatewayGeneration
    <3>3. \A d \in Callers : pc'[d] \in HoldsGeneration => cur'[d] \in 1 .. gens'
      BY <1>1, <3>1 DEF OwnType, Placement
    <3>4. \A d \in Callers : pc'[d] \in HoldsLifetime => life'[d] \in Lives
      BY <1>1, <3>1, <3>2 DEF OwnType, Placement
    <3>5. \A g \in Gens : g <= gens' => lifeOf'[g] \in Lives
      BY <1>1, <3>1, <3>2 DEF OwnType, SharedType, Placement
    <3>6. \A g \in Gens : g > gens' =>
            finish'[g] = "idle" /\ ws'[g] = "none" /\ listener'[g] = "none"
      BY <1>1, <3>1 DEF OwnType, Placement
    <3> QED BY <1>1, <3>1, <3>3, <3>4, <3>5, <3>6 DEF Placement
  <2> QED BY <2>1, <2>2
<1>5. OneLiveGeneration'
  BY <1>1, SMTT(40) DEF SharedType, OwnType, Placement, OneLiveGeneration
<1> QED BY <1>2, <1>3, <1>4, <1>5, TypeJoins DEF CoreInv

(* Dialling leaves the generation as it is.                                *)
LEMMA DialKeeps ==
    ASSUME CoreInv, NEW c \in Callers, Dial(c) PROVE CoreInv'
<1> USE BoundsAssumption DEF Callers, Gens, Lives
<1>1. SharedType /\ OwnType /\ Placement /\ OneLiveGeneration
  BY TypeSplits DEF CoreInv
<1> USE DEF Dial, Goto, Return, session, legacy, queue, counters, conns, finishing,
            callers, readers
<1>2. SharedType'
  BY <1>1 DEF SharedType
<1>3. OwnType'
  <2>1. pc' \in [Callers -> CallerStates]
    BY <1>1, ZenonT(60) DEF OwnType, CallerStates
  <2>2. res' \in [Callers -> Results]
    <3>1. \A a \in {"Resume", "Stop"} : Failure(a, FALSE) \in Results
      BY ResultTypes DEF Recoveries
    <3> QED BY <1>1, <3>1, ZenonT(60) DEF OwnType
  <2> QED BY <1>1, <2>1, <2>2 DEF OwnType
<1>4. Placement'
  BY <1>1, ZenonT(60) DEF SharedType, OwnType, Placement, HoldsGeneration, HoldsLifetime
<1>5. OneLiveGeneration'
  BY <1>1 DEF SharedType, OwnType, Placement, OneLiveGeneration
<1> QED BY <1>2, <1>3, <1>4, <1>5, TypeJoins DEF CoreInv

(* Only a current generation attaches its websocket.                       *)
LEMMA attachGatewayWebsocketKeeps ==
    ASSUME CoreInv, NEW c \in Callers, attachGatewayWebsocket(c) PROVE CoreInv'
<1> USE BoundsAssumption DEF Callers, Gens, Lives
<1>1. SharedType /\ OwnType /\ Placement /\ OneLiveGeneration
  BY TypeSplits DEF CoreInv
<1> USE DEF attachGatewayWebsocket, Goto, Return, StillCurrent, CtxDone, session, legacy, queue, counters, conns, finishing,
            callers, readers
<1>2. SharedType'
  <2>1. wsConn' \in 0 .. MaxGen
    BY <1>1, SMTT(40) DEF SharedType, OwnType, Placement, HoldsLifetime, HoldsGeneration
  <2>2. DataReady' \in BOOLEAN
    BY <1>1, Zenon DEF SharedType, OwnType
  <2>3. ws' \in [Gens -> {"none", "open", "closed"}]
    BY <1>1, ZenonT(60) DEF SharedType, OwnType, Placement, HoldsLifetime, HoldsGeneration
  <2> QED BY <1>1, <2>1, <2>2, <2>3 DEF SharedType
<1>3. OwnType'
  <2>1. pc' \in [Callers -> CallerStates]
    BY <1>1, ZenonT(60) DEF OwnType, CallerStates
  <2>2. res' \in [Callers -> Results]
    BY <1>1, ResultTypes, ZenonT(60) DEF SharedType, OwnType, Recoveries
  <2> QED BY <1>1, <2>1, <2>2 DEF OwnType
<1>4. Placement'
  <2>1. /\ cur[c] \in 1 .. gens /\ cur[c] \in Gens
        /\ cur' = cur /\ life' = life /\ lifeOf' = lifeOf /\ gens' = gens
        /\ finish' = finish /\ listener' = listener
    BY <1>1 DEF OwnType, Placement, HoldsGeneration
  <2>2. \/ pc' = [pc EXCEPT ![c] = "abort"] /\ ws' = ws /\ wsConn' = wsConn
        \/ /\ pc' = [pc EXCEPT ![c] = "hello"]
           /\ ws' = [ws EXCEPT ![cur[c]] = "open"] /\ wsConn' = cur[c]
    BY <1>1
  <2>3. pc[c] = "attach"
    OBVIOUS
  <2> HIDE DEF attachGatewayWebsocket
  <2>4. \A d \in Callers : pc'[d] \in HoldsGeneration => pc[d] \in HoldsGeneration
    BY <1>1, <2>2, <2>3 DEF OwnType, HoldsGeneration
  <2>5. \A d \in Callers : pc'[d] \in HoldsLifetime => pc[d] \in HoldsLifetime
    BY <1>1, <2>2, <2>3 DEF OwnType, HoldsLifetime
  <2>6. \A g \in Gens : g > gens => ws'[g] = ws[g]
    BY <1>1, <2>1, <2>2 DEF OwnType, SharedType
  <2>7. wsConn' # 0 => ws'[wsConn'] # "none"
    BY <1>1, <2>1, <2>2 DEF OwnType, SharedType, Placement
  <2> QED BY <1>1, <2>1, <2>4, <2>5, <2>6, <2>7 DEF Placement
<1>5. OneLiveGeneration'
  BY <1>1 DEF SharedType, OwnType, Placement, OneLiveGeneration
<1> QED BY <1>2, <1>3, <1>4, <1>5, TypeJoins DEF CoreInv

(* HELLO starts the listener of a generation that was begun.               *)
LEMMA ReceiveHelloKeeps ==
    ASSUME CoreInv, NEW c \in Callers, ReceiveHello(c) PROVE CoreInv'
<1> USE BoundsAssumption DEF Callers, Gens, Lives
<1>1. SharedType /\ OwnType /\ Placement /\ OneLiveGeneration
  BY TypeSplits DEF CoreInv
<1> USE DEF ReceiveHello, Goto, Return, session, legacy, queue, counters, conns, finishing,
            callers, readers
<1>2. SharedType'
  BY <1>1 DEF SharedType
<1>3. OwnType'
  <2>1. pc' \in [Callers -> CallerStates]
    BY <1>1, ZenonT(60) DEF OwnType, CallerStates
  <2>2. res' \in [Callers -> Results]
    <3>1. \A r \in {Canceled} \cup {Failure(a, TRUE) : a \in Recoveries} :
               r \in Results
      BY ResultTypes, ZenonT(60)
    <3> QED BY <1>1, <3>1 DEF OwnType
  <2>3. listener' \in [Gens -> ListenerStates]
    BY <1>1, ZenonT(60) DEF OwnType, ListenerStates
  <2> QED BY <1>1, <2>1, <2>2, <2>3 DEF OwnType
<1>4. Placement'
  <2>1. /\ cur[c] \in 1 .. gens /\ cur[c] \in Gens
        /\ cur' = cur /\ life' = life /\ lifeOf' = lifeOf /\ gens' = gens
        /\ finish' = finish /\ ws' = ws /\ wsConn' = wsConn
    BY <1>1 DEF OwnType, Placement, HoldsGeneration
  <2>2. /\ pc' = [pc EXCEPT ![c] = "auth"] \/ pc' = [pc EXCEPT ![c] = "finish"]
        /\ listener' = listener \/ listener' = [listener EXCEPT ![cur[c]] = "read"]
    BY <1>1
  <2>3. pc[c] = "hello"
    OBVIOUS
  <2> HIDE DEF ReceiveHello
  <2>4. \A d \in Callers : pc'[d] \in HoldsGeneration => pc[d] \in HoldsGeneration
    BY <1>1, <2>2, <2>3 DEF OwnType, HoldsGeneration
  <2>5. \A d \in Callers : pc'[d] \in HoldsLifetime => pc[d] \in HoldsLifetime
    BY <1>1, <2>2, <2>3 DEF OwnType, HoldsLifetime
  <2>6. \A g \in Gens : g > gens => listener'[g] = listener[g]
    BY <1>1, <2>1, <2>2 DEF OwnType, SharedType
  <2> QED BY <1>1, <2>1, <2>4, <2>5, <2>6 DEF Placement
<1>5. OneLiveGeneration'
  BY <1>1 DEF SharedType, OwnType, Placement, OneLiveGeneration
<1> QED BY <1>2, <1>3, <1>4, <1>5, TypeJoins DEF CoreInv

(* A failed HELLO read only chooses a result.                              *)
LEMMA HelloReadFailsKeeps ==
    ASSUME CoreInv, NEW c \in Callers, HelloReadFails(c) PROVE CoreInv'
<1> USE BoundsAssumption DEF Callers, Gens, Lives
<1>1. SharedType /\ OwnType /\ Placement /\ OneLiveGeneration
  BY TypeSplits DEF CoreInv
<1> USE DEF HelloReadFails, Goto, Return, session, legacy, queue, counters, conns, finishing,
            callers, readers
<1>2. SharedType'
  BY <1>1 DEF SharedType
<1>3. OwnType'
  <2>1. pc' \in [Callers -> CallerStates]
    BY <1>1 DEF OwnType, CallerStates
  <2>2. res' \in [Callers -> Results]
    BY <1>1, ResultTypes DEF SharedType, OwnType, Recoveries
  <2> QED BY <1>1, <2>1, <2>2 DEF OwnType
<1>4. Placement'
  BY <1>1 DEF SharedType, OwnType, Placement, HoldsGeneration, HoldsLifetime
<1>5. OneLiveGeneration'
  BY <1>1 DEF SharedType, OwnType, Placement, OneLiveGeneration
<1> QED BY <1>2, <1>3, <1>4, <1>5, TypeJoins DEF CoreInv

(* Authentication only writes, or chooses a result.                        *)
LEMMA authenticateGatewayGenerationKeeps ==
    ASSUME CoreInv, NEW c \in Callers, authenticateGatewayGeneration(c) PROVE CoreInv'
<1> USE BoundsAssumption DEF Callers, Gens, Lives
<1>1. SharedType /\ OwnType /\ Placement /\ OneLiveGeneration
  BY TypeSplits DEF CoreInv
<1> USE DEF authenticateGatewayGeneration, Goto, Return, CtxDone, session, legacy, queue, counters, conns, finishing,
            callers, readers
<1>2. SharedType'
  BY <1>1 DEF SharedType
<1>3. OwnType'
  <2>1. pc' \in [Callers -> CallerStates]
    BY <1>1, ZenonT(60) DEF OwnType, CallerStates
  <2>2. res' \in [Callers -> Results]
    BY <1>1, ResultTypes, ZenonT(60) DEF SharedType, OwnType, Recoveries
  <2>3. auth' \in [Gens -> {"none", "sent", "ready"}]
    BY <1>1 DEF SharedType, OwnType, Placement, HoldsLifetime, HoldsGeneration
  <2> QED BY <1>1, <2>1, <2>2, <2>3 DEF OwnType
<1>4. Placement'
  BY <1>1, ZenonT(60) DEF SharedType, OwnType, Placement, HoldsGeneration, HoldsLifetime
<1>5. OneLiveGeneration'
  BY <1>1 DEF SharedType, OwnType, Placement, OneLiveGeneration
<1> QED BY <1>2, <1>3, <1>4, <1>5, TypeJoins DEF CoreInv

(* The select takes the result out of the ready channel.                   *)
LEMMA WaitReadyKeeps ==
    ASSUME CoreInv, NEW c \in Callers, WaitReady(c) PROVE CoreInv'
<1> USE BoundsAssumption DEF Callers, Gens, Lives
<1>1. SharedType /\ OwnType /\ Placement /\ OneLiveGeneration
  BY TypeSplits DEF CoreInv
<1> USE DEF WaitReady, Goto, Return, CtxDone, session, legacy, queue, counters, conns, finishing,
            callers, readers
<1>2. SharedType'
  <2>1. ready' \in [Gens -> Results]
    BY <1>1, ResultTypes DEF SharedType
  <2> QED BY <1>1, <2>1 DEF SharedType
<1>3. OwnType'
  <2>1. pc' \in [Callers -> CallerStates]
    BY <1>1, ZenonT(60) DEF OwnType, CallerStates
  <2>2. res' \in [Callers -> Results]
    <3>1. cur[c] \in Gens
      BY <1>1 DEF Placement, OwnType, HoldsGeneration
    <3>2. ready[cur[c]] \in Results
      BY <1>1, <3>1 DEF SharedType
    <3> QED BY <1>1, <3>2, ResultTypes DEF OwnType
  <2> QED BY <1>1, <2>1, <2>2 DEF OwnType
<1>4. Placement'
  BY <1>1, ZenonT(60) DEF SharedType, OwnType, Placement, HoldsGeneration, HoldsLifetime
<1>5. OneLiveGeneration'
  BY <1>1 DEF SharedType, OwnType, Placement, OneLiveGeneration
<1> QED BY <1>2, <1>3, <1>4, <1>5, TypeJoins DEF CoreInv

(* Only a current generation is connected.                                 *)
LEMMA activateGatewayGenerationKeeps ==
    ASSUME CoreInv, NEW c \in Callers, activateGatewayGeneration(c) PROVE CoreInv'
<1> USE BoundsAssumption DEF Callers, Gens, Lives
<1>1. SharedType /\ OwnType /\ Placement /\ OneLiveGeneration
  BY TypeSplits DEF CoreInv
<1> USE DEF activateGatewayGeneration, Goto, Return, StillCurrent, session, legacy, queue, counters, conns, finishing,
            callers, readers
<1>2. SharedType'
  <2>1. connected' \in [Gens -> BOOLEAN]
    BY <1>1, Zenon DEF SharedType, OwnType
  <2>2. DataReady' \in BOOLEAN
    BY <1>1, Zenon DEF SharedType, OwnType
  <2>3. events' \in Seq(Events)
    <3>1. events' = events \/ events' = Append(events, <<"Connect", cur[c]>>)
      OBVIOUS
    <3>2. cur[c] \in 0 .. MaxGen /\ events \in Seq(Events)
      BY <1>1 DEF OwnType, SharedType
    <3> HIDE DEF activateGatewayGeneration
    <3>3. <<"Connect", cur[c]>> \in Events
      BY <3>2, EventTypes
    <3> QED BY <3>1, <3>2, <3>3, AppendProperties, SMTT(40)
  <2> QED BY <1>1, <2>1, <2>2, <2>3 DEF SharedType
<1>3. OwnType'
  <2>1. pc' \in [Callers -> CallerStates]
    BY <1>1, ZenonT(60) DEF OwnType, CallerStates
  <2>2. res' \in [Callers -> Results]
    BY <1>1, ResultTypes, ZenonT(60) DEF SharedType, OwnType, Recoveries
  <2> QED BY <1>1, <2>1, <2>2 DEF OwnType
<1>4. Placement'
  BY <1>1, ZenonT(60) DEF SharedType, OwnType, Placement, HoldsGeneration, HoldsLifetime
<1>5. OneLiveGeneration'
  BY <1>1, ZenonT(60) DEF SharedType, OwnType, Placement, OneLiveGeneration
<1> QED BY <1>2, <1>3, <1>4, <1>5, TypeJoins DEF CoreInv

(* An opener that drains the queue keeps the invariant.                    *)
LEMMA ActivateDrainsKeeps ==
    ASSUME CoreInv, NEW c \in Callers, ActivateDrains(c) PROVE CoreInv'
<1> USE BoundsAssumption DEF Callers, Gens, Lives
<1>1. SharedType /\ OwnType /\ Placement /\ OneLiveGeneration
  BY TypeSplits DEF CoreInv
<1> USE DEF ActivateDrains, Goto, session, legacy, queue, counters, conns, finishing,
            callers, readers
<1>2. SharedType'
  <2>1. events' \in Seq(Events) /\ dispatching' \in BOOLEAN /\ lastEvent' \in Events
    BY <1>1, DrainTypes DEF SharedType
  <2> QED BY <1>1, <2>1 DEF SharedType
<1>3. OwnType'
  <2>1. pc' \in [Callers -> CallerStates]
    BY <1>1 DEF OwnType, CallerStates
  <2> QED BY <1>1, <2>1 DEF OwnType
<1>4. Placement'
  BY <1>1, ZenonT(60) DEF SharedType, OwnType, Placement, HoldsGeneration, HoldsLifetime
<1>5. OneLiveGeneration'
  BY <1>1 DEF SharedType, OwnType, Placement, OneLiveGeneration
<1> QED BY <1>2, <1>3, <1>4, <1>5, TypeJoins DEF CoreInv

(* Stopping a lifetime keeps the types of what is shared.                  *)
LEMMA StopTypes ==
    ASSUME SharedType, NEW l \in Lives, StopLifecycle(l),
           UNCHANGED <<gatewayConnection, legacy, queue, conns, finishing>>
    PROVE  SharedType'
<1> USE BoundsAssumption DEF Gens, Lives
<1>1. \/ gatewayLifecycle' = 0 /\ cancelled' = cancelled \cup {l}
      \/ gatewayLifecycle' = gatewayLifecycle /\ cancelled' = cancelled
  BY DEF StopLifecycle
<1>2. gatewayLifecycle' \in 0 .. MaxLife /\ cancelled' \in SUBSET Lives
  <2>1. 0 \in 0 .. MaxLife
    OBVIOUS
  <2>2. gatewayLifecycle' \in 0 .. MaxLife
    BY <1>1, <2>1 DEF SharedType
  <2>3. cancelled' \in SUBSET Lives
    BY <1>1 DEF SharedType
  <2> QED BY <2>2, <2>3
<1>3. gatewayReconnectRunning' \in BOOLEAN
  BY Zenon DEF StopLifecycle, SharedType
<1> QED
  BY <1>2, <1>3 DEF SharedType, legacy, queue, conns, finishing

(* A caller that exits keeps what the invariant says of the callers.       *)
LEMMA ExitKeeps ==
    ASSUME OwnType, Placement, NEW c \in Callers, Exit(c),
           UNCHANGED <<gens, lives, auth, listener, loss, lifeOf, finish, ws, wsConn>>
    PROVE  OwnType' /\ Placement'
<1> USE BoundsAssumption DEF Exit, Return, Goto, Gens
<1>1. OwnType'
  BY ResultTypes DEF OwnType, CallerStates
<1>2. Placement'
  BY DEF OwnType, Placement, HoldsGeneration, HoldsLifetime
<1> QED BY <1>1, <1>2

(* What a caller does with a result lets its generation go.                *)
LEMMA HandleResultKeeps ==
    ASSUME CoreInv, NEW c \in Callers, HandleResult(c) PROVE CoreInv'
<1> USE BoundsAssumption DEF Callers, Gens, Lives
<1>1. SharedType /\ OwnType /\ Placement /\ OneLiveGeneration
  BY TypeSplits DEF CoreInv
<1>2. UNCHANGED <<session, legacy, queue, counters, cancelled, conns, finishing,
                  readers>>
  BY DEF HandleResult
<1>3. /\ pc[c] = "result"
      /\ \/ Exit(c)
         \/ /\ \E st \in {"defer", "stop", "backoff"} : Goto(c, st)
            /\ UNCHANGED <<life, cur, res>>
  BY DEF HandleResult, Leave
<1>4. SharedType'
  BY <1>1, <1>2 DEF SharedType, session, legacy, queue, conns, finishing
<1>5. OwnType' /\ Placement'
  <2>1. UNCHANGED <<gens, lives, auth, listener, loss, lifeOf, finish, ws, wsConn>>
    BY <1>2 DEF counters, readers, conns, finishing, legacy
  <2>2. CASE Exit(c)
    BY <1>1, <2>1, <2>2, ExitKeeps
  <2>3. CASE /\ \E st \in {"defer", "stop", "backoff"} : Goto(c, st)
             /\ UNCHANGED <<life, cur, res>>
    <3>1. PICK st \in {"defer", "stop", "backoff"} : pc' = [pc EXCEPT ![c] = st]
      BY <2>3 DEF Goto
    <3>2. OwnType'
      BY <1>1, <2>1, <2>3, <3>1 DEF OwnType, CallerStates
    <3>3. Placement'
      BY <1>1, <1>3, <2>1, <2>3, <3>1
         DEF OwnType, Placement, HoldsGeneration, HoldsLifetime
    <3> QED BY <3>2, <3>3
  <2> QED BY <1>3, <2>2, <2>3
<1>6. OneLiveGeneration'
  BY <1>1, <1>2 DEF OneLiveGeneration, session, legacy, counters, conns, finishing
<1> QED BY <1>4, <1>5, <1>6, TypeJoins DEF CoreInv

(* A back-off ends with a new attempt or gives up.                         *)
LEMMA waitGatewayContextKeeps ==
    ASSUME CoreInv, NEW c \in Callers, waitGatewayContext(c) PROVE CoreInv'
<1> USE BoundsAssumption DEF Callers, Gens, Lives
<1>1. SharedType /\ OwnType /\ Placement /\ OneLiveGeneration
  BY TypeSplits DEF CoreInv
<1> USE DEF waitGatewayContext, Goto, Leave, session, legacy, queue, counters, conns, finishing,
            callers, readers
<1>2. SharedType'
  BY <1>1 DEF SharedType
<1>3. OwnType'
  <2>1. pc' \in [Callers -> CallerStates]
    BY <1>1, SMTT(40) DEF OwnType, CallerStates
  <2> QED BY <1>1, <2>1 DEF OwnType
<1>4. Placement'
  BY <1>1, ZenonT(60) DEF SharedType, OwnType, Placement, HoldsGeneration, HoldsLifetime
<1>5. OneLiveGeneration'
  BY <1>1 DEF SharedType, OwnType, Placement, OneLiveGeneration
<1> QED BY <1>2, <1>3, <1>4, <1>5, TypeJoins DEF CoreInv

(* A caller that stops its lifetime keeps the invariant.                   *)
LEMMA stopGatewayLifecycleKeeps ==
    ASSUME CoreInv, NEW c \in Callers, stopGatewayLifecycle(c) PROVE CoreInv'
<1> USE BoundsAssumption DEF Callers, Gens, Lives
<1>1. SharedType /\ OwnType /\ Placement /\ OneLiveGeneration
  BY TypeSplits DEF CoreInv
<1>2. UNCHANGED <<gatewayConnection, legacy, queue, counters, conns, finishing,
                  readers>>
  BY DEF stopGatewayLifecycle
<1>3. /\ pc[c] = "stop" /\ StopLifecycle(life[c])
      /\ \/ Exit(c)
         \/ Goto(c, "defer") /\ UNCHANGED <<life, cur, res>>
  BY DEF stopGatewayLifecycle
<1>4. life[c] \in Lives
  BY <1>1, <1>3 DEF Placement, HoldsLifetime
<1>5. SharedType'
  BY <1>1, <1>2, <1>3, <1>4, StopTypes
<1>6. OwnType' /\ Placement'
  <2>1. UNCHANGED <<gens, lives, auth, listener, loss, lifeOf, finish, ws, wsConn>>
    BY <1>2 DEF counters, readers, conns, finishing, legacy
  <2>2. CASE Exit(c)
    BY <1>1, <2>1, <2>2, ExitKeeps
  <2>3. CASE Goto(c, "defer") /\ UNCHANGED <<life, cur, res>>
    <3>1. OwnType'
      BY <1>1, <2>1, <2>3 DEF OwnType, CallerStates, Goto
    <3>2. Placement'
      BY <1>1, <1>3, <2>1, <2>3
         DEF OwnType, Placement, HoldsGeneration, HoldsLifetime, Goto
    <3> QED BY <3>1, <3>2
  <2> QED BY <1>3, <2>2, <2>3
<1>7. OneLiveGeneration'
  BY <1>1, <1>2 DEF OneLiveGeneration, legacy, counters, conns, finishing
<1> QED BY <1>5, <1>6, <1>7, TypeJoins DEF CoreInv

(* A reconnect goroutine that ends keeps the invariant.                    *)
LEMMA EndReconnectKeeps ==
    ASSUME CoreInv, NEW c \in Callers, EndReconnect(c) PROVE CoreInv'
<1> USE BoundsAssumption DEF Callers, Gens, Lives
<1>1. SharedType /\ OwnType /\ Placement /\ OneLiveGeneration
  BY TypeSplits DEF CoreInv
<1> USE DEF EndReconnect, Goto, Return, Exit, session, legacy, queue, counters, conns, finishing,
            callers, readers
<1>2. SharedType'
  <2>1. gatewayReconnectRunning' \in BOOLEAN
    BY <1>1, Zenon DEF SharedType, OwnType
  <2> QED BY <1>1, <2>1 DEF SharedType
<1>3. OwnType'
  <2>1. pc' \in [Callers -> CallerStates]
    BY <1>1 DEF OwnType, CallerStates
  <2>2. res' \in [Callers -> Results]
    BY <1>1, ResultTypes DEF SharedType, OwnType, Recoveries
  <2>3. life' \in [Callers -> 0 .. MaxLife]
    BY <1>1 DEF SharedType, OwnType, Placement, HoldsLifetime, HoldsGeneration
  <2>4. cur' \in [Callers -> 0 .. MaxGen]
    BY <1>1 DEF SharedType, OwnType, Placement, HoldsLifetime, HoldsGeneration
  <2> QED BY <1>1, <2>1, <2>2, <2>3, <2>4 DEF OwnType
<1>4. Placement'
  BY <1>1 DEF SharedType, OwnType, Placement, HoldsGeneration, HoldsLifetime
<1>5. OneLiveGeneration'
  BY <1>1 DEF SharedType, OwnType, Placement, OneLiveGeneration
<1> QED BY <1>2, <1>3, <1>4, <1>5, TypeJoins DEF CoreInv

(* Close takes hold of the current generation, which was begun.            *)
LEMMA closeGatewayKeeps ==
    ASSUME CoreInv, NEW u \in Users, closeGateway(u) PROVE CoreInv'
<1> USE BoundsAssumption DEF Callers, Gens, Lives
<1>1. SharedType /\ OwnType /\ Placement /\ OneLiveGeneration
  BY TypeSplits DEF CoreInv
<1>2. UNCHANGED <<gatewayConnection, legacy, queue, counters, conns, finishing, res,
                  readers>>
  BY DEF closeGateway
<1>3. /\ pc[u] = "idle"
      /\ life' = [life EXCEPT ![u] = gatewayLifecycle]
      /\ cur' = [cur EXCEPT ![u] = gatewayConnection]
      /\ pc' = [pc EXCEPT ![u] = IF gatewayConnection # 0 THEN "closing" ELSE "compat"]
  BY DEF closeGateway, Goto
<1>4. SharedType'
  <2>1. CASE gatewayLifecycle # 0
    <3>1. gatewayLifecycle \in Lives /\ StopLifecycle(gatewayLifecycle)
      BY <1>1, <2>1 DEF closeGateway, SharedType
    <3> QED BY <1>1, <1>2, <3>1, StopTypes
  <2>2. CASE gatewayLifecycle = 0
    <3>1. UNCHANGED <<gatewayLifecycle, gatewayReconnectRunning, cancelled>>
      BY <2>2 DEF closeGateway
    <3> QED BY <1>1, <1>2, <3>1 DEF SharedType, legacy, queue, conns, finishing
  <2> QED BY <2>1, <2>2
<1>5. OwnType'
  BY <1>1, <1>2, <1>3 DEF OwnType, SharedType, CallerStates, counters, readers
<1>6. Placement'
  <2>1. gatewayConnection # 0 => gatewayConnection \in 1 .. gens
    <3>1. gatewayConnection # 0 => gatewayConnection \in Gens
      BY <1>1 DEF SharedType
    <3> QED BY <1>1, <3>1 DEF OneLiveGeneration, OwnType
  <2>2. \A c \in Callers : pc'[c] \in HoldsGeneration => cur'[c] \in 1 .. gens
    BY <1>1, <1>3, <2>1 DEF OwnType, Placement, HoldsGeneration
  <2>3. \A c \in Callers : pc'[c] \in HoldsLifetime => life'[c] \in Lives
    BY <1>1, <1>3 DEF OwnType, Placement, HoldsLifetime
  <2> QED BY <1>1, <1>2, <2>2, <2>3
          DEF Placement, counters, readers, conns, finishing, legacy
<1>7. OneLiveGeneration'
  BY <1>1, <1>2 DEF OneLiveGeneration, legacy, counters, conns, finishing
<1> QED BY <1>4, <1>5, <1>6, <1>7, TypeJoins DEF CoreInv

(* The compatibility path closes at most the current websocket.            *)
LEMMA CloseLegacyKeeps ==
    ASSUME CoreInv, NEW u \in Users, CloseLegacy(u) PROVE CoreInv'
<1> USE BoundsAssumption DEF Callers, Gens, Lives
<1>1. SharedType /\ OwnType /\ Placement /\ OneLiveGeneration
  BY TypeSplits DEF CoreInv
<1> USE DEF CloseLegacy, Goto, LegacyChannel, session, legacy, queue, counters, conns, finishing,
            callers, readers
<1>2. SharedType'
  <2>1. wsConn' \in 0 .. MaxGen
    BY <1>1 DEF SharedType, OwnType, Placement, HoldsLifetime, HoldsGeneration
  <2>2. DataReady' \in BOOLEAN
    BY <1>1, Zenon DEF SharedType, OwnType
  <2>3. ws' \in [Gens -> {"none", "open", "closed"}]
    BY <1>1 DEF SharedType, OwnType, Placement, HoldsLifetime, HoldsGeneration
  <2>4. stopClosed' \in SUBSET Gens
    BY <1>1 DEF SharedType, OwnType, Placement, HoldsLifetime, HoldsGeneration
  <2>5. events' \in Seq(Events)
    <3>1. events' = events \/ events' = Append(events, <<"Disconnect", wsConn>>)
      OBVIOUS
    <3>2. wsConn \in 0 .. MaxGen /\ events \in Seq(Events)
      BY <1>1 DEF SharedType
    <3> HIDE DEF CloseLegacy
    <3>3. <<"Disconnect", wsConn>> \in Events
      BY <3>2, EventTypes
    <3> QED BY <3>1, <3>2, <3>3, AppendProperties, SMTT(40)
  <2> QED BY <1>1, <2>1, <2>2, <2>3, <2>4, <2>5 DEF SharedType
<1>3. OwnType'
  <2>1. pc' \in [Callers -> CallerStates]
    BY <1>1, ZenonT(60) DEF OwnType, CallerStates
  <2> QED BY <1>1, <2>1 DEF OwnType
<1>4. Placement'
  <2>1. /\ cur' = cur /\ life' = life /\ lifeOf' = lifeOf /\ gens' = gens
        /\ finish' = finish /\ listener' = listener /\ wsConn' = 0
        /\ ws' = [g \in Gens |-> IF g = wsConn THEN "closed" ELSE ws[g]]
        /\ \E st \in {"closeDrain", "closed"} : pc' = [pc EXCEPT ![u] = st]
    BY <1>1
  <2> HIDE DEF CloseLegacy
  <2>2. \A c \in Callers : pc'[c] \in HoldsGeneration => cur'[c] \in 1 .. gens
    BY <1>1, <2>1 DEF OwnType, Placement, HoldsGeneration
  <2>3. \A c \in Callers : pc'[c] \in HoldsLifetime => life'[c] \in Lives
    BY <1>1, <2>1 DEF OwnType, Placement, HoldsLifetime
  <2>4. wsConn # 0 => wsConn <= gens
    <3>1. wsConn # 0 => wsConn \in Gens /\ wsConn = gatewayConnection
      BY <1>1 DEF SharedType, OneLiveGeneration
    <3> QED BY <1>1, <3>1 DEF OneLiveGeneration, OwnType
  <2>5. \A g \in Gens : g > gens => ws'[g] = "none"
    BY <1>1, <2>1, <2>4 DEF Placement, SharedType, OwnType
  <2> QED BY <1>1, <2>1, <2>2, <2>3, <2>5 DEF Placement
<1>5. OneLiveGeneration'
  BY <1>1 DEF SharedType, OwnType, Placement, OneLiveGeneration
<1> QED BY <1>2, <1>3, <1>4, <1>5, TypeJoins DEF CoreInv

(* A Close that drains the queue keeps the invariant.                      *)
LEMMA CloseDrainsKeeps ==
    ASSUME CoreInv, NEW u \in Users, CloseDrains(u) PROVE CoreInv'
<1> USE BoundsAssumption DEF Callers, Gens, Lives
<1>1. SharedType /\ OwnType /\ Placement /\ OneLiveGeneration
  BY TypeSplits DEF CoreInv
<1> USE DEF CloseDrains, Goto, session, legacy, queue, counters, conns, finishing,
            callers, readers
<1>2. SharedType'
  <2>1. events' \in Seq(Events) /\ dispatching' \in BOOLEAN /\ lastEvent' \in Events
    BY <1>1, DrainTypes DEF SharedType
  <2> QED BY <1>1, <2>1 DEF SharedType
<1>3. OwnType'
  <2>1. pc' \in [Callers -> CallerStates]
    BY <1>1, ZenonT(60) DEF OwnType, CallerStates
  <2> QED BY <1>1, <2>1 DEF OwnType
<1>4. Placement'
  <2>1. /\ UNCHANGED <<cur, life, lifeOf, gens, finish, listener, wsConn, ws>>
        /\ pc' = pc \/ \E st \in {"closeHandling", "closed"} : pc' = [pc EXCEPT ![u] = st]
    BY <1>1
  <2> HIDE DEF CloseDrains
  <2> QED BY <1>1, <2>1 DEF OwnType, Placement, HoldsGeneration, HoldsLifetime
<1>5. OneLiveGeneration'
  BY <1>1 DEF SharedType, OwnType, Placement, OneLiveGeneration
<1> QED BY <1>2, <1>3, <1>4, <1>5, TypeJoins DEF CoreInv

(* A Close that returns lets its generation go.                            *)
LEMMA CloseWithCodeKeeps ==
    ASSUME CoreInv, NEW u \in Users, CloseWithCode(u) PROVE CoreInv'
<1> USE BoundsAssumption DEF Callers, Gens, Lives
<1>1. SharedType /\ OwnType /\ Placement /\ OneLiveGeneration
  BY TypeSplits DEF CoreInv
<1> USE DEF CloseWithCode, Goto, Return, Exit, session, legacy, queue, counters, conns, finishing,
            callers, readers
<1>2. SharedType'
  BY <1>1 DEF SharedType
<1>3. OwnType'
  <2>1. pc' \in [Callers -> CallerStates]
    BY <1>1 DEF OwnType, CallerStates
  <2>2. res' \in [Callers -> Results]
    BY <1>1, ResultTypes DEF SharedType, OwnType, Recoveries
  <2>3. life' \in [Callers -> 0 .. MaxLife]
    BY <1>1 DEF SharedType, OwnType, Placement, HoldsLifetime, HoldsGeneration
  <2>4. cur' \in [Callers -> 0 .. MaxGen]
    BY <1>1 DEF SharedType, OwnType, Placement, HoldsLifetime, HoldsGeneration
  <2> QED BY <1>1, <2>1, <2>2, <2>3, <2>4 DEF OwnType
<1>4. Placement'
  BY <1>1 DEF SharedType, OwnType, Placement, HoldsGeneration, HoldsLifetime
<1>5. OneLiveGeneration'
  BY <1>1 DEF SharedType, OwnType, Placement, OneLiveGeneration
<1> QED BY <1>2, <1>3, <1>4, <1>5, TypeJoins DEF CoreInv

(* A cancelled context changes no generation.                              *)
LEMMA CancelContextKeeps ==
    ASSUME CoreInv, NEW l \in Lives, CancelContext(l) PROVE CoreInv'
<1> USE BoundsAssumption DEF Callers, Gens, Lives
<1>1. SharedType /\ OwnType /\ Placement /\ OneLiveGeneration
  BY TypeSplits DEF CoreInv
<1> USE DEF CancelContext, session, legacy, queue, counters, conns, finishing,
            callers, readers
<1>2. SharedType'
  <2>1. cancelled' \in SUBSET Lives
    BY <1>1 DEF SharedType, OwnType, Placement, HoldsLifetime
  <2> QED BY <1>1, <2>1 DEF SharedType
<1>3. OwnType'
  BY <1>1 DEF OwnType
<1>4. Placement'
  BY <1>1 DEF SharedType, OwnType, Placement, HoldsGeneration, HoldsLifetime
<1>5. OneLiveGeneration'
  BY <1>1 DEF SharedType, OwnType, Placement, OneLiveGeneration
<1> QED BY <1>2, <1>3, <1>4, <1>5, TypeJoins DEF CoreInv

(* READY or RESUMED only advances the listener.                            *)
LEMMA ReadReadyKeeps ==
    ASSUME CoreInv, NEW g \in Gens, ReadReady(g) PROVE CoreInv'
<1> USE BoundsAssumption DEF Callers, Gens, Lives
<1>1. SharedType /\ OwnType /\ Placement /\ OneLiveGeneration
  BY TypeSplits DEF CoreInv
<1> USE DEF ReadReady, Listening, session, legacy, queue, counters, conns, finishing,
            callers, readers
<1>2. SharedType'
  BY <1>1 DEF SharedType
<1>3. OwnType'
  <2>1. listener' \in [Gens -> ListenerStates]
    BY <1>1 DEF OwnType, ListenerStates
  <2>2. auth' \in [Gens -> {"none", "sent", "ready"}]
    BY <1>1 DEF SharedType, OwnType, Placement, HoldsLifetime, HoldsGeneration
  <2> QED BY <1>1, <2>1, <2>2 DEF OwnType
<1>4. Placement'
  BY <1>1 DEF SharedType, OwnType, Placement, HoldsGeneration, HoldsLifetime
<1>5. OneLiveGeneration'
  BY <1>1 DEF SharedType, OwnType, Placement, OneLiveGeneration
<1> QED BY <1>2, <1>3, <1>4, <1>5, TypeJoins DEF CoreInv

(* A loss only advances the listener.                                      *)
LEMMA ReadLossKeeps ==
    ASSUME CoreInv, NEW g \in Gens, ReadLoss(g) PROVE CoreInv'
<1> USE BoundsAssumption DEF Callers, Gens, Lives
<1>1. SharedType /\ OwnType /\ Placement /\ OneLiveGeneration
  BY TypeSplits DEF CoreInv
<1> USE DEF ReadLoss, Listening, Losing, session, legacy, queue, counters, conns, finishing,
            callers, readers
<1>2. SharedType'
  BY <1>1 DEF SharedType
<1>3. OwnType'
  <2>1. listener' \in [Gens -> ListenerStates]
    BY <1>1 DEF OwnType, ListenerStates
  <2>2. loss' \in [Gens -> Recoveries]
    BY <1>1 DEF OwnType, Recoveries
  <2> QED BY <1>1, <2>1, <2>2 DEF OwnType
<1>4. Placement'
  BY <1>1 DEF SharedType, OwnType, Placement, HoldsGeneration, HoldsLifetime
<1>5. OneLiveGeneration'
  BY <1>1 DEF SharedType, OwnType, Placement, OneLiveGeneration
<1> QED BY <1>2, <1>3, <1>4, <1>5, TypeJoins DEF CoreInv

(* A read from a closed websocket only advances the listener.              *)
LEMMA ReadClosedKeeps ==
    ASSUME CoreInv, NEW g \in Gens, ReadClosed(g) PROVE CoreInv'
<1> USE BoundsAssumption DEF Callers, Gens, Lives
<1>1. SharedType /\ OwnType /\ Placement /\ OneLiveGeneration
  BY TypeSplits DEF CoreInv
<1> USE DEF ReadClosed, Listening, Losing, session, legacy, queue, counters, conns, finishing,
            callers, readers
<1>2. SharedType'
  BY <1>1 DEF SharedType
<1>3. OwnType'
  <2>1. listener' \in [Gens -> ListenerStates]
    BY <1>1 DEF OwnType, ListenerStates
  <2>2. loss' \in [Gens -> Recoveries]
    BY <1>1 DEF OwnType, Recoveries
  <2> QED BY <1>1, <2>1, <2>2 DEF OwnType
<1>4. Placement'
  BY <1>1 DEF SharedType, OwnType, Placement, HoldsGeneration, HoldsLifetime
<1>5. OneLiveGeneration'
  BY <1>1 DEF SharedType, OwnType, Placement, OneLiveGeneration
<1> QED BY <1>2, <1>3, <1>4, <1>5, TypeJoins DEF CoreInv

(* The listener puts a success into the ready channel.                     *)
LEMMA PublishReadyKeeps ==
    ASSUME CoreInv, NEW g \in Gens, PublishReady(g) PROVE CoreInv'
<1> USE BoundsAssumption DEF Callers, Gens, Lives
<1>1. SharedType /\ OwnType /\ Placement /\ OneLiveGeneration
  BY TypeSplits DEF CoreInv
<1> USE DEF PublishReady, Listening, session, legacy, queue, counters, conns, finishing,
            callers, readers
<1>2. SharedType'
  <2>1. ready' \in [Gens -> Results]
    BY <1>1, ResultTypes DEF SharedType
  <2> QED BY <1>1, <2>1 DEF SharedType
<1>3. OwnType'
  <2>1. listener' \in [Gens -> ListenerStates]
    BY <1>1 DEF OwnType, ListenerStates
  <2> QED BY <1>1, <2>1 DEF OwnType
<1>4. Placement'
  BY <1>1 DEF SharedType, OwnType, Placement, HoldsGeneration, HoldsLifetime
<1>5. OneLiveGeneration'
  BY <1>1 DEF SharedType, OwnType, Placement, OneLiveGeneration
<1> QED BY <1>2, <1>3, <1>4, <1>5, TypeJoins DEF CoreInv

(* A finish closes the channels and websocket of its generation.           *)
LEMMA FinishClosesKeeps ==
    ASSUME CoreInv, NEW g \in Gens, FinishCloses(g) PROVE CoreInv'
<1> USE BoundsAssumption DEF Callers, Gens, Lives
<1>1. SharedType /\ OwnType /\ Placement /\ OneLiveGeneration
  BY TypeSplits DEF CoreInv
<1> USE DEF FinishCloses, Advance, session, legacy, queue, counters, conns, finishing,
            callers, readers
<1>2. SharedType'
  <2>1. finish' \in [Gens -> Phases]
    BY <1>1 DEF SharedType, Phases
  <2>2. ws' \in [Gens -> {"none", "open", "closed"}]
    BY <1>1 DEF SharedType, OwnType, Placement, HoldsLifetime, HoldsGeneration
  <2>3. ctxDone' \in SUBSET Gens /\ stopClosed' \in SUBSET Gens
    BY <1>1 DEF SharedType, OwnType, Placement, HoldsLifetime, HoldsGeneration
  <2> QED BY <1>1, <2>1, <2>2, <2>3 DEF SharedType
<1>3. OwnType'
  BY <1>1 DEF OwnType
<1>4. Placement'
  BY <1>1 DEF SharedType, OwnType, Placement, HoldsGeneration, HoldsLifetime
<1>5. OneLiveGeneration'
  BY <1>1 DEF SharedType, OwnType, Placement, OneLiveGeneration
<1> QED BY <1>2, <1>3, <1>4, <1>5, TypeJoins DEF CoreInv

(* A finish that drains the queue keeps the invariant.                     *)
LEMMA FinishDrainsKeeps ==
    ASSUME CoreInv, NEW g \in Gens, FinishDrains(g) PROVE CoreInv'
<1> USE BoundsAssumption DEF Callers, Gens, Lives
<1>1. SharedType /\ OwnType /\ Placement /\ OneLiveGeneration
  BY TypeSplits DEF CoreInv
<1> USE DEF FinishDrains, Advance, AfterDrain, session, legacy, queue, counters, conns, finishing,
            callers, readers
<1>2. SharedType'
  <2>1. events' \in Seq(Events) /\ dispatching' \in BOOLEAN /\ lastEvent' \in Events
    BY <1>1, DrainTypes DEF SharedType
  <2>2. finish' \in [Gens -> Phases]
    BY <1>1 DEF SharedType, Phases
  <2> QED BY <1>1, <2>1, <2>2 DEF SharedType
<1>3. OwnType'
  BY <1>1 DEF OwnType
<1>4. Placement'
  BY <1>1 DEF SharedType, OwnType, Placement, HoldsGeneration, HoldsLifetime
<1>5. OneLiveGeneration'
  BY <1>1 DEF SharedType, OwnType, Placement, OneLiveGeneration
<1> QED BY <1>2, <1>3, <1>4, <1>5, TypeJoins DEF CoreInv

(* A finish starts a reconnect goroutine for its lifetime, or stops it.    *)
LEMMA startGatewayReconnectKeeps ==
    ASSUME CoreInv, NEW g \in Gens, startGatewayReconnect(g) PROVE CoreInv'
<1> USE BoundsAssumption DEF Callers, Gens, Lives
<1>1. SharedType /\ OwnType /\ Placement /\ OneLiveGeneration
  BY TypeSplits DEF CoreInv
<1>2. UNCHANGED <<gatewayConnection, legacy, queue, counters, conns, recovery,
                  willReconnect, readers>>
  BY DEF startGatewayReconnect
<1>3. finish[g] = "reconnect" /\ finish' = [finish EXCEPT ![g] = "done"]
  BY DEF startGatewayReconnect, Advance
<1>4. g <= gens /\ lifeOf[g] \in Lives /\ lifeOf[g] # 0
  BY <1>1, <1>3 DEF Placement, OwnType
<1>5. \/ StopLifecycle(lifeOf[g]) /\ UNCHANGED callers
      \/ StartReconnect(g)
      \/ /\ UNCHANGED <<gatewayLifecycle, gatewayReconnectRunning, cancelled>>
         /\ UNCHANGED callers
  BY DEF startGatewayReconnect, SkipReconnect
<1>6. finish' \in [Gens -> Phases]
  BY <1>1, <1>3 DEF SharedType, Phases
<1>7. /\ gatewayLifecycle' \in 0 .. MaxLife
      /\ cancelled' \in SUBSET Lives
  <2>1. CASE StopLifecycle(lifeOf[g])
    <3>1. gatewayLifecycle' \in 0 .. MaxLife
      BY <1>1, <2>1 DEF StopLifecycle, SharedType
    <3>2. cancelled' \in SUBSET Lives
      BY <1>1, <1>4, <2>1 DEF StopLifecycle, SharedType
    <3> QED BY <3>1, <3>2
  <2>2. CASE UNCHANGED <<gatewayLifecycle, cancelled>>
    BY <1>1, <2>2 DEF SharedType
  <2> QED BY <1>5, <2>1, <2>2 DEF StartReconnect
<1>8. gatewayReconnectRunning' \in BOOLEAN
  BY <1>1, <1>5, Zenon DEF StopLifecycle, StartReconnect, SharedType
<1>9. SharedType'
  BY <1>1, <1>2, <1>6, <1>7, <1>8 DEF SharedType, legacy, queue, conns
<1>10. OwnType' /\ Placement'
  <2>1. UNCHANGED <<gens, lives, auth, listener, loss, lifeOf, ws, wsConn>>
    BY <1>2 DEF counters, readers, conns, legacy
  <2>2. \A h \in Gens : h > gens => finish'[h] = "idle"
    BY <1>1, <1>3, <1>4 DEF Placement, SharedType, OwnType
  <2>3. CASE UNCHANGED callers
    BY <1>1, <2>1, <2>2, <2>3 DEF OwnType, Placement, callers
  <2>4. CASE StartReconnect(g)
    <3>1. Failure(recovery[g], TRUE) \in Results
      BY <1>1, ResultTypes DEF SharedType
    <3>2. /\ pc' = [pc EXCEPT ![g] = "backoff"] /\ cur' = cur
          /\ res' = [res EXCEPT ![g] = Failure(recovery[g], TRUE)]
          /\ life' = [life EXCEPT ![g] = lifeOf[g]]
      BY <2>4 DEF StartReconnect, Return, Goto
    <3>3. OwnType'
      <4>1. /\ pc' \in [Callers -> CallerStates]
            /\ res' \in [Callers -> Results]
            /\ cur' \in [Callers -> 0 .. MaxGen]
        BY <1>1, <3>1, <3>2 DEF OwnType, CallerStates
      <4>2. life' \in [Callers -> 0 .. MaxLife]
        BY <1>1, <1>4, <3>2 DEF OwnType
      <4> QED BY <1>1, <2>1, <4>1, <4>2 DEF OwnType
    <3>4. Placement'
      BY <1>1, <1>4, <2>1, <2>2, <3>2
         DEF OwnType, Placement, HoldsGeneration, HoldsLifetime
    <3> QED BY <3>3, <3>4
  <2> QED BY <1>5, <2>3, <2>4
<1>11. OneLiveGeneration'
  BY <1>1, <1>2, <1>3, <1>4
     DEF OneLiveGeneration, SharedType, legacy, counters, conns
<1> QED BY <1>9, <1>10, <1>11, TypeJoins DEF CoreInv

-----------------------------------------------------------------------------
(* The actions that may run the critical section of a finish. What is left *)
(* to show of each is what it does to the goroutine that runs it.          *)
LEMMA FinishOrNotKeeps ==
    ASSUME CoreInv, NEW g \in Gens, g <= gens, NEW r \in Results,
           \/ FinishCritical(g, r)
           \/ UNCHANGED <<session, legacy, queue, cancelled, conns, finishing>>,
           UNCHANGED counters
    PROVE  /\ SharedType' /\ OneLiveGeneration'
           /\ wsConn' # 0 => ws'[wsConn'] # "none"
           /\ \A h \in Gens : h > gens => finish'[h] = "idle"
           /\ lifeOf' = lifeOf /\ ws' = ws
<1>1. SharedType /\ OneLiveGeneration /\ Placement
  BY TypeSplits DEF CoreInv
<1>2. CASE FinishCritical(g, r)
  BY <1>2, FinishCriticalKeeps
<1>3. CASE UNCHANGED <<session, legacy, queue, cancelled, conns, finishing>>
  <2>1. SharedType'
    BY <1>1, <1>3 DEF SharedType, session, legacy, queue, conns, finishing
  <2>2. OneLiveGeneration'
    BY <1>1, <1>3
       DEF OneLiveGeneration, session, legacy, conns, finishing, counters
  <2> QED
    BY <1>1, <1>3, <2>1, <2>2 DEF Placement, legacy, conns, finishing
<1> QED BY <1>2, <1>3

(* A caller whose state moves on without taking hold of anything new.      *)
LEMMA CallerMoves ==
    ASSUME CoreInv, NEW c \in Callers, NEW st \in CallerStates,
           st \in HoldsGeneration => pc[c] \in HoldsGeneration,
           st \in HoldsLifetime => pc[c] \in HoldsLifetime,
           pc' = [pc EXCEPT ![c] = st],
           UNCHANGED <<life, cur, res, counters, readers>>
    PROVE  /\ OwnType'
           /\ \A d \in Callers : pc'[d] \in HoldsGeneration => cur'[d] \in 1 .. gens'
           /\ \A d \in Callers : pc'[d] \in HoldsLifetime => life'[d] \in Lives
<1>1. OwnType /\ Placement
  BY TypeSplits DEF CoreInv
<1> USE DEF counters, readers
<1>2. OwnType'
  BY <1>1 DEF OwnType
<1>3. \A d \in Callers : pc'[d] \in HoldsGeneration => cur'[d] \in 1 .. gens'
  BY <1>1 DEF OwnType, Placement
<1>4. \A d \in Callers : pc'[d] \in HoldsLifetime => life'[d] \in Lives
  BY <1>1 DEF OwnType, Placement
<1> QED BY <1>2, <1>3, <1>4

(* Close finishes the generation it found, or waits for its end.           *)
LEMMA CloseFinishesKeeps ==
    ASSUME CoreInv, NEW u \in Users, CloseFinishes(u) PROVE CoreInv'
<1>1. OwnType /\ Placement
  BY TypeSplits DEF CoreInv
<1>2. u \in Callers /\ pc[u] = "closing" /\ pc \in [Callers -> CallerStates]
  BY <1>1 DEF CloseFinishes, Callers, OwnType
<1>3. cur[u] \in Gens /\ cur[u] <= gens
  BY <1>1, <1>2 DEF Placement, HoldsGeneration, OwnType, Gens
<1>4. /\ \/ FinishCritical(cur[u], Canceled)
         \/ UNCHANGED <<session, legacy, queue, cancelled, conns, finishing>>
      /\ \E st \in {"closing", "closed"} : pc' = [pc EXCEPT ![u] = st]
      /\ UNCHANGED <<life, cur, res, counters, readers>>
  BY <1>2 DEF CloseFinishes, Goto
<1>5. /\ SharedType' /\ OneLiveGeneration'
      /\ wsConn' # 0 => ws'[wsConn'] # "none"
      /\ \A h \in Gens : h > gens => finish'[h] = "idle"
      /\ lifeOf' = lifeOf /\ ws' = ws
  BY <1>3, <1>4, ResultTypes, FinishOrNotKeeps
<1>6. /\ OwnType'
      /\ \A d \in Callers : pc'[d] \in HoldsGeneration => cur'[d] \in 1 .. gens'
      /\ \A d \in Callers : pc'[d] \in HoldsLifetime => life'[d] \in Lives
  BY <1>2, <1>4, CallerMoves DEF HoldsGeneration, HoldsLifetime, CallerStates
<1>7. Placement'
  BY <1>1, <1>4, <1>5, <1>6 DEF Placement, counters, readers
<1> QED BY <1>5, <1>6, <1>7, TypeJoins DEF CoreInv

(* A failing attempt finishes its generation, or waits for its end.        *)
LEMMA FinishAttemptKeeps ==
    ASSUME CoreInv, NEW c \in Callers, FinishAttempt(c) PROVE CoreInv'
<1>1. OwnType /\ Placement
  BY TypeSplits DEF CoreInv
<1>2. pc[c] = "finish" /\ pc \in [Callers -> CallerStates]
  BY <1>1 DEF FinishAttempt, OwnType
<1>3. cur[c] \in Gens /\ cur[c] <= gens /\ res[c] \in Results
  BY <1>1, <1>2 DEF Placement, HoldsGeneration, OwnType, Gens
<1>4. /\ \/ FinishCritical(cur[c], res[c])
         \/ UNCHANGED <<session, legacy, queue, cancelled, conns, finishing>>
      /\ \E st \in {"finish", "result"} : pc' = [pc EXCEPT ![c] = st]
      /\ UNCHANGED <<life, cur, res, counters, readers>>
  BY <1>2 DEF FinishAttempt, Goto
<1>5. /\ SharedType' /\ OneLiveGeneration'
      /\ wsConn' # 0 => ws'[wsConn'] # "none"
      /\ \A h \in Gens : h > gens => finish'[h] = "idle"
      /\ lifeOf' = lifeOf /\ ws' = ws
  BY <1>3, <1>4, FinishOrNotKeeps
<1>6. /\ OwnType'
      /\ \A d \in Callers : pc'[d] \in HoldsGeneration => cur'[d] \in 1 .. gens'
      /\ \A d \in Callers : pc'[d] \in HoldsLifetime => life'[d] \in Lives
  BY <1>2, <1>4, CallerMoves DEF HoldsGeneration, HoldsLifetime, CallerStates
<1>7. Placement'
  BY <1>1, <1>4, <1>5, <1>6 DEF Placement, counters, readers
<1> QED BY <1>5, <1>6, <1>7, TypeJoins DEF CoreInv

(* Abort runs before the websocket is attached, so nothing refers to the    *)
(* generation it gives up.                                                 *)
LEMMA abortGatewayGenerationKeeps ==
    ASSUME IInv, NEW c \in Callers, abortGatewayGeneration(c) PROVE CoreInv'
<1> DEFINE g == cur[c]
<1>1. CoreInv /\ SharedType /\ OwnType /\ Placement /\ OneLiveGeneration
  BY TypeSplits DEF IInv, CoreInv
<1>2. pc[c] = "abort" /\ pc \in [Callers -> CallerStates]
  BY <1>1 DEF abortGatewayGeneration, OwnType
<1>3. g \in Gens /\ g <= gens
  BY <1>1, <1>2 DEF Placement, HoldsGeneration, OwnType, Gens
<1>4. ws[g] = "none" /\ ~connected[g] /\ wsConn # g
  <2>1. ws[g] = "none" /\ ~connected[g]
    BY <1>2, <1>3 DEF IInv, Attachment, BeforeAttach
  <2>2. g # 0
    BY <1>3 DEF Gens
  <2> QED BY <1>1, <2>1, <2>2 DEF Placement
<1>5. /\ \/ AbortCritical(g)
         \/ UNCHANGED <<session, legacy, queue, cancelled, conns, finishing>>
      /\ pc' = [pc EXCEPT ![c] = "result"]
      /\ UNCHANGED <<life, cur, res, counters, readers>>
  BY <1>2 DEF abortGatewayGeneration, Goto
<1> HIDE DEF g
<1>6. /\ OwnType'
      /\ \A d \in Callers : pc'[d] \in HoldsGeneration => cur'[d] \in 1 .. gens'
      /\ \A d \in Callers : pc'[d] \in HoldsLifetime => life'[d] \in Lives
  BY <1>1, <1>2, <1>5, CallerMoves DEF HoldsGeneration, HoldsLifetime, CallerStates
<1>7. CASE AbortCritical(g)
  <2>1. finish[g] = "idle" /\ gatewayConnection = g
    BY <1>1, <1>3, <1>7 DEF AbortCritical, OneLiveGeneration
  <2>2. /\ gatewayConnection' = 0
        /\ gatewayLifecycle' = 0 \/ gatewayLifecycle' = gatewayLifecycle
        /\ ctxDone' = ctxDone \cup {g} /\ stopClosed' = stopClosed \cup {g}
        /\ finish' = [finish EXCEPT ![g] = "done"]
        /\ UNCHANGED <<legacy, queue, cancelled, lifeOf, ws, connected, ready,
                       recovery, willReconnect>>
    BY <1>7, <2>1 DEF AbortCritical, Released
  <2>3. gatewayReconnectRunning' \in BOOLEAN
    BY <1>7, Zenon DEF AbortCritical
  <2>4. SharedType'
    <3>1. gatewayLifecycle' \in 0 .. MaxLife /\ gatewayConnection' \in 0 .. MaxGen
      BY <1>1, <2>2, BoundsAssumption DEF SharedType
    <3>2. finish' \in [Gens -> Phases]
      BY <1>1, <2>2 DEF SharedType, Phases
    <3>3. ctxDone' \in SUBSET Gens /\ stopClosed' \in SUBSET Gens
      BY <1>1, <1>3, <2>2 DEF SharedType
    <3> QED BY <1>1, <2>2, <2>3, <3>1, <3>2, <3>3 DEF SharedType, legacy, queue
  <2>5. OneLiveGeneration'
    <3>1. wsConn = 0
      BY <1>1, <1>4, <2>1 DEF OneLiveGeneration
    <3>2. \A h \in Gens : h # g => ~(h <= gens /\ finish[h] = "idle")
      BY <1>1, <2>1 DEF OneLiveGeneration
    <3>3. \A h \in Gens : ~connected[h]
      BY <1>1, <1>4, <2>1 DEF OneLiveGeneration
    <3>4. gens' = gens /\ wsConn' = wsConn /\ connected' = connected
      BY <1>5, <2>2 DEF counters, legacy
    <3>5. \A h \in Gens : h # 0 /\ ~(h <= gens /\ finish'[h] = "idle")
      BY <1>1, <2>2, <3>2 DEF SharedType, Gens
    <3> QED BY <2>2, <3>1, <3>3, <3>4, <3>5 DEF OneLiveGeneration
  <2>6. Placement'
    <3>1. \A h \in Gens : h > gens => finish'[h] = "idle"
      BY <1>1, <1>3, <2>2 DEF Placement, SharedType, OwnType, Gens
    <3> QED BY <1>1, <1>5, <1>6, <2>2, <3>1
            DEF Placement, counters, readers, legacy
  <2> QED BY <1>6, <2>4, <2>5, <2>6, TypeJoins DEF CoreInv
<1>8. CASE UNCHANGED <<session, legacy, queue, cancelled, conns, finishing>>
  <2>1. SharedType'
    BY <1>1, <1>8 DEF SharedType, session, legacy, queue, conns, finishing
  <2>2. OneLiveGeneration'
    BY <1>1, <1>5, <1>8
       DEF OneLiveGeneration, session, legacy, conns, finishing, counters
  <2>3. Placement'
    BY <1>1, <1>5, <1>6, <1>8
       DEF Placement, legacy, conns, finishing, counters, readers
  <2> QED BY <1>6, <2>1, <2>2, <2>3, TypeJoins DEF CoreInv
<1> QED BY <1>5, <1>7, <1>8

(* The listener, the heartbeat and the watcher finish a generation that was*)
(* begun: it has a listener or a websocket.                                *)
LEMMA ReadersKeep ==
    ASSUME CoreInv, NEW g \in Gens,
           ListenerFinishes(g) \/ HeartbeatFails(g) \/ Watch(g)
    PROVE  CoreInv'
<1>1. OwnType /\ Placement /\ SharedType
  BY TypeSplits DEF CoreInv
<1>2. g <= gens
  <2>1. listener[g] # "none" \/ ws[g] # "none"
    BY DEF ListenerFinishes, HeartbeatFails, Watch
  <2>2. ~(g > gens)
    BY <1>1, <2>1 DEF Placement
  <2> QED BY <1>1, <2>2, BoundsAssumption DEF OwnType, Gens
<1>3. UNCHANGED counters /\ UNCHANGED callers
  BY DEF ListenerFinishes, HeartbeatFails, Watch
<1>4. /\ SharedType' /\ OneLiveGeneration'
      /\ wsConn' # 0 => ws'[wsConn'] # "none"
      /\ \A h \in Gens : h > gens => finish'[h] = "idle"
      /\ lifeOf' = lifeOf /\ ws' = ws
  <2>1. CASE ListenerFinishes(g)
    <3>1. Failure(loss[g], loss[g] # "Stop") \in Results
      BY <1>1, ResultTypes DEF OwnType
    <3> QED BY <1>2, <1>3, <2>1, <3>1, FinishOrNotKeeps DEF ListenerFinishes
  <2>2. CASE HeartbeatFails(g)
    <3>1. Failure("Resume", TRUE) \in Results
      BY ResultTypes DEF Recoveries
    <3> QED BY <1>2, <1>3, <2>2, <3>1, FinishOrNotKeeps DEF HeartbeatFails
  <2>3. CASE Watch(g)
    BY <1>2, <1>3, <2>3, ResultTypes, FinishOrNotKeeps DEF Watch
  <2> QED BY <2>1, <2>2, <2>3
<1>5. /\ auth' = auth
      /\ loss' = loss \/ loss' = [loss EXCEPT ![g] = "Stop"]
      /\ listener' = listener \/ listener' = [listener EXCEPT ![g] = "done"]
  BY DEF ListenerFinishes, HeartbeatFails, Watch, readers, Listening
<1>6. OwnType'
  BY <1>1, <1>3, <1>5 DEF OwnType, counters, callers, ListenerStates, Recoveries
<1>7. Placement'
  <2>1. \A h \in Gens : h > gens => h # g
    BY <1>1, <1>2, BoundsAssumption DEF OwnType, Gens
  <2>2. \A h \in Gens : h # g => listener'[h] = listener[h]
    BY <1>1, <1>5 DEF OwnType
  <2>3. \A h \in Gens : h > gens => listener'[h] = "none"
    BY <1>1, <2>1, <2>2 DEF Placement
  <2> QED BY <1>1, <1>3, <1>4, <2>3 DEF Placement, counters, callers
<1> QED BY <1>4, <1>6, <1>7, TypeJoins DEF CoreInv

-----------------------------------------------------------------------------
(* Attachment and OpenerOwnsGeneration. All steps but beginGatewayGeneration*)
(* and attachGatewayWebsocket only let callers go on or let go, and neither *)
(* attach nor detach a websocket.                                           *)
GoesOn(states) ==
    \A c \in Callers : pc'[c] \in states =>
        pc[c] \in states /\ cur'[c] = cur[c] /\ life'[c] = life[c]

Quiet ==
    /\ GoesOn(BeforeAttach) /\ GoesOn(AfterAttach)
    /\ lifeOf' = lifeOf
    /\ \A g \in Gens : ws'[g] = "none" <=> ws[g] = "none"
    /\ \A g \in Gens : connected'[g] => connected[g] \/ ws[g] # "none"

Ownership == Attachment /\ OpenerOwnsGeneration

(* A step that lets callers go on or let go keeps ownership.               *)
LEMMA QuietKeeps ==
    ASSUME CoreInv, Ownership, Quiet PROVE Ownership'
<1>1. \A c \in Callers : pc[c] \in BeforeAttach \cup AfterAttach => cur[c] \in Gens
  BY DEF CoreInv, TypeOK, Placement, BeforeAttach, AfterAttach, HoldsGeneration, Gens
<1>2. Attachment'
  BY <1>1 DEF Ownership, Attachment, Quiet, GoesOn
<1>3. OpenerOwnsGeneration'
  BY DEF Ownership, OpenerOwnsGeneration, Quiet, GoesOn, BeforeAttach, AfterAttach
<1> QED BY <1>2, <1>3 DEF Ownership

(* Callers that do not move, and websockets that are left alone.           *)
LEMMA CallersRest ==
    ASSUME UNCHANGED callers PROVE GoesOn(BeforeAttach) /\ GoesOn(AfterAttach)
BY DEF callers, GoesOn

(* A caller that goes on within one stage, or leaves it.                   *)
LEMMA CallerGoesOn ==
    ASSUME CoreInv, NEW c \in Callers, NEW st, pc' = [pc EXCEPT ![c] = st],
           \/ st \notin BeforeAttach \cup AfterAttach
           \/ pc[c] \in BeforeAttach /\ st \in BeforeAttach
           \/ pc[c] \in AfterAttach /\ st \in AfterAttach,
           \A d \in Callers : d # c => cur'[d] = cur[d] /\ life'[d] = life[d],
           \/ cur'[c] = cur[c] /\ life'[c] = life[c]
           \/ st \notin BeforeAttach \cup AfterAttach
    PROVE  GoesOn(BeforeAttach) /\ GoesOn(AfterAttach)
<1>1. pc \in [Callers -> CallerStates]
  BY DEF CoreInv, TypeOK
<1>2. BeforeAttach \cap AfterAttach = {}
  BY DEF BeforeAttach, AfterAttach
<1> QED BY <1>1, <1>2 DEF GoesOn

(* A finish neither attaches nor detaches a websocket.                     *)
LEMMA FinishIsQuiet ==
    ASSUME CoreInv, NEW g \in Gens, NEW r,
           \/ FinishCritical(g, r)
           \/ UNCHANGED <<session, legacy, queue, cancelled, conns, finishing>>
    PROVE  /\ lifeOf' = lifeOf
           /\ \A h \in Gens : ws'[h] = "none" <=> ws[h] = "none"
           /\ \A h \in Gens : connected'[h] => connected[h]
<1>1. connected \in [Gens -> BOOLEAN]
  BY DEF CoreInv, TypeOK
<1> QED BY <1>1 DEF FinishCritical, conns

(* Steps of openGatewayGeneration other than begin and attach.             *)
LEMMA OpenStepIsQuiet ==
    ASSUME IInv, NEW c \in Callers,
           \/ Dial(c) \/ abortGatewayGeneration(c) \/ HelloReadFails(c)
           \/ authenticateGatewayGeneration(c) \/ WaitReady(c) \/ ReceiveHello(c)
           \/ activateGatewayGeneration(c) \/ ActivateDrains(c) \/ FinishAttempt(c)
    PROVE  Quiet
<1>1. CoreInv /\ pc \in [Callers -> CallerStates] /\ connected \in [Gens -> BOOLEAN]
  BY DEF IInv, CoreInv, TypeOK
<1>2. UNCHANGED <<life, cur>>
  BY DEF Dial, abortGatewayGeneration, HelloReadFails, ReceiveHello, WaitReady,
         authenticateGatewayGeneration, activateGatewayGeneration,
         ActivateDrains, FinishAttempt
<1>3. \/ /\ pc[c] = "dial" /\ \E st \in {"attach", "abort"} : pc' = [pc EXCEPT ![c] = st]
      \/ /\ pc[c] \in AfterAttach
         /\ pc' = pc \/ \E st \in AfterAttach : pc' = [pc EXCEPT ![c] = st]
      \/ pc' = [pc EXCEPT ![c] = "result"]
  <2>1. CASE Dial(c)
    BY <2>1 DEF Dial, Return, Goto
  <2>2. CASE abortGatewayGeneration(c)
    BY <2>2 DEF abortGatewayGeneration, Goto
  <2>3. CASE HelloReadFails(c) \/ ReceiveHello(c)
    BY <2>3 DEF HelloReadFails, ReceiveHello, Return, Goto, AfterAttach
  <2>4. CASE authenticateGatewayGeneration(c)
    BY <2>4 DEF authenticateGatewayGeneration, Return, Goto, AfterAttach
  <2>5. CASE WaitReady(c)
    <3>1. /\ pc[c] = "wait"
          /\ \E st \in {"activate", "result", "finish"} : pc' = [pc EXCEPT ![c] = st]
      BY <2>5 DEF WaitReady, Return, Goto
    <3> QED BY <3>1 DEF AfterAttach
  <2>6. CASE activateGatewayGeneration(c)
    BY <2>6 DEF activateGatewayGeneration, Return, Goto, AfterAttach
  <2>7. CASE ActivateDrains(c)
    BY <2>7 DEF ActivateDrains, Goto, AfterAttach
  <2>8. CASE FinishAttempt(c)
    BY <2>8 DEF FinishAttempt, Goto, AfterAttach
  <2> QED BY <2>1, <2>2, <2>3, <2>4, <2>5, <2>6, <2>7, <2>8
<1>4. GoesOn(BeforeAttach) /\ GoesOn(AfterAttach)
  <2>1. CASE pc' = pc
    BY <1>2, <2>1 DEF GoesOn
  <2>2. CASE pc' # pc
    <3>1. PICK st : /\ pc' = [pc EXCEPT ![c] = st]
                    /\ \/ pc[c] \in BeforeAttach /\ st \in BeforeAttach
                       \/ pc[c] \in AfterAttach /\ st \in AfterAttach
                       \/ st \notin BeforeAttach \cup AfterAttach
      BY <1>3, <2>2 DEF BeforeAttach, AfterAttach
    <3> QED BY <1>1, <1>2, <3>1, CallerGoesOn
  <2> QED BY <2>1, <2>2
<1>5. /\ lifeOf' = lifeOf
      /\ \A g \in Gens : ws'[g] = "none" <=> ws[g] = "none"
      /\ \A g \in Gens : connected'[g] => connected[g] \/ ws[g] # "none"
  <2>1. CASE Dial(c) \/ HelloReadFails(c) \/ ReceiveHello(c) \/ WaitReady(c)
             \/ authenticateGatewayGeneration(c) \/ ActivateDrains(c)
    BY <2>1 DEF Dial, HelloReadFails, ReceiveHello, WaitReady,
                authenticateGatewayGeneration, ActivateDrains, conns
  <2>2. CASE abortGatewayGeneration(c)
    BY <2>2 DEF abortGatewayGeneration, AbortCritical, conns
  <2>3. CASE FinishAttempt(c)
    <3>1. cur[c] \in Gens
      BY <1>1, <2>3
         DEF FinishAttempt, CoreInv, Placement, TypeOK, HoldsGeneration, Gens
    <3> QED BY <1>1, <2>3, <3>1, FinishIsQuiet DEF FinishAttempt
  <2>4. CASE activateGatewayGeneration(c)
    <3>1. ws[cur[c]] # "none"
      BY <2>4 DEF activateGatewayGeneration, IInv, Attachment, AfterAttach
    <3>2. /\ UNCHANGED <<lifeOf, ws>>
          /\ connected' = connected \/ connected' = [connected EXCEPT ![cur[c]] = TRUE]
      BY <2>4 DEF activateGatewayGeneration
    <3> QED BY <1>1, <3>1, <3>2
  <2> QED BY <2>1, <2>2, <2>3, <2>4
<1> QED BY <1>4, <1>5 DEF Quiet

(* Steps of a caller outside openGatewayGeneration.                        *)
LEMMA CallerStepIsQuiet ==
    ASSUME IInv, NEW c \in Callers,
           \/ HandleResult(c) \/ waitGatewayContext(c)
           \/ stopGatewayLifecycle(c) \/ EndReconnect(c)
    PROVE  Quiet
<1>1. CoreInv /\ OwnType
  BY TypeSplits DEF IInv, CoreInv
<1>2. UNCHANGED conns
  BY DEF HandleResult, waitGatewayContext, stopGatewayLifecycle, EndReconnect
<1>3. /\ \E st \in {"idle", "defer", "stop", "backoff", "begin"} :
            pc' = [pc EXCEPT ![c] = st]
      /\ \A d \in Callers : d # c => cur'[d] = cur[d] /\ life'[d] = life[d]
  <2>1. CASE Exit(c)
    BY <1>1, <2>1 DEF Exit, Return, Goto, OwnType
  <2>2. CASE /\ \E st \in {"defer", "stop", "backoff", "begin"} : Goto(c, st)
             /\ UNCHANGED <<life, cur>>
    BY <2>2 DEF Goto
  <2>3. \/ Exit(c)
        \/ /\ \E st \in {"defer", "stop", "backoff", "begin"} : Goto(c, st)
           /\ UNCHANGED <<life, cur>>
    BY DEF HandleResult, waitGatewayContext, stopGatewayLifecycle, EndReconnect,
           Leave
  <2> QED BY <2>1, <2>2, <2>3
<1>4. PICK st \in {"idle", "defer", "stop", "backoff", "begin"} :
          pc' = [pc EXCEPT ![c] = st]
  BY <1>3
<1>5. st \notin BeforeAttach \cup AfterAttach
  BY DEF BeforeAttach, AfterAttach
<1>6. GoesOn(BeforeAttach) /\ GoesOn(AfterAttach)
  BY <1>1, <1>3, <1>4, <1>5, CallerGoesOn
<1> QED BY <1>2, <1>6 DEF Quiet, conns

(* Open's first step and the steps of Close.                               *)
LEMMA UserStepIsQuiet ==
    ASSUME IInv, NEW u \in Users,
           \/ OpenWithContext(u) \/ closeGateway(u) \/ CloseStep(u)
    PROVE  Quiet
<1>1. u \in Callers /\ CoreInv /\ OwnType /\ ws \in [Gens -> {"none", "open", "closed"}]
  BY TypeSplits DEF IInv, CoreInv, Callers, TypeOK
<1>2. /\ \E st \in {"idle", "begin", "closing", "compat", "closeDrain",
                    "closeHandling", "closed"} :
            pc' = [pc EXCEPT ![u] = st]
      /\ \A d \in Callers : d # u => cur'[d] = cur[d] /\ life'[d] = life[d]
  <2>0. pc = [pc EXCEPT ![u] = pc[u]]
    BY <1>1 DEF OwnType
  <2>1. CASE OpenWithContext(u)
    BY <1>1, <2>1 DEF OpenWithContext, Goto, OwnType
  <2>2. CASE closeGateway(u)
    BY <1>1, <2>2 DEF closeGateway, Goto, OwnType
  <2>3. CASE CloseFinishes(u)
    BY <2>0, <2>3 DEF CloseFinishes, Goto
  <2>4. CASE CloseLegacy(u)
    BY <2>4 DEF CloseLegacy, Goto
  <2>5. CASE CloseDrains(u)
    BY <2>0, <2>5 DEF CloseDrains, Goto
  <2>6. CASE CloseWithCode(u)
    BY <1>1, <2>6 DEF CloseWithCode, Exit, Return, Goto, OwnType
  <2> QED BY <2>1, <2>2, <2>3, <2>4, <2>5, <2>6 DEF CloseStep
<1>3. PICK st \in {"idle", "begin", "closing", "compat", "closeDrain",
                   "closeHandling", "closed"} : pc' = [pc EXCEPT ![u] = st]
  BY <1>2
<1>4. st \notin BeforeAttach \cup AfterAttach
  BY DEF BeforeAttach, AfterAttach
<1>5. GoesOn(BeforeAttach) /\ GoesOn(AfterAttach)
  BY <1>1, <1>2, <1>3, <1>4, CallerGoesOn
<1>6. /\ lifeOf' = lifeOf
      /\ \A g \in Gens : ws'[g] = "none" <=> ws[g] = "none"
      /\ \A g \in Gens : connected'[g] => connected[g]
  <2>1. CASE OpenWithContext(u) \/ closeGateway(u) \/ CloseDrains(u) \/ CloseWithCode(u)
    BY <2>1 DEF OpenWithContext, closeGateway, CloseDrains, CloseWithCode, conns
  <2>2. CASE CloseFinishes(u)
    <3>1. cur[u] \in Gens
      BY <1>1, <2>2
         DEF CloseFinishes, CoreInv, Placement, TypeOK, HoldsGeneration, Gens
    <3> QED BY <1>1, <2>2, <3>1, FinishIsQuiet DEF CloseFinishes
  <2>3. CASE CloseLegacy(u)
    <3>1. wsConn # 0 => ws[wsConn] # "none"
      BY <1>1 DEF CoreInv, Placement
    <3>2. /\ UNCHANGED <<lifeOf, connected>>
          /\ ws' = [g \in Gens |-> IF g = wsConn THEN "closed" ELSE ws[g]]
      BY <2>3 DEF CloseLegacy
    <3>3. \A g \in Gens : g # 0
      BY DEF Gens
    <3> QED BY <1>1, <3>1, <3>2, <3>3
  <2> QED BY <2>1, <2>2, <2>3 DEF CloseStep
<1> QED BY <1>5, <1>6 DEF Quiet

(* Steps of a generation's own goroutines, and a cancelled context.        *)
LEMMA GenerationStepIsQuiet ==
    ASSUME IInv, NEW g \in Gens,
           \/ ReadReady(g) \/ ReadLoss(g) \/ ListenerStep(g) \/ HeartbeatFails(g)
           \/ Watch(g) \/ FinishStep(g) \/ \E l \in Lives : CancelContext(l)
    PROVE  Quiet
<1>1. CoreInv /\ ws \in [Gens -> {"none", "open", "closed"}]
  BY DEF IInv, CoreInv, TypeOK
<1>2. CASE startGatewayReconnect(g)
  <2>1. UNCHANGED <<lifeOf, ws, connected>>
    BY <1>2 DEF startGatewayReconnect, conns
  <2>2. CASE UNCHANGED callers
    BY <2>1, <2>2, CallersRest DEF Quiet
  <2>3. CASE StartReconnect(g)
    <3>1. g \in Callers /\ OwnType
      BY <1>1, TypeSplits DEF Callers, CoreInv
    <3>2. /\ pc' = [pc EXCEPT ![g] = "backoff"] /\ cur' = cur
          /\ \A d \in Callers : d # g => life'[d] = life[d]
      BY <2>3, <3>1 DEF StartReconnect, Return, Goto, OwnType
    <3>3. GoesOn(BeforeAttach) /\ GoesOn(AfterAttach)
      BY <1>1, <3>1, <3>2, CallerGoesOn DEF BeforeAttach, AfterAttach
    <3> QED BY <2>1, <3>3 DEF Quiet
  <2> QED BY <1>2, <2>2, <2>3 DEF startGatewayReconnect, SkipReconnect
<1>3. CASE ~startGatewayReconnect(g)
  <2>1. UNCHANGED callers
    BY <1>3 DEF ReadReady, ReadLoss, ListenerStep, ReadClosed, PublishReady,
                ListenerFinishes, HeartbeatFails, Watch, FinishStep, FinishCloses,
                FinishDrains, CancelContext
  <2>2. /\ lifeOf' = lifeOf
        /\ \A h \in Gens : ws'[h] = "none" <=> ws[h] = "none"
        /\ \A h \in Gens : connected'[h] => connected[h]
    <3>1. CASE FinishCloses(g)
      BY <1>1, <3>1 DEF FinishCloses
    <3>2. CASE ListenerFinishes(g) \/ HeartbeatFails(g) \/ Watch(g)
      <4>1. \/ \E r : FinishCritical(g, r)
            \/ UNCHANGED <<session, legacy, queue, cancelled, conns, finishing>>
        BY <3>2 DEF ListenerFinishes, HeartbeatFails, Watch
      <4> QED BY <1>1, <4>1, FinishIsQuiet
    <3>3. CASE \/ ReadReady(g) \/ ReadLoss(g) \/ ReadClosed(g) \/ PublishReady(g)
               \/ FinishDrains(g) \/ \E l \in Lives : CancelContext(l)
      BY <3>3 DEF ReadReady, ReadLoss, ReadClosed, PublishReady, FinishDrains,
                  CancelContext, conns
    <3> QED BY <1>3, <3>1, <3>2, <3>3 DEF ListenerStep, FinishStep
  <2> QED BY <2>1, <2>2, CallersRest DEF Quiet
<1> QED BY <1>2, <1>3

(* A generation that begins is new: nobody holds it and it has no websocket.*)
LEMMA BeginOwns ==
    ASSUME IInv, NEW c \in Callers, beginGatewayGeneration(c) PROVE Ownership'
<1>1. CoreInv /\ OwnType /\ SharedType /\ Placement
  BY TypeSplits DEF IInv, CoreInv
<1>2. UNCHANGED <<life, ws, connected>> /\ pc[c] = "begin"
  BY DEF beginGatewayGeneration
<1>3. CASE pc' = [pc EXCEPT ![c] = "result"] /\ UNCHANGED <<cur, lifeOf>>
  <2>1. GoesOn(BeforeAttach) /\ GoesOn(AfterAttach)
    BY <1>1, <1>2, <1>3, CallerGoesOn DEF BeforeAttach, AfterAttach
  <2>2. Quiet
    BY <1>2, <1>3, <2>1 DEF Quiet
  <2> QED BY <1>1, <2>2, QuietKeeps DEF IInv, Ownership
<1>4. CASE /\ pc' = [pc EXCEPT ![c] = "dial"] /\ gens + 1 \in Gens
           /\ cur' = [cur EXCEPT ![c] = gens + 1]
           /\ lifeOf' = [lifeOf EXCEPT ![gens + 1] = life[c]]
  <2> DEFINE Opening == BeforeAttach \cup AfterAttach
  <2>1. ws[gens + 1] = "none"
    BY <1>1, <1>4, BoundsAssumption DEF Placement, OwnType, Gens
  <2>2. \A d \in Callers : pc[d] \in Opening => cur[d] \in Gens /\ cur[d] # gens + 1
    BY <1>1, BoundsAssumption
       DEF Placement, OwnType, HoldsGeneration, BeforeAttach, AfterAttach, Gens
  <2>3. \A d \in Callers : d # c => pc'[d] = pc[d] /\ cur'[d] = cur[d]
    BY <1>1, <1>4 DEF OwnType
  <2>4. /\ pc'[c] = "dial" /\ cur'[c] = gens + 1 /\ lifeOf'[gens + 1] = life[c]
        /\ \A g \in Gens : g # gens + 1 => lifeOf'[g] = lifeOf[g]
    BY <1>1, <1>4 DEF OwnType, SharedType
  <2>5. Attachment'
    BY <1>2, <2>1, <2>3, <2>4 DEF IInv, Attachment, BeforeAttach, AfterAttach
  <2>6. ASSUME NEW d \in Callers, pc'[d] \in Opening
        PROVE  /\ lifeOf'[cur'[d]] = life'[d]
               /\ \A e \in Callers : pc'[e] \in Opening /\ cur'[d] = cur'[e] => d = e
    <3>1. lifeOf'[cur'[d]] = life'[d]
      BY <1>2, <2>2, <2>3, <2>4, <2>6
         DEF IInv, OpenerOwnsGeneration, BeforeAttach, AfterAttach
    <3>2. \A e \in Callers : pc'[e] \in Opening /\ cur'[d] = cur'[e] => d = e
      BY <2>2, <2>3, <2>4, <2>6
         DEF IInv, OpenerOwnsGeneration, BeforeAttach, AfterAttach
    <3> QED BY <3>1, <3>2
  <2>7. OpenerOwnsGeneration'
    BY <2>6 DEF OpenerOwnsGeneration, BeforeAttach, AfterAttach
  <2> QED BY <2>5, <2>7 DEF Ownership
<1>5. \/ pc' = [pc EXCEPT ![c] = "result"] /\ UNCHANGED <<cur, lifeOf>>
      \/ /\ pc' = [pc EXCEPT ![c] = "dial"] /\ gens + 1 \in Gens
         /\ cur' = [cur EXCEPT ![c] = gens + 1]
         /\ lifeOf' = [lifeOf EXCEPT ![gens + 1] = life[c]]
  BY <1>1, BoundsAssumption DEF beginGatewayGeneration, MayBegin, Return, Goto, Gens, OwnType
<1> QED BY <1>3, <1>4, <1>5

(* Only the opener of a generation attaches its websocket.                 *)
LEMMA AttachOwns ==
    ASSUME IInv, NEW c \in Callers, attachGatewayWebsocket(c) PROVE Ownership'
<1>1. CoreInv /\ OwnType /\ SharedType /\ Placement
  BY TypeSplits DEF IInv, CoreInv
<1>2. UNCHANGED <<cur, life, lifeOf, connected>> /\ pc[c] = "attach"
  BY DEF attachGatewayWebsocket
<1>3. CASE pc' = [pc EXCEPT ![c] = "abort"] /\ UNCHANGED ws
  <2>1. GoesOn(BeforeAttach) /\ GoesOn(AfterAttach)
    BY <1>1, <1>2, <1>3, CallerGoesOn DEF BeforeAttach, AfterAttach
  <2>2. Quiet
    BY <1>2, <1>3, <2>1 DEF Quiet
  <2> QED BY <1>1, <2>2, QuietKeeps DEF IInv, Ownership
<1>4. CASE /\ pc' = [pc EXCEPT ![c] = "hello"]
           /\ ws' = [ws EXCEPT ![cur[c]] = "open"]
  <2>1. cur[c] \in Gens
    BY <1>1, <1>2 DEF Placement, OwnType, HoldsGeneration, Gens
  <2>2. \A d \in Callers : pc'[d] \in BeforeAttach =>
            d # c /\ pc[d] \in BeforeAttach /\ cur[d] # cur[c]
    BY <1>1, <1>2, <1>4
       DEF IInv, OpenerOwnsGeneration, BeforeAttach, AfterAttach, OwnType
  <2>3. \A d \in Callers : pc'[d] \in AfterAttach => d = c \/ pc[d] \in AfterAttach
    BY <1>1, <1>4 DEF OwnType
  <2>4. \A d \in Callers : pc'[d] \in BeforeAttach \cup AfterAttach
                            => pc[d] \in BeforeAttach \cup AfterAttach
    BY <1>2, <2>2, <2>3 DEF BeforeAttach
  <2>5. /\ ws'[cur[c]] = "open"
        /\ \A g \in Gens : g # cur[c] => ws'[g] = ws[g]
    BY <1>1, <1>4, <2>1 DEF SharedType
  <2>6. \A d \in Callers : pc[d] \in BeforeAttach \cup AfterAttach => cur[d] \in Gens
    BY <1>1
       DEF Placement, OwnType, HoldsGeneration, BeforeAttach, AfterAttach, Gens
  <2>7. Attachment'
    BY <1>2, <2>1, <2>2, <2>3, <2>5, <2>6 DEF IInv, Attachment
  <2>8. OpenerOwnsGeneration'
    BY <1>2, <2>4 DEF IInv, OpenerOwnsGeneration, BeforeAttach, AfterAttach
  <2> QED BY <2>7, <2>8 DEF Ownership
<1>5. \/ pc' = [pc EXCEPT ![c] = "abort"] /\ UNCHANGED ws
      \/ /\ pc' = [pc EXCEPT ![c] = "hello"]
         /\ ws' = [ws EXCEPT ![cur[c]] = "open"]
  BY DEF attachGatewayWebsocket, Return, Goto
<1> QED BY <1>3, <1>4, <1>5

-----------------------------------------------------------------------------
(* The initial state satisfies the inductive invariant.                    *)
LEMMA InitIInv == Init => IInv
<1> SUFFICES ASSUME Init PROVE IInv
  OBVIOUS
<1>1. CoreInv
  BY InitCoreInv
<1>2. Attachment
  BY DEF Init, Attachment, BeforeAttach, AfterAttach
<1>3. OpenerOwnsGeneration
  BY DEF Init, OpenerOwnsGeneration
<1> QED BY <1>1, <1>2, <1>3 DEF IInv

(* IInv is inductive: one step per action of Next.                         *)
LEMMA NextIInv == IInv /\ [Next]_vars => IInv'
<1> SUFFICES ASSUME IInv, [Next]_vars PROVE IInv'
  OBVIOUS
<1>0. CoreInv /\ Ownership
  BY DEF IInv, Ownership
<1>1. CASE UNCHANGED vars
  <2>1. CoreInv'
    BY <1>0, <1>1, Stuttering
  <2>2. Quiet
    BY <1>1, CallersRest DEF vars, conns, callers, Quiet, GoesOn
  <2> QED BY <1>0, <2>1, <2>2, QuietKeeps DEF IInv, Ownership
<1>2. ASSUME NEW u \in Users, OpenWithContext(u) \/ closeGateway(u) \/ CloseStep(u)
      PROVE  IInv'
  <2>1. CASE OpenWithContext(u)
    BY <1>0, <2>1, OpenWithContextKeeps, UserStepIsQuiet, QuietKeeps DEF IInv, Ownership
  <2>2. CASE closeGateway(u)
    BY <1>0, <2>2, closeGatewayKeeps, UserStepIsQuiet, QuietKeeps DEF IInv, Ownership
  <2>3. CASE CloseStep(u)
    <3>1. CoreInv'
      BY <1>0, <2>3, CloseFinishesKeeps, CloseLegacyKeeps, CloseDrainsKeeps,
         CloseWithCodeKeeps DEF CloseStep
    <3> QED BY <1>0, <2>3, <3>1, UserStepIsQuiet, QuietKeeps DEF IInv, Ownership
  <2> QED BY <1>2, <2>1, <2>2, <2>3
<1>3. ASSUME NEW c \in Callers, CallerStep(c) \/ ReceiveHello(c)
      PROVE  IInv'
  <2>1. CASE beginGatewayGeneration(c)
    BY <1>0, <2>1, beginGatewayGenerationKeeps, BeginOwns DEF IInv, Ownership
  <2>2. CASE attachGatewayWebsocket(c)
    BY <1>0, <2>2, attachGatewayWebsocketKeeps, AttachOwns DEF IInv, Ownership
  <2>3. CASE \/ Dial(c) \/ abortGatewayGeneration(c) \/ HelloReadFails(c)
             \/ authenticateGatewayGeneration(c) \/ WaitReady(c) \/ ReceiveHello(c)
             \/ activateGatewayGeneration(c) \/ ActivateDrains(c) \/ FinishAttempt(c)
    <3>1. CoreInv'
      BY <1>0, <2>3, DialKeeps, abortGatewayGenerationKeeps, HelloReadFailsKeeps,
         authenticateGatewayGenerationKeeps, WaitReadyKeeps, ReceiveHelloKeeps,
         activateGatewayGenerationKeeps, ActivateDrainsKeeps, FinishAttemptKeeps
    <3> QED BY <1>0, <2>3, <3>1, OpenStepIsQuiet, QuietKeeps DEF IInv, Ownership
  <2>4. CASE \/ HandleResult(c) \/ waitGatewayContext(c)
             \/ stopGatewayLifecycle(c) \/ EndReconnect(c)
    <3>1. CoreInv'
      BY <1>0, <2>4, HandleResultKeeps, waitGatewayContextKeeps,
         stopGatewayLifecycleKeeps, EndReconnectKeeps
    <3> QED BY <1>0, <2>4, <3>1, CallerStepIsQuiet, QuietKeeps DEF IInv, Ownership
  <2> QED BY <1>3, <2>1, <2>2, <2>3, <2>4 DEF CallerStep, OpenStep
<1>4. ASSUME NEW g \in Gens,
             \/ ReadReady(g) \/ ReadLoss(g) \/ ListenerStep(g)
             \/ HeartbeatFails(g) \/ Watch(g) \/ FinishStep(g)
      PROVE  IInv'
  <2>1. CoreInv'
    BY <1>0, <1>4, ReadReadyKeeps, ReadLossKeeps, ReadClosedKeeps, PublishReadyKeeps,
       ReadersKeep, FinishClosesKeeps, FinishDrainsKeeps, startGatewayReconnectKeeps
       DEF ListenerStep, FinishStep
  <2> QED BY <1>0, <1>4, <2>1, GenerationStepIsQuiet, QuietKeeps DEF IInv, Ownership
<1>5. ASSUME NEW l \in Lives, CancelContext(l)
      PROVE  IInv'
  <2>1. 1 \in Gens
    BY BoundsAssumption DEF Gens
  <2> QED
    BY <1>0, <1>5, <2>1, CancelContextKeeps, GenerationStepIsQuiet, QuietKeeps
       DEF IInv, Ownership
<1> QED BY <1>1, <1>2, <1>3, <1>4, <1>5 DEF Next

(* Every reachable state satisfies the inductive invariant.                *)
THEOREM Inductive == Spec => []IInv
BY InitIInv, NextIInv, PTL DEF Spec

(* The variables of the Session and of its goroutines keep their types, for*)
(* any number of users, lifetimes and generations.                         *)
THEOREM TypeCorrect == Spec => []TypeOK
<1>1. IInv => TypeOK
  BY DEF IInv, CoreInv
<1> QED BY <1>1, Inductive, PTL

(* One generation lives at a time: gatewayConnection, wsConn and connected *)
(* refer to the one generation whose finish has not run, whichever of the  *)
(* opener, listener, heartbeat, watcher and Close runs it.                 *)
THEOREM SingleGeneration == Spec => []OneLiveGeneration
<1>1. IInv => OneLiveGeneration
  BY DEF IInv, CoreInv
<1> QED BY <1>1, Inductive, PTL

-----------------------------------------------------------------------------
(* The order of the goroutines: an invariant inductive relative to IInv.   *)

(* Lifetimes are numbered by their counter; a generation's own caller is   *)
(* its reconnect goroutine, which starts when its finish is over; a failure*)
(* in the ready channel comes from the finish.                             *)
Counted ==
    /\ gatewayLifecycle <= lives
    /\ \A c \in Callers : life[c] <= lives
    /\ \A g \in Gens : lifeOf[g] <= lives

Started ==
    /\ \A g \in Gens : pc[g] \in HoldsLifetime \cup {"idle"}
    /\ \A g \in Gens : pc[g] # "idle" => finish[g] = "done"

Offered ==
    \A g \in Gens : ready[g] # NoResult /\ ready[g] # Success => finish[g] # "idle"

(* Only a reconnect goroutine has the deferred function; who activates has *)
(* its success in hand.                                                    *)
Standing ==
    /\ \A u \in Users : pc[u] # "defer"
    /\ \A c \in Callers : pc[c] \in {"activate", "drain", "handling"} => res[c] = Success

(* NoStrandedEvent, by goroutines instead of sets of them.                 *)
HandlingStates == {"handling", "closeHandling"}
DrainStates == {"drain", "closeDrain"}
Draining ==
    /\ events # <<>> => \/ dispatching
                        \/ \E g \in Gens : finish[g] \in {"close", "drain"}
                        \/ \E c \in Callers : pc[c] \in DrainStates
    /\ dispatching => \/ \E g \in Gens : finish[g] = "handling"
                      \/ \E c \in Callers : pc[c] \in HandlingStates
    /\ \A g \in Gens : finish[g] = "handling" =>
          /\ dispatching
          /\ \A h \in Gens : finish[h] = "handling" => g = h
          /\ \A c \in Callers : pc[c] \notin HandlingStates
    /\ \A c \in Callers : pc[c] \in HandlingStates =>
          /\ dispatching
          /\ \A d \in Callers : pc[d] \in HandlingStates => c = d

(* A caller tries for the current lifetime while it has no success: then it*)
(* is the only one, no finish will start a reconnect, and a generation that*)
(* is current is the one it opens.                                         *)
OpeningStates == BeforeAttach \cup {"hello", "auth", "wait", "activate", "finish"}
Trying(c) == \/ pc[c] \in OpeningStates \cup {"begin", "backoff", "stop"}
             \/ pc[c] = "result" /\ res[c] # Success
TriesFor(c) == Trying(c) /\ life[c] = gatewayLifecycle

(* A finish of the current lifetime that will start a reconnect goroutine. *)
Pending(g) == /\ lifeOf[g] = gatewayLifecycle
              /\ \/ finish[g] = "reconnect"
                 \/ finish[g] \in {"close", "drain", "handling"} /\ willReconnect[g]

TriesAlone(c) ==
    /\ \A d \in Callers : TriesFor(d) => c = d
    /\ \A g \in Gens : ~Pending(g)
    /\ \/ gatewayConnection = 0
       \/ /\ pc[c] \in OpeningStates /\ gatewayConnection = cur[c]
          /\ ~connected[cur[c]]

PendsAlone(g) == /\ gatewayConnection = 0
                 /\ \A h \in Gens : Pending(h) => g = h

Working == /\ \A c \in Callers : TriesFor(c) => TriesAlone(c)
           /\ \A g \in Gens : Pending(g) => PendsAlone(g)

(* Close has ended its lifetime for good, and finishes the one generation  *)
(* of it that may be left.                                                 *)
ClosingStates == {"closing", "compat", "closeDrain", "closeHandling", "closed"}
Ending ==
    \A u \in Users : pc[u] \in ClosingStates /\ life[u] # 0 =>
        /\ life[u] # gatewayLifecycle
        /\ \A g \in Gens : gatewayConnection = g /\ lifeOf[g] = life[u]
                           => pc[u] = "closing" /\ cur[u] = g

Order == /\ Counted /\ Started /\ Offered /\ Standing /\ Draining
         /\ AtMostOneReconnector /\ Working /\ Ending
OrderInv == IInv /\ Order

-----------------------------------------------------------------------------
(* The types that the steps below need.                                    *)
FieldTypes ==
    /\ gatewayLifecycle \in 0 .. MaxLife /\ gatewayConnection \in 0 .. MaxGen
    /\ gatewayReconnectRunning \in BOOLEAN /\ dispatching \in BOOLEAN
    /\ lives \in Nat /\ gens \in Nat
    /\ finish \in [Gens -> Phases] /\ willReconnect \in [Gens -> BOOLEAN]
    /\ connected \in [Gens -> BOOLEAN] /\ ready \in [Gens -> Results]
    /\ ws \in [Gens -> {"none", "open", "closed"}]
    /\ lifeOf \in [Gens -> 0 .. MaxLife]
    /\ pc \in [Callers -> CallerStates] /\ res \in [Callers -> Results]
    /\ life \in [Callers -> 0 .. MaxLife] /\ cur \in [Callers -> 0 .. MaxGen]

LEMMA FieldsTyped == IInv => FieldTypes
BY DEF IInv, CoreInv, TypeOK, FieldTypes

(* Users are not generations, no generation or lifetime is 0.              *)
LEMMA Names ==
    /\ \A u \in Users : u \in Callers /\ u \notin Gens
    /\ \A g \in Gens : g \in Callers /\ g \notin Users /\ g # 0 /\ g \in 0 .. MaxGen
    /\ \A l \in Lives : l # 0
    /\ \A c \in Callers : c \notin Users => c \in Gens
BY UsersAssumption, BoundsAssumption DEF Callers, Gens, Lives

(* The critical section of a finish, as far as this module looks at it.    *)
Loses(g) ==
    /\ gatewayConnection = g /\ finish[g] = "idle" /\ gatewayConnection' = 0
    /\ \/ UNCHANGED <<gatewayLifecycle, gatewayReconnectRunning>>
       \/ gatewayLifecycle' = 0
    /\ UNCHANGED <<lifeOf, dispatching, lastEvent, ws>>
    /\ events' = AfterLoss(g)
    /\ \A h \in Gens : connected'[h] <=> connected[h] /\ h # g
    /\ \A h \in Gens : h # g => /\ finish'[h] = finish[h]
                                /\ ready'[h] = ready[h]
                                /\ willReconnect'[h] = willReconnect[h]
    /\ finish'[g] = "close"
    /\ willReconnect'[g] => connected[g]
    /\ NamesWebsocket(g) => ~DataReady' /\ wsConn' = 0
    /\ ~NamesWebsocket(g) => UNCHANGED legacy

LEMMA FinishLoses ==
    ASSUME IInv, NEW g \in Gens, g <= gens, NEW r, FinishCritical(g, r)
    PROVE  Loses(g)
<1>1. FieldTypes /\ OneLiveGeneration
  BY FieldsTyped DEF IInv, CoreInv
<1>2. gatewayConnection = g /\ finish[g] = "idle"
  BY <1>1 DEF FinishCritical, OneLiveGeneration
<1>3. gatewayConnection' = 0
  BY <1>2 DEF FinishCritical
<1>4. \/ UNCHANGED <<gatewayLifecycle, gatewayReconnectRunning>>
      \/ gatewayLifecycle' = 0
  BY DEF FinishCritical
<1>5. UNCHANGED <<lifeOf, dispatching, lastEvent, ws>> /\ events' = AfterLoss(g)
  BY DEF FinishCritical
<1>6. \A h \in Gens : connected'[h] <=> connected[h] /\ h # g
  BY <1>1 DEF FinishCritical, FieldTypes
<1>7. \A h \in Gens : h # g => /\ finish'[h] = finish[h]
                               /\ ready'[h] = ready[h]
                               /\ willReconnect'[h] = willReconnect[h]
  BY <1>1 DEF FinishCritical, FieldTypes
<1>8. finish'[g] = "close" /\ (willReconnect'[g] => connected[g])
  BY <1>1 DEF FinishCritical, FieldTypes
<1>9. /\ NamesWebsocket(g) => ~DataReady' /\ wsConn' = 0
      /\ ~NamesWebsocket(g) => UNCHANGED legacy
  BY DEF FinishCritical
<1> QED BY <1>2, <1>3, <1>4, <1>5, <1>6, <1>7, <1>8, <1>9 DEF Loses

(* What finishes a generation, besides Close and a failing attempt.        *)
LEMMA ReadersLose ==
    ASSUME IInv, NEW g \in Gens,
           ListenerFinishes(g) \/ HeartbeatFails(g) \/ Watch(g)
    PROVE  /\ UNCHANGED <<counters, callers>>
           /\ \/ Loses(g)
              \/ UNCHANGED <<session, legacy, queue, cancelled, conns, finishing>>
<1>1. g <= gens
  <2>1. listener[g] # "none" \/ ws[g] # "none"
    BY DEF ListenerFinishes, HeartbeatFails, Watch
  <2> QED BY <2>1, FieldsTyped, BoundsAssumption
          DEF IInv, CoreInv, Placement, FieldTypes, Gens
<1>2. UNCHANGED <<counters, callers>>
  BY DEF ListenerFinishes, HeartbeatFails, Watch
<1>3. \/ \E r : FinishCritical(g, r)
      \/ UNCHANGED <<session, legacy, queue, cancelled, conns, finishing>>
  BY DEF ListenerFinishes, HeartbeatFails, Watch
<1> QED BY <1>1, <1>2, <1>3, FinishLoses

(* Close and a failing attempt finish the generation they hold.            *)
LEMMA HoldersLose ==
    ASSUME IInv, NEW c \in Callers,
           pc[c] \in {"closing", "finish"}, NEW r, FinishCritical(cur[c], r)
    PROVE  cur[c] \in Gens /\ Loses(cur[c])
<1>1. cur[c] \in Gens /\ cur[c] <= gens
  BY FieldsTyped, BoundsAssumption
     DEF IInv, CoreInv, Placement, HoldsGeneration, FieldTypes, Gens
<1> QED BY <1>1, FinishLoses

-----------------------------------------------------------------------------
(* Counters: what a lifetime is called never exceeds the counter.          *)
LEMMA CountedKeeps == ASSUME IInv, Counted, [Next]_vars PROVE Counted'
<1>1. FieldTypes
  BY FieldsTyped
<1> DEFINE Same == UNCHANGED <<lives, lifeOf>> /\ gatewayLifecycle' \in {gatewayLifecycle, 0}
<1>2. ASSUME Same, \A c \in Callers : life'[c] = life[c] \/ life'[c] <= lives
      PROVE  Counted'
  BY <1>1, <1>2 DEF Counted, FieldTypes
<1>3. ASSUME Same, UNCHANGED life PROVE Counted'
  BY <1>2, <1>3 DEF Counted
<1>4. CASE UNCHANGED vars
  BY <1>3, <1>4 DEF vars, session, conns, counters, callers
<1>5. ASSUME NEW u \in Users, OpenWithContext(u) PROVE Counted'
  BY <1>1, <1>5, Names DEF OpenWithContext, Counted, FieldTypes, conns
<1>6. ASSUME NEW u \in Users, closeGateway(u) PROVE Counted'
  <2>1. Same
    BY <1>6 DEF closeGateway, StopLifecycle, conns, counters
  <2>2. life' = [life EXCEPT ![u] = gatewayLifecycle]
    BY <1>6 DEF closeGateway
  <2>3. \A c \in Callers : life'[c] = life[c] \/ life'[c] <= lives
    BY <1>1, <2>2 DEF FieldTypes, Counted
  <2> QED BY <1>2, <2>1, <2>3
<1>7. ASSUME NEW u \in Users, CloseStep(u) PROVE Counted'
  <2>1. CASE CloseFinishes(u)
    BY <1>3, <2>1 DEF CloseFinishes, FinishCritical, session, conns, counters
  <2>2. CASE CloseLegacy(u) \/ CloseDrains(u)
    BY <1>3, <2>2 DEF CloseLegacy, CloseDrains, session, conns, counters
  <2>3. CASE CloseWithCode(u)
    <3>1. life' = [life EXCEPT ![u] = 0]
      BY <2>3 DEF CloseWithCode, Exit
    <3>2. \A c \in Callers : life'[c] = life[c] \/ life'[c] <= lives
      BY <1>1, <3>1 DEF FieldTypes
    <3> QED BY <1>2, <2>3, <3>2 DEF CloseWithCode, session, conns, counters
  <2> QED BY <1>7, <2>1, <2>2, <2>3 DEF CloseStep
<1>8. ASSUME NEW c \in Callers, beginGatewayGeneration(c) PROVE Counted'
  <2>1. UNCHANGED <<life, lives, gatewayLifecycle>>
    BY <1>8 DEF beginGatewayGeneration
  <2>2. \/ lifeOf' = lifeOf
        \/ lifeOf' = [lifeOf EXCEPT ![gens + 1] = life[c]]
    BY <1>8 DEF beginGatewayGeneration
  <2> QED BY <1>1, <2>1, <2>2 DEF Counted, FieldTypes
<1>9. ASSUME NEW c \in Callers,
             \/ Dial(c) \/ attachGatewayWebsocket(c) \/ abortGatewayGeneration(c)
             \/ HelloReadFails(c) \/ ReceiveHello(c) \/ WaitReady(c)
             \/ authenticateGatewayGeneration(c) \/ activateGatewayGeneration(c)
             \/ ActivateDrains(c) \/ FinishAttempt(c) \/ waitGatewayContext(c)
      PROVE  Counted'
  <2>1. Same
    BY <1>9 DEF Dial, attachGatewayWebsocket, abortGatewayGeneration, AbortCritical,
                HelloReadFails, ReceiveHello, WaitReady,
                authenticateGatewayGeneration, activateGatewayGeneration,
                ActivateDrains, FinishAttempt, FinishCritical, waitGatewayContext,
                session, conns, counters
  <2>2. UNCHANGED life
    BY <1>9 DEF Dial, attachGatewayWebsocket, abortGatewayGeneration,
                HelloReadFails, ReceiveHello, WaitReady,
                authenticateGatewayGeneration, activateGatewayGeneration,
                ActivateDrains, FinishAttempt, waitGatewayContext
  <2> QED BY <1>3, <2>1, <2>2
<1>10. ASSUME NEW c \in Callers,
              HandleResult(c) \/ stopGatewayLifecycle(c) \/ EndReconnect(c)
       PROVE  Counted'
  <2>1. Same
    BY <1>10 DEF HandleResult, stopGatewayLifecycle, StopLifecycle, EndReconnect,
                 session, conns, counters
  <2>2. life' = life \/ life' = [life EXCEPT ![c] = 0]
    BY <1>10 DEF HandleResult, stopGatewayLifecycle, EndReconnect, Exit
  <2>3. \A d \in Callers : life'[d] = life[d] \/ life'[d] <= lives
    BY <1>1, <2>2 DEF FieldTypes
  <2> QED BY <1>2, <2>1, <2>3
<1>11. ASSUME NEW g \in Gens,
              \/ ReadReady(g) \/ ReadLoss(g) \/ ReadClosed(g) \/ PublishReady(g)
              \/ FinishCloses(g) \/ FinishDrains(g)
       PROVE  Counted'
  BY <1>3, <1>11 DEF ReadReady, ReadLoss, ReadClosed, PublishReady, FinishCloses,
                     FinishDrains, session, conns, counters, callers
<1>12. ASSUME NEW g \in Gens, ListenerFinishes(g) \/ HeartbeatFails(g) \/ Watch(g)
       PROVE  Counted'
  BY <1>3, <1>12, ReadersLose DEF Loses, session, conns, counters, callers
<1>13. ASSUME NEW g \in Gens, startGatewayReconnect(g) PROVE Counted'
  <2>1. Same
    BY <1>13 DEF startGatewayReconnect, StopLifecycle, StartReconnect, SkipReconnect,
                 conns, counters
  <2>2. life' = life \/ life' = [life EXCEPT ![g] = lifeOf[g]]
    BY <1>13 DEF startGatewayReconnect, StartReconnect, SkipReconnect, callers
  <2>3. \A d \in Callers : life'[d] = life[d] \/ life'[d] <= lives
    BY <1>1, <2>2 DEF FieldTypes, Counted
  <2> QED BY <1>2, <2>1, <2>3
<1>14. CASE \E l \in Lives : CancelContext(l)
  BY <1>3, <1>14 DEF CancelContext, session, conns, counters, callers
<1> QED
  BY <1>4, <1>5, <1>6, <1>7, <1>8, <1>9, <1>10, <1>11, <1>12, <1>13, <1>14
     DEF Next, CallerStep, OpenStep, ListenerStep, FinishStep

-----------------------------------------------------------------------------
(* The body of conn.finish.Do runs forward and once.                       *)
LEMMA PhasesGoOn ==
    ASSUME IInv, [Next]_vars
    PROVE  \A g \in Gens : /\ finish[g] = "done" => finish'[g] = "done"
                           /\ finish[g] # "idle" => finish'[g] # "idle"
<1>1. FieldTypes
  BY FieldsTyped
<1> DEFINE GoOn == \A g \in Gens : /\ finish[g] = "done" => finish'[g] = "done"
                                   /\ finish[g] # "idle" => finish'[g] # "idle"
<1>2. ASSUME UNCHANGED finish PROVE GoOn
  BY <1>2
<1>3. ASSUME NEW g \in Gens, Loses(g) PROVE GoOn
  BY <1>3 DEF Loses
<1>4. ASSUME NEW g \in Gens, finish[g] \notin {"done"}, NEW p, p # "idle",
             finish' = [finish EXCEPT ![g] = p]
      PROVE  GoOn
  BY <1>1, <1>4 DEF FieldTypes
<1>5. CASE UNCHANGED vars
  BY <1>2, <1>5 DEF vars, finishing
<1>6. ASSUME NEW u \in Users, OpenWithContext(u) \/ closeGateway(u) PROVE GoOn
  BY <1>2, <1>6 DEF OpenWithContext, closeGateway, finishing
<1>7. ASSUME NEW u \in Users, CloseStep(u) PROVE GoOn
  <2>1. CASE CloseFinishes(u)
    <3>1. CASE FinishCritical(cur[u], Canceled)
      BY <1>3, <2>1, <3>1, HoldersLose, Names DEF CloseFinishes
    <3> QED BY <1>2, <2>1, <3>1 DEF CloseFinishes, finishing
  <2> QED BY <1>2, <1>7, <2>1
          DEF CloseStep, CloseLegacy, CloseDrains, CloseWithCode, finishing
<1>8. ASSUME NEW c \in Callers, FinishAttempt(c) PROVE GoOn
  <2>1. CASE FinishCritical(cur[c], res[c])
    BY <1>3, <1>8, <2>1, HoldersLose DEF FinishAttempt
  <2> QED BY <1>2, <1>8, <2>1 DEF FinishAttempt, finishing
<1>9. ASSUME NEW c \in Callers, abortGatewayGeneration(c) PROVE GoOn
  <2>1. CASE AbortCritical(cur[c])
    <3>1. cur[c] \in Gens
      BY <1>1, <1>9, BoundsAssumption DEF abortGatewayGeneration, IInv, CoreInv,
         Placement, HoldsGeneration, FieldTypes, Gens
    <3> QED BY <1>4, <2>1, <3>1 DEF AbortCritical
  <2> QED BY <1>2, <1>9, <2>1 DEF abortGatewayGeneration, finishing
<1>10. ASSUME NEW c \in Callers,
              \/ beginGatewayGeneration(c) \/ Dial(c) \/ attachGatewayWebsocket(c)
              \/ HelloReadFails(c) \/ ReceiveHello(c) \/ WaitReady(c)
              \/ authenticateGatewayGeneration(c) \/ activateGatewayGeneration(c)
              \/ ActivateDrains(c) \/ waitGatewayContext(c) \/ HandleResult(c)
              \/ stopGatewayLifecycle(c) \/ EndReconnect(c)
       PROVE  GoOn
  BY <1>2, <1>10
     DEF beginGatewayGeneration, Dial, attachGatewayWebsocket, HelloReadFails,
         ReceiveHello, WaitReady, authenticateGatewayGeneration,
         activateGatewayGeneration, ActivateDrains, waitGatewayContext,
         HandleResult, stopGatewayLifecycle, EndReconnect, finishing
<1>11. ASSUME NEW g \in Gens,
              ReadReady(g) \/ ReadLoss(g) \/ ReadClosed(g) \/ PublishReady(g)
       PROVE  GoOn
  BY <1>2, <1>11 DEF ReadReady, ReadLoss, ReadClosed, PublishReady, finishing
<1>12. ASSUME NEW g \in Gens, ListenerFinishes(g) \/ HeartbeatFails(g) \/ Watch(g)
       PROVE  GoOn
  BY <1>2, <1>3, <1>12, ReadersLose DEF finishing
<1>13. ASSUME NEW g \in Gens, FinishStep(g) PROVE GoOn
  <2>1. /\ finish[g] \in {"close", "drain", "handling", "reconnect"}
        /\ \E p \in {"drain", "handling", "reconnect", "done"} :
              finish' = [finish EXCEPT ![g] = p]
    BY <1>13 DEF FinishStep, FinishCloses, FinishDrains, startGatewayReconnect,
                 Advance, AfterDrain
  <2> QED BY <1>4, <2>1
<1>14. CASE \E l \in Lives : CancelContext(l)
  BY <1>2, <1>14 DEF CancelContext, finishing
<1> QED
  BY <1>5, <1>6, <1>7, <1>8, <1>9, <1>10, <1>11, <1>12, <1>13, <1>14
     DEF Next, CallerStep, OpenStep, ListenerStep

(* A reconnect goroutine is started by the last step of its finish.        *)
LEMMA StartedKeeps == ASSUME IInv, Started, [Next]_vars PROVE Started'
<1>1. FieldTypes
  BY FieldsTyped
<1>2. \A g \in Gens : finish[g] = "done" => finish'[g] = "done"
  BY PhasesGoOn
<1>3. ASSUME \A g \in Gens : \/ pc'[g] = pc[g]
                             \/ pc[g] # "idle" /\ pc'[g] \in HoldsLifetime \cup {"idle"}
      PROVE  Started'
  BY <1>2, <1>3 DEF Started
<1>4. ASSUME NEW u \in Users, NEW st, pc' = [pc EXCEPT ![u] = st] PROVE Started'
  <2>1. \A g \in Gens : pc'[g] = pc[g]
    BY <1>1, <1>4, Names DEF FieldTypes
  <2> QED BY <1>3, <2>1
<1>5. ASSUME NEW c \in Callers, NEW st \in HoldsLifetime \cup {"idle"},
             pc[c] # "idle", pc' = [pc EXCEPT ![c] = st]
      PROVE  Started'
  <2>1. \A g \in Gens : g = c \/ pc'[g] = pc[g]
    BY <1>1, <1>5, Names DEF FieldTypes
  <2>2. pc'[c] = st
    BY <1>1, <1>5 DEF FieldTypes
  <2> QED BY <1>3, <1>5, <2>1, <2>2
<1>6. ASSUME UNCHANGED pc PROVE Started'
  BY <1>3, <1>6
<1>7. CASE UNCHANGED vars
  BY <1>6, <1>7 DEF vars, callers
<1>8. ASSUME NEW u \in Users, OpenWithContext(u) \/ closeGateway(u) \/ CloseStep(u)
      PROVE  Started'
  BY <1>4, <1>6, <1>8
     DEF OpenWithContext, closeGateway, CloseStep, CloseFinishes, CloseLegacy,
         CloseDrains, CloseWithCode, Exit, Return, Goto
<1>9. ASSUME NEW c \in Callers, CallerStep(c) \/ ReceiveHello(c) PROVE Started'
  <2>1. CASE \/ beginGatewayGeneration(c) \/ Dial(c) \/ attachGatewayWebsocket(c)
             \/ abortGatewayGeneration(c) \/ HelloReadFails(c) \/ ReceiveHello(c)
             \/ authenticateGatewayGeneration(c) \/ activateGatewayGeneration(c)
    BY <1>5, <2>1
       DEF beginGatewayGeneration, Dial, attachGatewayWebsocket,
           abortGatewayGeneration, HelloReadFails, ReceiveHello,
           authenticateGatewayGeneration, activateGatewayGeneration, Return, Goto,
           HoldsLifetime
  <2>2. CASE WaitReady(c)
    <3>1. /\ pc[c] = "wait"
          /\ \E st \in {"activate", "result", "finish"} : pc' = [pc EXCEPT ![c] = st]
      BY <2>2 DEF WaitReady, Return, Goto
    <3> QED BY <1>5, <3>1 DEF HoldsLifetime
  <2>3. CASE ActivateDrains(c) \/ FinishAttempt(c)
    BY <1>5, <1>6, <2>3 DEF ActivateDrains, FinishAttempt, Goto, HoldsLifetime
  <2>4. CASE \/ HandleResult(c) \/ waitGatewayContext(c)
             \/ stopGatewayLifecycle(c) \/ EndReconnect(c)
    <3>1. /\ pc[c] # "idle"
          /\ \E st \in {"begin", "defer", "stop", "backoff", "idle"} :
                pc' = [pc EXCEPT ![c] = st]
      BY <2>4 DEF HandleResult, waitGatewayContext, stopGatewayLifecycle,
                  EndReconnect, Exit, Return, Goto, Leave
    <3> QED BY <1>5, <3>1 DEF HoldsLifetime
  <2> QED BY <1>9, <2>1, <2>2, <2>3, <2>4 DEF CallerStep, OpenStep
<1>10. ASSUME NEW g \in Gens, startGatewayReconnect(g) PROVE Started'
  <2>1. CASE StartReconnect(g)
    <3>1. pc'[g] = "backoff" /\ \A h \in Gens : h # g => pc'[h] = pc[h]
      BY <1>1, <2>1, Names DEF StartReconnect, Return, Goto, FieldTypes
    <3>2. finish'[g] = "done"
      BY <1>1, <1>10 DEF startGatewayReconnect, Advance, FieldTypes
    <3> QED BY <1>2, <3>1, <3>2 DEF Started, HoldsLifetime
  <2> QED BY <1>6, <1>10, <2>1 DEF startGatewayReconnect, SkipReconnect, callers
<1>11. ASSUME NEW g \in Gens, ListenerFinishes(g) \/ HeartbeatFails(g) \/ Watch(g)
       PROVE  Started'
  BY <1>6, <1>11, ReadersLose DEF callers
<1>12. ASSUME NEW g \in Gens,
              \/ ReadReady(g) \/ ReadLoss(g) \/ ReadClosed(g) \/ PublishReady(g)
              \/ FinishCloses(g) \/ FinishDrains(g)
       PROVE  Started'
  BY <1>6, <1>12 DEF ReadReady, ReadLoss, ReadClosed, PublishReady, FinishCloses,
                     FinishDrains, callers
<1>13. CASE \E l \in Lives : CancelContext(l)
  BY <1>6, <1>13 DEF CancelContext, callers
<1> QED
  BY <1>7, <1>8, <1>9, <1>10, <1>11, <1>12, <1>13
     DEF Next, ListenerStep, FinishStep

(* Only a finish offers a failure to the opener.                           *)
LEMMA OfferedKeeps == ASSUME IInv, Offered, [Next]_vars PROVE Offered'
<1>1. FieldTypes
  BY FieldsTyped
<1>2. \A g \in Gens : finish[g] # "idle" => finish'[g] # "idle"
  BY PhasesGoOn
<1>3. ASSUME \A g \in Gens : \/ ready'[g] \in {ready[g], NoResult, Success}
                             \/ finish'[g] # "idle"
      PROVE  Offered'
  BY <1>2, <1>3 DEF Offered
<1>4. ASSUME UNCHANGED ready PROVE Offered'
  BY <1>3, <1>4
<1>5. ASSUME NEW g \in Gens, Loses(g) PROVE Offered'
  <2>1. \A h \in Gens : ready'[h] = ready[h] \/ finish'[h] # "idle"
    BY <1>5 DEF Loses
  <2> QED BY <1>3, <2>1
<1>6. ASSUME NEW g, NEW r \in {NoResult, Success}, ready' = [ready EXCEPT ![g] = r]
      PROVE  Offered'
  <2>1. \A h \in Gens : ready'[h] = ready[h] \/ ready'[h] = r
    BY <1>1, <1>6 DEF FieldTypes
  <2> QED BY <1>3, <2>1
<1>7. CASE UNCHANGED vars
  BY <1>4, <1>7 DEF vars, conns
<1>8. ASSUME NEW u \in Users, OpenWithContext(u) \/ closeGateway(u) \/ CloseStep(u)
      PROVE  Offered'
  <2>1. CASE CloseFinishes(u)
    <3>1. CASE FinishCritical(cur[u], Canceled)
      BY <1>5, <2>1, <3>1, HoldersLose, Names DEF CloseFinishes
    <3> QED BY <1>4, <2>1, <3>1 DEF CloseFinishes, conns
  <2> QED BY <1>4, <1>8, <2>1
          DEF OpenWithContext, closeGateway, CloseStep, CloseLegacy, CloseDrains,
              CloseWithCode, conns
<1>9. ASSUME NEW c \in Callers, CallerStep(c) \/ ReceiveHello(c) PROVE Offered'
  <2>1. CASE FinishAttempt(c)
    <3>1. CASE FinishCritical(cur[c], res[c])
      BY <1>5, <2>1, <3>1, HoldersLose DEF FinishAttempt
    <3> QED BY <1>4, <2>1, <3>1 DEF FinishAttempt, conns
  <2>2. CASE abortGatewayGeneration(c)
    BY <1>4, <2>2 DEF abortGatewayGeneration, AbortCritical, conns
  <2>3. CASE WaitReady(c)
    BY <1>4, <1>6, <2>3 DEF WaitReady
  <2>4. CASE \/ beginGatewayGeneration(c) \/ Dial(c) \/ attachGatewayWebsocket(c)
             \/ HelloReadFails(c) \/ ReceiveHello(c) \/ authenticateGatewayGeneration(c)
             \/ activateGatewayGeneration(c) \/ ActivateDrains(c) \/ HandleResult(c)
             \/ waitGatewayContext(c) \/ stopGatewayLifecycle(c) \/ EndReconnect(c)
    BY <1>4, <2>4
       DEF beginGatewayGeneration, Dial, attachGatewayWebsocket, HelloReadFails,
           ReceiveHello, authenticateGatewayGeneration, activateGatewayGeneration,
           ActivateDrains, HandleResult, waitGatewayContext, stopGatewayLifecycle,
           EndReconnect, conns
  <2> QED BY <1>9, <2>1, <2>2, <2>3, <2>4 DEF CallerStep, OpenStep
<1>10. ASSUME NEW g \in Gens, PublishReady(g) PROVE Offered'
  BY <1>4, <1>6, <1>10 DEF PublishReady
<1>11. ASSUME NEW g \in Gens, ListenerFinishes(g) \/ HeartbeatFails(g) \/ Watch(g)
       PROVE  Offered'
  BY <1>4, <1>5, <1>11, ReadersLose DEF conns
<1>12. ASSUME NEW g \in Gens,
              \/ ReadReady(g) \/ ReadLoss(g) \/ ReadClosed(g) \/ FinishStep(g)
       PROVE  Offered'
  BY <1>4, <1>12 DEF ReadReady, ReadLoss, ReadClosed, FinishStep, FinishCloses,
                     FinishDrains, startGatewayReconnect, conns
<1>13. CASE \E l \in Lives : CancelContext(l)
  BY <1>4, <1>13 DEF CancelContext, conns
<1> QED
  BY <1>7, <1>8, <1>9, <1>10, <1>11, <1>12, <1>13 DEF Next, ListenerStep

-----------------------------------------------------------------------------
(* The queue of events.                                                    *)

(* NoStrandedEvent says the same of the sets of handling goroutines.       *)
LEMMA DrainingSays == Draining <=> NoStrandedEvent
<1>1. ASSUME Draining PROVE NoStrandedEvent
  BY <1>1 DEF Draining, NoStrandedEvent, HandlingStates, DrainStates
<1>2. ASSUME NoStrandedEvent PROVE Draining
  BY <1>2 DEF Draining, NoStrandedEvent, HandlingStates, DrainStates
<1> QED BY <1>1, <1>2

(* A step that drains nothing: whoever handles goes on, and who appends is *)
(* about to drain.                                                         *)
Waiting == \/ \E g \in Gens : finish[g] \in {"close", "drain"}
           \/ \E c \in Callers : pc[c] \in DrainStates
LEMMA UndrainedKeeps ==
    ASSUME Draining, dispatching' = dispatching,
           \A c \in Callers : pc'[c] \in HandlingStates <=> pc[c] \in HandlingStates,
           \A g \in Gens : finish'[g] = "handling" <=> finish[g] = "handling",
           Waiting' \/ (events' = events /\ ~Waiting)
    PROVE  Draining'
BY DEF Draining, Waiting

(* A drain starts when nobody handles, and ends with an empty queue.       *)
LEMMA DrainKeeps ==
    ASSUME IInv, Draining,
           NEW before \in BOOLEAN, NEW after \in BOOLEAN, NEW waits \in BOOLEAN,
           \/ ~before /\ after /\ DrainStarts
           \/ ~before /\ ~after /\ DrainSkips
           \/ before /\ after /\ DrainContinues
           \/ before /\ ~after /\ DrainEnds,
           NEW mine,
           \/ mine \in Gens /\ (before <=> finish[mine] = "handling")
                /\ (after <=> finish'[mine] = "handling")
                /\ (\A g \in Gens : g # mine => finish'[g] = finish[g])
                /\ UNCHANGED pc
           \/ mine \in Callers /\ (before <=> pc[mine] \in HandlingStates)
                /\ (after <=> pc'[mine] \in HandlingStates)
                /\ (\A c \in Callers : c # mine => pc'[c] = pc[c])
                /\ UNCHANGED finish
    PROVE  Draining'
<1>1. dispatching \in BOOLEAN
  BY FieldsTyped DEF FieldTypes
<1>2. CASE ~before /\ after
  <2>1. ~dispatching /\ dispatching'
    BY <1>2 DEF DrainStarts, DispatchNext
  <2>2. \A g \in Gens : finish[g] # "handling"
    BY <2>1 DEF Draining
  <2>3. \A c \in Callers : pc[c] \notin HandlingStates
    BY <2>1 DEF Draining
  <2> QED BY <1>2, <2>1, <2>2, <2>3 DEF Draining
<1>3. CASE ~before /\ ~after
  <2>1. UNCHANGED queue /\ (dispatching \/ events = <<>>)
    BY <1>3 DEF DrainSkips
  <2> QED BY <1>3, <2>1 DEF Draining, queue
<1>4. CASE before /\ after
  <2>1. dispatching'
    BY <1>4 DEF DrainContinues, DispatchNext
  <2> QED BY <1>4, <2>1 DEF Draining
<1>5. CASE before /\ ~after
  <2>1. ~dispatching' /\ events' = <<>>
    BY <1>5 DEF DrainEnds
  <2> QED BY <1>5, <2>1 DEF Draining
<1> QED BY <1>2, <1>3, <1>4, <1>5

(* Callers that neither drain nor come to it.                              *)
DrainSide == HandlingStates \cup DrainStates
LEMMA CallerDrainsNothing ==
    ASSUME IInv, Draining, UNCHANGED queue,
           NEW c \in Callers, NEW st, pc' = [pc EXCEPT ![c] = st],
           pc[c] \notin DrainSide, st \notin DrainSide,
           \A g \in Gens : /\ finish'[g] = "handling" <=> finish[g] = "handling"
                           /\ finish'[g] \in {"close", "drain"}
                                <=> finish[g] \in {"close", "drain"}
    PROVE  Draining'
<1>1. pc \in [Callers -> CallerStates]
  BY FieldsTyped DEF FieldTypes
<1>2. \A d \in Callers : pc'[d] = pc[d] \/ (d = c /\ pc'[d] = st)
  BY <1>1
<1>3. \A d \in Callers : /\ pc'[d] \in HandlingStates <=> pc[d] \in HandlingStates
                         /\ pc'[d] \in DrainStates <=> pc[d] \in DrainStates
  BY <1>2 DEF DrainSide
<1>4. Waiting' <=> Waiting
  BY <1>3 DEF Waiting
<1> QED BY <1>3, <1>4, UndrainedKeeps DEF queue

LEMMA FinishDrainsNothing ==
    ASSUME IInv, Draining, NEW g \in Gens, Loses(g), UNCHANGED callers
    PROVE  Draining'
<1>1. \A h \in Gens : finish'[h] = "handling" <=> finish[h] = "handling"
  BY DEF Loses
<1>2. Waiting'
  BY DEF Loses, Waiting
<1> QED BY <1>1, <1>2, UndrainedKeeps DEF Loses, callers

LEMMA NothingDrains ==
    ASSUME Draining, UNCHANGED <<queue, finish, pc>> PROVE Draining'
BY DEF Draining, queue

(* Every step keeps the queue in order.                                    *)
LEMMA DrainingKeeps ==
    ASSUME IInv, Started, Draining, [Next]_vars PROVE Draining'
<1>1. FieldTypes
  BY FieldsTyped
<1> USE DEF DrainSide, HandlingStates, DrainStates
<1>2. CASE UNCHANGED vars
  BY <1>2, NothingDrains DEF vars, finishing, callers
<1>3. ASSUME NEW u \in Users, OpenWithContext(u) \/ closeGateway(u) PROVE Draining'
  <2>1. /\ pc[u] = "idle" /\ UNCHANGED <<queue, finish>>
        /\ \E st \in {"begin", "closing", "compat"} : pc' = [pc EXCEPT ![u] = st]
    BY <1>3 DEF OpenWithContext, closeGateway, Goto, finishing
  <2> QED BY <2>1, CallerDrainsNothing, Names
<1>4. ASSUME NEW u \in Users, CloseStep(u) PROVE Draining'
  <2>1. CASE CloseFinishes(u)
    <3>1. CASE FinishCritical(cur[u], Canceled)
      <4>1. cur[u] \in Gens /\ Loses(cur[u])
        BY <2>1, <3>1, HoldersLose, Names DEF CloseFinishes
      <4>2. UNCHANGED callers
        BY <2>1, <4>1 DEF CloseFinishes, Loses, callers
      <4> QED BY <4>1, <4>2, FinishDrainsNothing
    <3>2. CASE ~FinishCritical(cur[u], Canceled)
      BY <2>1, <3>2, CallerDrainsNothing, Names DEF CloseFinishes, Goto, finishing
    <3> QED BY <3>1, <3>2
  <2>2. CASE CloseLegacy(u)
    <3>1. pc[u] = "compat" /\ UNCHANGED <<finish, dispatching, lastEvent>>
      BY <2>2 DEF CloseLegacy, finishing
    <3>2. CASE pc' = [pc EXCEPT ![u] = "closeDrain"]
      <4>1. pc'[u] = "closeDrain" /\ \A c \in Callers : c # u => pc'[c] = pc[c]
        BY <1>1, <3>2, Names DEF FieldTypes
      <4>2. Waiting'
        BY <4>1, Names DEF Waiting
      <4>3. \A c \in Callers : pc'[c] \in HandlingStates <=> pc[c] \in HandlingStates
        BY <3>1, <4>1
      <4> QED BY <3>1, <4>2, <4>3, UndrainedKeeps
    <3>3. CASE pc' = [pc EXCEPT ![u] = "closed"] /\ UNCHANGED events
      BY <3>1, <3>3, CallerDrainsNothing, Names DEF queue
    <3> QED BY <2>2, <3>2, <3>3 DEF CloseLegacy, Goto
  <2>3. CASE CloseDrains(u)
    <3>1. UNCHANGED finish
      BY <2>3 DEF CloseDrains, finishing
    <3>2. \/ \E st \in {"closeHandling", "closed"} : pc' = [pc EXCEPT ![u] = st]
          \/ pc' = pc
      BY <2>3 DEF CloseDrains, Goto
    <3>3. \A c \in Callers : c # u => pc'[c] = pc[c]
      BY <1>1, <3>2, Names DEF FieldTypes
    <3>4. \/ /\ pc[u] = "closeDrain"
             /\ \/ DrainStarts /\ pc'[u] = "closeHandling"
                \/ DrainSkips /\ pc'[u] = "closed"
          \/ /\ pc[u] = "closeHandling"
             /\ \/ DrainContinues /\ pc'[u] = "closeHandling"
                \/ DrainEnds /\ pc'[u] = "closed"
      BY <1>1, <2>3, Names DEF CloseDrains, Goto, FieldTypes
    <3> QED BY <3>1, <3>3, <3>4, DrainKeeps, Names
  <2>4. CASE CloseWithCode(u)
    BY <2>4, CallerDrainsNothing, Names DEF CloseWithCode, Exit, Return, Goto, finishing
  <2> QED BY <1>4, <2>1, <2>2, <2>3, <2>4 DEF CloseStep
<1>5. ASSUME NEW c \in Callers, CallerStep(c) \/ ReceiveHello(c) PROVE Draining'
  <2>1. CASE \/ beginGatewayGeneration(c) \/ Dial(c) \/ attachGatewayWebsocket(c)
             \/ HelloReadFails(c) \/ ReceiveHello(c) \/ authenticateGatewayGeneration(c)
             \/ HandleResult(c) \/ waitGatewayContext(c)
             \/ stopGatewayLifecycle(c) \/ EndReconnect(c)
    <3>1. /\ pc[c] \notin DrainSide /\ UNCHANGED <<queue, finish>>
          /\ \E st \in CallerStates \ DrainSide : pc' = [pc EXCEPT ![c] = st]
      <4>1. CASE \/ beginGatewayGeneration(c) \/ Dial(c) \/ attachGatewayWebsocket(c)
                 \/ HelloReadFails(c) \/ ReceiveHello(c)
                 \/ authenticateGatewayGeneration(c)
        BY <4>1
           DEF beginGatewayGeneration, Dial, attachGatewayWebsocket, HelloReadFails,
               ReceiveHello, authenticateGatewayGeneration, Return, Goto,
               finishing, CallerStates
      <4>2. CASE \/ HandleResult(c) \/ waitGatewayContext(c)
                 \/ stopGatewayLifecycle(c) \/ EndReconnect(c)
        <5>1. \E st \in {"begin", "defer", "stop", "backoff", "idle"} :
                  pc' = [pc EXCEPT ![c] = st]
          BY <4>2 DEF HandleResult, waitGatewayContext, stopGatewayLifecycle,
                      EndReconnect, Exit, Return, Goto, Leave
        <5>2. pc[c] \notin DrainSide /\ UNCHANGED <<queue, finish>>
          BY <4>2 DEF HandleResult, waitGatewayContext, stopGatewayLifecycle,
                      EndReconnect, finishing
        <5> QED BY <5>1, <5>2 DEF CallerStates
      <4> QED BY <2>1, <4>1, <4>2
    <3> QED BY <3>1, CallerDrainsNothing
  <2>2. CASE WaitReady(c)
    <3>1. /\ pc[c] = "wait" /\ UNCHANGED <<queue, finish>>
          /\ \E st \in {"activate", "result", "finish"} : pc' = [pc EXCEPT ![c] = st]
      BY <2>2 DEF WaitReady, Return, Goto, finishing
    <3> QED BY <3>1, CallerDrainsNothing
  <2>3. CASE FinishAttempt(c)
    <3>1. CASE FinishCritical(cur[c], res[c])
      <4>1. cur[c] \in Gens /\ Loses(cur[c])
        BY <2>3, <3>1, HoldersLose DEF FinishAttempt
      <4>2. UNCHANGED callers
        BY <2>3, <4>1 DEF FinishAttempt, Loses, callers
      <4> QED BY <4>1, <4>2, FinishDrainsNothing
    <3>2. CASE ~FinishCritical(cur[c], res[c])
      BY <2>3, <3>2, CallerDrainsNothing DEF FinishAttempt, Goto, finishing
    <3> QED BY <3>1, <3>2
  <2>4. CASE abortGatewayGeneration(c)
    <3>1. /\ pc[c] = "abort" /\ pc' = [pc EXCEPT ![c] = "result"]
          /\ UNCHANGED queue
      BY <2>4 DEF abortGatewayGeneration, AbortCritical, Goto
    <3>2. \/ UNCHANGED finish
          \/ finish[cur[c]] = "idle" /\ finish' = [finish EXCEPT ![cur[c]] = "done"]
      BY <2>4 DEF abortGatewayGeneration, AbortCritical, finishing
    <3>3. \A g \in Gens : /\ finish'[g] = "handling" <=> finish[g] = "handling"
                          /\ finish'[g] \in {"close", "drain"}
                               <=> finish[g] \in {"close", "drain"}
      BY <1>1, <3>2 DEF FieldTypes
    <3> QED BY <3>1, <3>3, CallerDrainsNothing
  <2>5. CASE activateGatewayGeneration(c)
    <3>1. pc[c] = "activate" /\ UNCHANGED <<finish, dispatching, lastEvent>>
      BY <2>5 DEF activateGatewayGeneration, finishing
    <3>2. CASE pc' = [pc EXCEPT ![c] = "drain"]
      <4>1. pc'[c] = "drain" /\ \A d \in Callers : d # c => pc'[d] = pc[d]
        BY <1>1, <3>2 DEF FieldTypes
      <4>2. Waiting'
        BY <4>1 DEF Waiting
      <4>3. \A d \in Callers : pc'[d] \in HandlingStates <=> pc[d] \in HandlingStates
        BY <3>1, <4>1
      <4> QED BY <3>1, <4>2, <4>3, UndrainedKeeps
    <3>3. CASE pc' = [pc EXCEPT ![c] = "finish"] /\ UNCHANGED events
      BY <3>1, <3>3, CallerDrainsNothing DEF queue
    <3> QED BY <2>5, <3>2, <3>3 DEF activateGatewayGeneration, Return, Goto
  <2>6. CASE ActivateDrains(c)
    <3>1. UNCHANGED finish
      BY <2>6 DEF ActivateDrains, finishing
    <3>2. \/ \E st \in {"handling", "result"} : pc' = [pc EXCEPT ![c] = st]
          \/ pc' = pc
      BY <2>6 DEF ActivateDrains, Goto
    <3>3. \A d \in Callers : d # c => pc'[d] = pc[d]
      BY <1>1, <3>2 DEF FieldTypes
    <3>4. \/ /\ pc[c] = "drain"
             /\ \/ DrainStarts /\ pc'[c] = "handling"
                \/ DrainSkips /\ pc'[c] = "result"
          \/ /\ pc[c] = "handling"
             /\ \/ DrainContinues /\ pc'[c] = "handling"
                \/ DrainEnds /\ pc'[c] = "result"
      BY <1>1, <2>6 DEF ActivateDrains, Goto, FieldTypes
    <3> QED BY <3>1, <3>3, <3>4, DrainKeeps
  <2> QED BY <1>5, <2>1, <2>2, <2>3, <2>4, <2>5, <2>6 DEF CallerStep, OpenStep
<1>6. ASSUME NEW g \in Gens, ListenerFinishes(g) \/ HeartbeatFails(g) \/ Watch(g)
      PROVE  Draining'
  BY <1>6, ReadersLose, FinishDrainsNothing, NothingDrains DEF callers, finishing
<1>7. ASSUME NEW g \in Gens,
             ReadReady(g) \/ ReadLoss(g) \/ ReadClosed(g) \/ PublishReady(g)
      PROVE  Draining'
  BY <1>7, NothingDrains
     DEF ReadReady, ReadLoss, ReadClosed, PublishReady, callers, finishing
<1>8. ASSUME NEW g \in Gens, FinishCloses(g) PROVE Draining'
  <2>1. UNCHANGED <<pc, queue>> /\ finish[g] = "close"
        /\ finish' = [finish EXCEPT ![g] = "drain"]
    BY <1>8 DEF FinishCloses, Advance, callers
  <2>2. Waiting'
    BY <1>1, <2>1 DEF Waiting, FieldTypes
  <2>3. \A h \in Gens : finish'[h] = "handling" <=> finish[h] = "handling"
    BY <1>1, <2>1 DEF FieldTypes
  <2> QED BY <2>1, <2>2, <2>3, UndrainedKeeps DEF queue
<1>9. ASSUME NEW g \in Gens, FinishDrains(g) PROVE Draining'
  <2>1. UNCHANGED pc
    BY <1>9 DEF FinishDrains, callers
  <2>2. AfterDrain(g) \in {"reconnect", "done"}
    BY DEF AfterDrain
  <2>3. \A h \in Gens : h # g => finish'[h] = finish[h]
    BY <1>1, <1>9 DEF FinishDrains, Advance, FieldTypes
  <2>4. \/ /\ finish[g] = "drain"
           /\ \/ DrainStarts /\ finish'[g] = "handling"
              \/ DrainSkips /\ finish'[g] # "handling"
        \/ /\ finish[g] = "handling"
           /\ \/ DrainContinues /\ finish'[g] = "handling"
              \/ DrainEnds /\ finish'[g] # "handling"
    BY <1>1, <1>9, <2>2 DEF FinishDrains, Advance, FieldTypes
  <2> QED BY <2>1, <2>3, <2>4, DrainKeeps
<1>10. ASSUME NEW g \in Gens, startGatewayReconnect(g) PROVE Draining'
  <2>1. /\ finish[g] = "reconnect" /\ finish' = [finish EXCEPT ![g] = "done"]
        /\ UNCHANGED queue
    BY <1>10 DEF startGatewayReconnect, Advance
  <2>2. pc[g] = "idle"
    BY <2>1 DEF Started
  <2>3. \E st \in {"idle", "backoff"} : pc' = [pc EXCEPT ![g] = st]
    <3>1. pc = [pc EXCEPT ![g] = "idle"]
      BY <1>1, <2>2 DEF FieldTypes
    <3> QED BY <1>10, <3>1
        DEF startGatewayReconnect, StartReconnect, SkipReconnect, Return, Goto, callers
  <2>4. \A h \in Gens : /\ finish'[h] = "handling" <=> finish[h] = "handling"
                        /\ finish'[h] \in {"close", "drain"}
                             <=> finish[h] \in {"close", "drain"}
    BY <1>1, <2>1 DEF FieldTypes
  <2> QED BY <2>1, <2>2, <2>3, <2>4, CallerDrainsNothing, Names
<1>11. CASE \E l \in Lives : CancelContext(l)
  BY <1>11, NothingDrains DEF CancelContext, callers, finishing
<1> QED
  BY <1>2, <1>3, <1>4, <1>5, <1>6, <1>7, <1>8, <1>9, <1>10, <1>11
     DEF Next, ListenerStep, FinishStep

-----------------------------------------------------------------------------
(* What the step of a caller changes of the callers: itself only.          *)
Others(c) == \A d \in Callers : d # c =>
    pc'[d] = pc[d] /\ life'[d] = life[d] /\ cur'[d] = cur[d] /\ res'[d] = res[d]

LEMMA OpenersAct ==
    ASSUME IInv, NEW c \in Callers,
           \/ beginGatewayGeneration(c) \/ Dial(c) \/ attachGatewayWebsocket(c)
           \/ abortGatewayGeneration(c) \/ HelloReadFails(c) \/ ReceiveHello(c)
           \/ authenticateGatewayGeneration(c) \/ WaitReady(c)
           \/ activateGatewayGeneration(c) \/ ActivateDrains(c) \/ FinishAttempt(c)
    PROVE  /\ Others(c) /\ life' = life
           /\ pc[c] \in OpeningStates \cup {"begin", "drain", "handling"}
           /\ pc'[c] \in OpeningStates \cup {"drain", "handling", "result"}
           /\ pc[c] # "begin" => cur' = cur
<1>1. FieldTypes
  BY FieldsTyped
<1>2. life' = life
  BY DEF beginGatewayGeneration, Dial, attachGatewayWebsocket,
         abortGatewayGeneration, HelloReadFails, ReceiveHello, WaitReady,
         authenticateGatewayGeneration, activateGatewayGeneration,
         ActivateDrains, FinishAttempt
<1>3. /\ pc[c] \in OpeningStates \cup {"begin", "drain", "handling"}
      /\ \/ pc' = pc /\ pc[c] # "begin"
         \/ \E st \in OpeningStates \cup {"drain", "handling", "result"} :
                pc' = [pc EXCEPT ![c] = st]
  <2>1. CASE \/ beginGatewayGeneration(c) \/ Dial(c) \/ attachGatewayWebsocket(c)
             \/ abortGatewayGeneration(c) \/ HelloReadFails(c) \/ ReceiveHello(c)
             \/ authenticateGatewayGeneration(c) \/ activateGatewayGeneration(c)
    BY <2>1 DEF beginGatewayGeneration, Dial, attachGatewayWebsocket,
         abortGatewayGeneration, HelloReadFails, ReceiveHello,
         authenticateGatewayGeneration, activateGatewayGeneration, Return, Goto,
         OpeningStates, BeforeAttach
  <2>2. CASE WaitReady(c)
    <3>1. /\ pc[c] = "wait"
          /\ \E st \in {"activate", "result", "finish"} : pc' = [pc EXCEPT ![c] = st]
      BY <2>2 DEF WaitReady, Return, Goto
    <3> QED BY <3>1 DEF OpeningStates
  <2>3. CASE ActivateDrains(c) \/ FinishAttempt(c)
    BY <2>3 DEF ActivateDrains, FinishAttempt, Goto, OpeningStates
  <2> QED BY <2>1, <2>2, <2>3
<1>4. res' = res \/ \E r : res' = [res EXCEPT ![c] = r]
  BY DEF beginGatewayGeneration, Dial, attachGatewayWebsocket,
         abortGatewayGeneration, HelloReadFails, ReceiveHello, WaitReady,
         authenticateGatewayGeneration, activateGatewayGeneration,
         ActivateDrains, FinishAttempt, Return
<1>5. /\ cur' = cur \/ \E g : cur' = [cur EXCEPT ![c] = g]
      /\ pc[c] # "begin" => cur' = cur
  BY DEF beginGatewayGeneration, Dial, attachGatewayWebsocket,
         abortGatewayGeneration, HelloReadFails, ReceiveHello, WaitReady,
         authenticateGatewayGeneration, activateGatewayGeneration,
         ActivateDrains, FinishAttempt
<1>6. Others(c)
  BY <1>1, <1>2, <1>3, <1>4, <1>5 DEF Others, FieldTypes
<1>7. pc'[c] \in OpeningStates \cup {"drain", "handling", "result"}
  BY <1>1, <1>3 DEF FieldTypes
<1> QED BY <1>2, <1>3, <1>5, <1>6, <1>7

LEMMA HandlersAct ==
    ASSUME IInv, NEW c \in Callers,
           \/ HandleResult(c) \/ waitGatewayContext(c)
           \/ stopGatewayLifecycle(c) \/ EndReconnect(c)
    PROVE  /\ Others(c)
           /\ pc[c] \in {"result", "backoff", "stop", "defer"}
           /\ \/ pc'[c] = "idle"
              \/ /\ pc'[c] \in {"backoff", "begin", "stop", "defer"}
                 /\ life'[c] = life[c] /\ cur'[c] = cur[c] /\ res'[c] = res[c]
           /\ pc'[c] \in {"backoff", "begin", "stop"} => Trying(c)
           /\ pc'[c] = "defer" => c \notin Users
<1>1. FieldTypes
  BY FieldsTyped
<1>2. pc[c] \in {"result", "backoff", "stop", "defer"}
  BY DEF HandleResult, waitGatewayContext, stopGatewayLifecycle, EndReconnect
<1>3. CASE Exit(c)
  <2>1. pc'[c] = "idle" /\ Others(c)
    BY <1>1, <1>3 DEF Exit, Return, Goto, Others, FieldTypes
  <2> QED BY <1>2, <2>1
<1>4. CASE UNCHANGED <<life, cur, res>>
  <2>1. PICK st \in {"backoff", "begin", "stop", "defer", "idle"} :
            /\ pc' = [pc EXCEPT ![c] = st]
            /\ st \in {"backoff", "begin", "stop"} => Trying(c)
            /\ st = "defer" => c \notin Users
    <3>1. CASE HandleResult(c)
      <4>1. CASE res[c] = Success /\ c \in Users
        BY <3>1, <4>1 DEF HandleResult, Exit, Return, Goto
      <4>2. CASE res[c] = Success /\ c \notin Users
        BY <3>1, <4>2 DEF HandleResult, Goto
      <4>3. CASE res[c] # Success
        BY <3>1, <4>3 DEF HandleResult, Goto, Leave, Trying
      <4> QED BY <4>1, <4>2, <4>3
    <3>2. CASE waitGatewayContext(c)
      <4>1. pc[c] = "backoff"
        BY <3>2 DEF waitGatewayContext
      <4>2. CASE pc' = [pc EXCEPT ![c] = "begin"]
        BY <4>1, <4>2 DEF Trying
      <4>3. CASE pc' = [pc EXCEPT ![c] = Leave(c)]
        BY <4>1, <4>3 DEF Leave, Trying
      <4> QED BY <3>2, <4>2, <4>3 DEF waitGatewayContext, Goto
    <3>3. CASE stopGatewayLifecycle(c)
      BY <3>3 DEF stopGatewayLifecycle, Exit, Return, Goto
    <3>4. CASE EndReconnect(c)
      BY <3>4 DEF EndReconnect, Exit, Return, Goto
    <3> QED BY <3>1, <3>2, <3>3, <3>4
  <2>2. pc'[c] = st /\ Others(c)
    BY <1>1, <1>4, <2>1 DEF Others, FieldTypes
  <2> QED BY <1>2, <1>4, <2>1, <2>2
<1>5. Exit(c) \/ UNCHANGED <<life, cur, res>>
  BY DEF HandleResult, waitGatewayContext, stopGatewayLifecycle, EndReconnect
<1> QED BY <1>3, <1>4, <1>5

LEMMA UsersAct ==
    ASSUME IInv, NEW u \in Users,
           OpenWithContext(u) \/ closeGateway(u) \/ CloseStep(u)
    PROVE  /\ u \in Callers /\ Others(u)
           /\ pc[u] \in {"idle"} \cup ClosingStates
           /\ pc'[u] \in {"idle", "begin"} \cup ClosingStates
           /\ pc[u] # "idle" /\ pc'[u] # "idle" => life'[u] = life[u] /\ cur'[u] = cur[u]
           /\ pc'[u] = "begin" => pc[u] = "idle"
<1>1. FieldTypes /\ u \in Callers
  BY FieldsTyped, Names
<1>2. ASSUME UNCHANGED <<life, cur, res>>,
             NEW st \in {"begin"} \cup ClosingStates, pc[u] \in {"idle"} \cup ClosingStates,
             st = "begin" => pc[u] = "idle",
             (pc' = pc /\ st = pc[u]) \/ pc' = [pc EXCEPT ![u] = st]
      PROVE  /\ Others(u)
             /\ pc'[u] \in {"idle", "begin"} \cup ClosingStates
             /\ pc[u] # "idle" /\ pc'[u] # "idle" => life'[u] = life[u] /\ cur'[u] = cur[u]
             /\ pc'[u] = "begin" => pc[u] = "idle"
  BY <1>1, <1>2 DEF Others, FieldTypes, ClosingStates
<1>3. CASE OpenWithContext(u)
  <2>1. /\ pc[u] = "idle" /\ pc' = [pc EXCEPT ![u] = "begin"]
        /\ UNCHANGED <<cur, res>> /\ life' = [life EXCEPT ![u] = lives + 1]
    BY <1>3 DEF OpenWithContext, Goto
  <2> QED BY <1>1, <2>1 DEF Others, FieldTypes, ClosingStates
<1>4. CASE closeGateway(u)
  <2>1. /\ pc[u] = "idle" /\ res' = res
        /\ \E st \in {"closing", "compat"} : pc' = [pc EXCEPT ![u] = st]
        /\ life' = [life EXCEPT ![u] = gatewayLifecycle]
        /\ cur' = [cur EXCEPT ![u] = gatewayConnection]
    BY <1>4 DEF closeGateway, Goto
  <2> QED BY <1>1, <2>1 DEF Others, FieldTypes, ClosingStates
<1>5. CASE CloseFinishes(u)
  <2>1. /\ pc[u] = "closing" /\ UNCHANGED <<life, cur, res>>
        /\ pc' = pc \/ pc' = [pc EXCEPT ![u] = "closed"]
    BY <1>5 DEF CloseFinishes, Goto
  <2> QED BY <1>1, <1>2, <2>1 DEF ClosingStates
<1>6. CASE CloseLegacy(u)
  <2>1. /\ pc[u] = "compat" /\ UNCHANGED <<life, cur, res>>
        /\ \E st \in {"closeDrain", "closed"} : pc' = [pc EXCEPT ![u] = st]
    BY <1>6 DEF CloseLegacy, Goto
  <2> QED BY <1>1, <1>2, <2>1 DEF ClosingStates
<1>7. CASE CloseDrains(u)
  <2>1. /\ pc[u] \in {"closeDrain", "closeHandling"} /\ UNCHANGED <<life, cur, res>>
        /\ pc' = pc \/ \E st \in {"closeHandling", "closed"} : pc' = [pc EXCEPT ![u] = st]
    BY <1>7 DEF CloseDrains, Goto
  <2> QED BY <1>1, <1>2, <2>1 DEF ClosingStates
<1>8. CASE CloseWithCode(u)
  <2>1. pc[u] = "closed" /\ pc'[u] = "idle" /\ Others(u)
    BY <1>1, <1>8 DEF CloseWithCode, Exit, Return, Goto, Others, FieldTypes
  <2> QED BY <1>1, <2>1 DEF ClosingStates
<1> QED BY <1>3, <1>4, <1>5, <1>6, <1>7, <1>8 DEF CloseStep

(* What goroutines other than callers do leaves the callers alone, but for *)
(* the start of a reconnect goroutine.                                     *)
LEMMA GenerationsAct ==
    ASSUME NEW g \in Gens, IInv,
           \/ ReadReady(g) \/ ReadLoss(g) \/ ListenerStep(g) \/ HeartbeatFails(g)
           \/ Watch(g) \/ FinishStep(g) \/ \E l \in Lives : CancelContext(l)
    PROVE  UNCHANGED callers \/ startGatewayReconnect(g)
BY DEF ReadReady, ReadLoss, ListenerStep, ReadClosed, PublishReady, ListenerFinishes,
       HeartbeatFails, Watch, FinishStep, FinishCloses, FinishDrains, CancelContext

LEMMA StandingKeeps ==
    ASSUME IInv, Started, Standing, [Next]_vars PROVE Standing'
<1>1. FieldTypes
  BY FieldsTyped
<1>2. ASSUME NEW c \in Callers, Others(c), pc'[c] = "defer" => c \notin Users,
             pc'[c] \in {"activate", "drain", "handling"} => res'[c] = Success
      PROVE  Standing'
  BY <1>2, Names DEF Standing, Others
<1>3. ASSUME UNCHANGED callers PROVE Standing'
  BY <1>3 DEF Standing, callers
<1>4. CASE UNCHANGED vars
  BY <1>3, <1>4 DEF vars
<1>5. ASSUME NEW u \in Users, OpenWithContext(u) \/ closeGateway(u) \/ CloseStep(u)
      PROVE  Standing'
  BY <1>2, <1>5, UsersAct DEF ClosingStates
<1>6. ASSUME NEW c \in Callers,
             \/ HandleResult(c) \/ waitGatewayContext(c)
             \/ stopGatewayLifecycle(c) \/ EndReconnect(c)
      PROVE  Standing'
  BY <1>2, <1>6, HandlersAct
<1>7. ASSUME NEW c \in Callers,
             \/ beginGatewayGeneration(c) \/ Dial(c) \/ attachGatewayWebsocket(c)
             \/ abortGatewayGeneration(c) \/ HelloReadFails(c) \/ ReceiveHello(c)
             \/ authenticateGatewayGeneration(c) \/ WaitReady(c)
             \/ activateGatewayGeneration(c) \/ ActivateDrains(c) \/ FinishAttempt(c)
      PROVE  Standing'
  <2>1. Others(c) /\ pc'[c] # "defer"
    BY <1>7, OpenersAct DEF OpeningStates, BeforeAttach
  <2>2. pc'[c] \in {"activate", "drain", "handling"} => res'[c] = Success
    <3>1. CASE \/ beginGatewayGeneration(c) \/ Dial(c) \/ attachGatewayWebsocket(c)
               \/ abortGatewayGeneration(c) \/ HelloReadFails(c) \/ ReceiveHello(c)
               \/ authenticateGatewayGeneration(c)
      <4>1. \E st \in {"result", "dial", "attach", "abort", "hello", "finish", "auth",
                       "wait"} : pc' = [pc EXCEPT ![c] = st]
        BY <3>1 DEF beginGatewayGeneration, Dial, attachGatewayWebsocket,
               abortGatewayGeneration, HelloReadFails, ReceiveHello,
               authenticateGatewayGeneration, Return, Goto
      <4> QED BY <1>1, <4>1 DEF FieldTypes
    <3>2. CASE WaitReady(c)
      <4>1. CASE ready[cur[c]] = Success
        BY <1>1, <3>2, <4>1 DEF WaitReady, Return, Goto, FieldTypes
      <4>2. CASE ready[cur[c]] # Success
        <5>1. pc' = [pc EXCEPT ![c] = "result"] \/ pc' = [pc EXCEPT ![c] = "finish"]
          BY <3>2, <4>2 DEF WaitReady, Return, Goto
        <5> QED BY <1>1, <5>1 DEF FieldTypes
      <4> QED BY <4>1, <4>2
    <3>3. CASE activateGatewayGeneration(c)
      <4>1. /\ pc[c] = "activate"
            /\ \/ pc' = [pc EXCEPT ![c] = "finish"]
               \/ pc' = [pc EXCEPT ![c] = "drain"] /\ res' = res
        BY <3>3 DEF activateGatewayGeneration, Return, Goto
      <4> QED BY <1>1, <4>1 DEF FieldTypes, Standing
    <3>4. CASE ActivateDrains(c)
      <4>1. pc[c] \in {"drain", "handling"} /\ res' = res
        BY <3>4 DEF ActivateDrains
      <4> QED BY <4>1 DEF Standing
    <3>5. CASE FinishAttempt(c)
      <4>1. pc[c] = "finish" /\ (pc' = pc \/ pc' = [pc EXCEPT ![c] = "result"])
        BY <3>5 DEF FinishAttempt, Goto
      <4> QED BY <1>1, <4>1 DEF FieldTypes
    <3> QED BY <1>7, <3>1, <3>2, <3>3, <3>4, <3>5
  <2> QED BY <1>2, <2>1, <2>2
<1>8. ASSUME NEW g \in Gens, startGatewayReconnect(g) PROVE Standing'
  <2>1. CASE StartReconnect(g)
    <3>1. Others(g) /\ pc'[g] = "backoff"
      BY <1>1, <2>1, Names DEF StartReconnect, Return, Goto, Others, FieldTypes
    <3> QED BY <1>2, <3>1, Names
  <2> QED BY <1>3, <1>8, <2>1 DEF startGatewayReconnect, SkipReconnect
<1>9. ASSUME NEW g \in Gens,
             \/ ReadReady(g) \/ ReadLoss(g) \/ ListenerStep(g) \/ HeartbeatFails(g)
             \/ Watch(g) \/ FinishStep(g)
      PROVE  Standing'
  BY <1>3, <1>8, <1>9, GenerationsAct
<1>10. CASE \E l \in Lives : CancelContext(l)
  BY <1>3, <1>10 DEF CancelContext
<1> QED BY <1>4, <1>5, <1>6, <1>7, <1>9, <1>10 DEF Next, CallerStep, OpenStep

-----------------------------------------------------------------------------
(* Who reconnects, opens and stops.                                        *)

(* Without a lifetime nobody works for it.                                 *)
LEMMA NoLifetime ==
    ASSUME IInv', Started', gatewayLifecycle' = 0
    PROVE  /\ AtMostOneReconnector' /\ Working'
           /\ \A c \in Callers : ~TriesFor(c)'
           /\ \A g \in Gens : ~Pending(g)'
<1>1. \A c \in Callers : pc'[c] \in HoldsLifetime => life'[c] # 0
  BY Names DEF IInv, CoreInv, Placement
<1>2. \A g \in Gens : finish'[g] # "idle" => lifeOf'[g] # 0
  <2>1. \A g \in Gens : finish'[g] # "idle" => g <= gens'
    BY BoundsAssumption DEF IInv, CoreInv, Placement, TypeOK, Gens
  <2> QED BY <2>1, Names DEF IInv, CoreInv, Placement
<1>3. \A c \in Callers : ~TriesFor(c)'
  BY <1>1 DEF TriesFor, Trying, OpeningStates, BeforeAttach, HoldsLifetime
<1>4. \A g \in Gens : ~Pending(g)'
  BY <1>2 DEF Pending
<1>5. AtMostOneReconnector'
  BY <1>1, Names DEF AtMostOneReconnector, Started
<1> QED BY <1>3, <1>4, <1>5 DEF Working

(* A step that starts no reconnect goroutine and no lifetime.              *)
LEMMA ReconnectorsRest ==
    ASSUME IInv', Started', AtMostOneReconnector,
           gatewayLifecycle' = 0
             \/ UNCHANGED <<gatewayLifecycle, gatewayReconnectRunning>>,
           \A g \in Gens : pc'[g] # "idle" => pc[g] # "idle" /\ life'[g] = life[g]
    PROVE  AtMostOneReconnector'
BY NoLifetime DEF AtMostOneReconnector

(* Steps of callers that leave the Session, finishes and connections alone.*)
Steady == UNCHANGED <<session, lifeOf, connected, finish, willReconnect>>
LEMMA SteadyActs ==
    ASSUME NEW c \in Callers,
           \/ Dial(c) \/ attachGatewayWebsocket(c) \/ HelloReadFails(c)
           \/ ReceiveHello(c) \/ authenticateGatewayGeneration(c) \/ WaitReady(c)
           \/ ActivateDrains(c) \/ HandleResult(c) \/ waitGatewayContext(c)
    PROVE  Steady
BY DEF Dial, attachGatewayWebsocket, HelloReadFails, ReceiveHello, WaitReady,
       authenticateGatewayGeneration, ActivateDrains, HandleResult,
       waitGatewayContext, session, conns, finishing, Steady

LEMMA AtMostOneKeeps ==
    ASSUME IInv, Counted, Started, Standing, AtMostOneReconnector,
           IInv', Started', [Next]_vars
    PROVE  AtMostOneReconnector'
<1>1. FieldTypes
  BY FieldsTyped
<1> DEFINE Ends == \/ gatewayLifecycle' = 0
                   \/ UNCHANGED <<gatewayLifecycle, gatewayReconnectRunning>>
<1>2. ASSUME Ends, UNCHANGED callers PROVE AtMostOneReconnector'
  BY <1>2, ReconnectorsRest DEF callers
<1>3. ASSUME Ends, NEW u \in Users, Others(u) PROVE AtMostOneReconnector'
  BY <1>3, ReconnectorsRest, Names DEF Others
<1>4. ASSUME Ends, NEW c \in Callers, Others(c), pc[c] # "idle",
             pc'[c] = "idle" \/ life'[c] = life[c]
      PROVE  AtMostOneReconnector'
  BY <1>4, ReconnectorsRest, Names DEF Others
<1>5. CASE UNCHANGED vars
  BY <1>2, <1>5 DEF vars, session
<1>6. ASSUME NEW u \in Users, OpenWithContext(u) PROVE AtMostOneReconnector'
  <2>1. gatewayLifecycle' = lives + 1
    BY <1>6 DEF OpenWithContext
  <2>2. \A g \in Gens : life'[g] # gatewayLifecycle'
    BY <1>1, <1>6, <2>1, UsersAct, Names DEF Counted, FieldTypes, Others
  <2> QED BY <2>2 DEF AtMostOneReconnector
<1>7. ASSUME NEW u \in Users, closeGateway(u) \/ CloseStep(u)
      PROVE  AtMostOneReconnector'
  <2>1. Ends
    <3>1. CASE closeGateway(u)
      BY <3>1 DEF closeGateway, StopLifecycle
    <3>2. CASE CloseFinishes(u)
      BY <3>2 DEF CloseFinishes, FinishCritical, session
    <3> QED BY <1>7, <3>1, <3>2
            DEF CloseStep, CloseLegacy, CloseDrains, CloseWithCode, session
  <2> QED BY <1>3, <1>7, <2>1, UsersAct
<1>8. ASSUME NEW c \in Callers,
             \/ beginGatewayGeneration(c) \/ Dial(c) \/ attachGatewayWebsocket(c)
             \/ abortGatewayGeneration(c) \/ HelloReadFails(c) \/ ReceiveHello(c)
             \/ authenticateGatewayGeneration(c) \/ WaitReady(c)
             \/ activateGatewayGeneration(c) \/ ActivateDrains(c) \/ FinishAttempt(c)
      PROVE  AtMostOneReconnector'
  <2>1. Ends
    <3>1. CASE beginGatewayGeneration(c) \/ activateGatewayGeneration(c)
      BY <3>1 DEF beginGatewayGeneration, activateGatewayGeneration, session
    <3>2. CASE FinishAttempt(c)
      BY <3>2 DEF FinishAttempt, FinishCritical, session
    <3>3. CASE abortGatewayGeneration(c)
      BY <1>1, <3>3, Zenon DEF abortGatewayGeneration, AbortCritical, session, FieldTypes
    <3> QED BY <1>8, <3>1, <3>2, <3>3, SteadyActs DEF Steady, session
  <2>2. Others(c) /\ life' = life /\ pc[c] # "idle"
    BY <1>8, OpenersAct DEF OpeningStates, BeforeAttach
  <2> QED BY <1>4, <2>1, <2>2
<1>9. ASSUME NEW c \in Callers,
             HandleResult(c) \/ waitGatewayContext(c) \/ stopGatewayLifecycle(c)
      PROVE  AtMostOneReconnector'
  <2>1. Ends
    BY <1>9, SteadyActs DEF Steady, session, stopGatewayLifecycle, StopLifecycle
  <2>2. Others(c) /\ pc[c] # "idle" /\ (pc'[c] = "idle" \/ life'[c] = life[c])
    BY <1>9, HandlersAct
  <2> QED BY <1>4, <2>1, <2>2
<1>10. ASSUME NEW c \in Callers, EndReconnect(c) PROVE AtMostOneReconnector'
  <2>1. /\ pc[c] = "defer" /\ gatewayLifecycle' = gatewayLifecycle
        /\ gatewayLifecycle # life[c] => gatewayReconnectRunning' <=> gatewayReconnectRunning
    BY <1>10 DEF EndReconnect
  <2>2. c \in Gens
    BY <2>1, Names DEF Standing
  <2>3. Others(c) /\ pc'[c] = "idle"
    BY <1>1, <1>10 DEF EndReconnect, Exit, Return, Goto, Others, FieldTypes
  <2>4. ASSUME NEW g \in Gens, pc'[g] # "idle", life'[g] = gatewayLifecycle'
        PROVE  g # c /\ pc[g] # "idle" /\ life[g] = gatewayLifecycle
    BY <2>1, <2>3, <2>4, Names DEF Others
  <2>5. CASE gatewayLifecycle = life[c]
    <3>1. \A g \in Gens : ~(pc'[g] # "idle" /\ life'[g] = gatewayLifecycle')
      BY <2>1, <2>2, <2>4, <2>5 DEF AtMostOneReconnector
    <3> QED BY <3>1 DEF AtMostOneReconnector
  <2>6. CASE gatewayLifecycle # life[c]
    BY <2>1, <2>4, <2>6 DEF AtMostOneReconnector
  <2> QED BY <2>5, <2>6
<1>11. ASSUME NEW g \in Gens, startGatewayReconnect(g) PROVE AtMostOneReconnector'
  <2>1. CASE StartReconnect(g)
    <3>1. /\ gatewayReconnectRunning' /\ ~gatewayReconnectRunning
          /\ gatewayLifecycle' = gatewayLifecycle
      BY <2>1 DEF StartReconnect, MayReconnect
    <3>2. \A h \in Gens : h # g => pc'[h] = pc[h] /\ life'[h] = life[h]
      BY <1>1, <2>1, Names DEF StartReconnect, Return, Goto, FieldTypes
    <3> QED BY <3>1, <3>2 DEF AtMostOneReconnector
  <2> QED BY <1>2, <1>11, <2>1 DEF startGatewayReconnect, SkipReconnect, StopLifecycle
<1>12. ASSUME NEW g \in Gens,
              \/ ReadReady(g) \/ ReadLoss(g) \/ ListenerStep(g) \/ HeartbeatFails(g)
              \/ Watch(g) \/ FinishStep(g)
       PROVE  AtMostOneReconnector'
  <2>1. CASE ~startGatewayReconnect(g)
    <3>1. Ends
      <4>1. CASE ListenerFinishes(g) \/ HeartbeatFails(g) \/ Watch(g)
        BY <4>1, ReadersLose DEF Loses, session
      <4> QED BY <1>12, <2>1, <4>1
              DEF ReadReady, ReadLoss, ListenerStep, ReadClosed, PublishReady,
                  FinishStep, FinishCloses, FinishDrains, session
    <3> QED BY <1>2, <1>12, <2>1, <3>1, GenerationsAct
  <2> QED BY <1>11, <2>1
<1>13. CASE \E l \in Lives : CancelContext(l)
  BY <1>2, <1>13 DEF CancelContext, session
<1> QED
  BY <1>5, <1>6, <1>7, <1>8, <1>9, <1>10, <1>12, <1>13 DEF Next, CallerStep, OpenStep

(* Callers that go on with what they try, while nothing begins.            *)
LEMMA WorkRests ==
    ASSUME IInv', Started', Working, UNCHANGED lifeOf,
           gatewayLifecycle' \in {gatewayLifecycle, 0},
           gatewayConnection' \in {gatewayConnection, 0},
           \A g \in Gens : Pending(g)' /\ gatewayLifecycle' = gatewayLifecycle => Pending(g),
           \A c \in Callers : TriesFor(c)' /\ gatewayLifecycle' = gatewayLifecycle =>
              /\ TriesFor(c) /\ cur'[c] = cur[c]
              /\ \/ gatewayConnection' = 0
                 \/ pc[c] \notin OpeningStates
                 \/ /\ pc'[c] \in OpeningStates
                    /\ connected'[cur[c]] => connected[cur[c]]
    PROVE  Working'
<1>1. CASE gatewayLifecycle' = 0
  BY <1>1, NoLifetime
<1>2. CASE gatewayLifecycle' = gatewayLifecycle
  <2>1. ASSUME NEW c \in Callers, TriesFor(c)' PROVE TriesAlone(c)'
    <3>1. TriesFor(c) /\ TriesAlone(c)
      BY <1>2, <2>1 DEF Working
    <3>2. \A d \in Callers : TriesFor(d)' => c = d
      BY <1>2, <3>1 DEF TriesAlone
    <3>3. \A g \in Gens : ~Pending(g)'
      BY <1>2, <3>1 DEF TriesAlone
    <3>4. \/ gatewayConnection' = 0
          \/ /\ pc'[c] \in OpeningStates /\ gatewayConnection' = cur'[c]
             /\ ~connected'[cur'[c]]
      BY <1>2, <2>1, <3>1 DEF TriesAlone
    <3> QED BY <3>2, <3>3, <3>4 DEF TriesAlone
  <2>2. ASSUME NEW g \in Gens, Pending(g)' PROVE PendsAlone(g)'
    BY <1>2, <2>2 DEF Working, PendsAlone
  <2> QED BY <2>1, <2>2 DEF Working
<1> QED BY <1>1, <1>2

(* The loss of a connection: only one that nobody opens any more can be    *)
(* connected, and then its finish is the only one that will reconnect.     *)
LEMMA LossWorks ==
    ASSUME IInv', Started', Working, NEW g \in Gens, Loses(g), UNCHANGED callers
    PROVE  Working'
<1>1. /\ gatewayConnection = g /\ g # 0 /\ gatewayConnection' = 0 /\ lifeOf' = lifeOf
      /\ gatewayLifecycle' \in {gatewayLifecycle, 0}
  BY Names DEF Loses
<1>2. CASE gatewayLifecycle' = 0
  BY <1>2, NoLifetime
<1>3. CASE gatewayLifecycle' = gatewayLifecycle
  <2>1. \A c \in Callers : TriesFor(c)' => TriesFor(c)
    BY <1>3 DEF callers, TriesFor, Trying
  <2>2. \A h \in Gens : ~Pending(h)
    BY <1>1 DEF Working, PendsAlone
  <2>3. \A h \in Gens : Pending(h)' => h = g /\ connected[g]
    BY <1>1, <1>3, <2>2 DEF Pending, Loses
  <2>4. ASSUME NEW c \in Callers, TriesFor(c)' PROVE ~connected[g]
    BY <1>1, <2>1, <2>4 DEF Working, TriesAlone
  <2>5. \A c \in Callers : TriesFor(c)' => TriesAlone(c)'
    BY <1>1, <2>1, <2>3, <2>4 DEF Working, TriesAlone
  <2>6. \A h \in Gens : Pending(h)' => PendsAlone(h)'
    BY <1>1, <2>3 DEF PendsAlone
  <2> QED BY <2>5, <2>6 DEF Working
<1> QED BY <1>1, <1>2, <1>3

LEMMA BeginWorks ==
    ASSUME IInv, IInv', Started', Working, NEW c \in Callers, beginGatewayGeneration(c)
    PROVE  Working'
<1>1. FieldTypes
  BY FieldsTyped
<1>2. /\ pc[c] = "begin" /\ Others(c) /\ life' = life
      /\ UNCHANGED <<gatewayLifecycle, connected, finish, willReconnect>>
  BY OpenersAct DEF beginGatewayGeneration, finishing
<1>3. \A d \in Callers : d # c => (TriesFor(d)' <=> TriesFor(d))
  BY <1>2 DEF TriesFor, Trying, Others
<1>4. CASE MayBegin(c) /\ gens < MaxGen /\ gatewayConnection' = gens + 1
           /\ cur' = [cur EXCEPT ![c] = gens + 1] /\ pc' = [pc EXCEPT ![c] = "dial"]
           /\ lifeOf' = [lifeOf EXCEPT ![gens + 1] = life[c]]
  <2>1. TriesFor(c)
    BY <1>2, <1>4 DEF TriesFor, Trying, MayBegin
  <2>2. gens + 1 \in Gens /\ gens + 1 > gens
    BY <1>1, <1>4, BoundsAssumption DEF FieldTypes, Gens
  <2>3. finish[gens + 1] = "idle" /\ ~connected[gens + 1]
    <3>1. finish[gens + 1] = "idle"
      BY <2>2 DEF IInv, CoreInv, Placement
    <3>2. gatewayConnection # gens + 1
      BY <1>1, <1>4, <2>2, Names DEF MayBegin
    <3> QED BY <2>2, <3>1, <3>2 DEF IInv, CoreInv, OneLiveGeneration
  <2>4. \A g \in Gens : ~Pending(g)'
    <3>1. \A g \in Gens : g # gens + 1 => lifeOf'[g] = lifeOf[g]
      BY <1>1, <1>4 DEF FieldTypes
    <3> QED BY <1>2, <2>1, <2>3, <3>1 DEF Working, TriesAlone, Pending
  <2>5. \A d \in Callers : TriesFor(d)' => d = c
    BY <1>3, <2>1 DEF Working, TriesAlone
  <2>6. pc'[c] \in OpeningStates /\ cur'[c] = gens + 1
    BY <1>1, <1>4 DEF FieldTypes, OpeningStates, BeforeAttach
  <2>7. TriesAlone(c)'
    BY <1>2, <1>4, <2>3, <2>4, <2>5, <2>6 DEF TriesAlone
  <2> QED BY <2>4, <2>5, <2>7 DEF Working
<1>5. CASE pc' = [pc EXCEPT ![c] = "result"] /\ UNCHANGED <<gatewayConnection, lifeOf, cur>>
  <2>1. \A g \in Gens : Pending(g)' => Pending(g)
    BY <1>2, <1>5 DEF Pending
  <2>2. TriesFor(c)' => TriesFor(c) /\ pc[c] \notin OpeningStates
    BY <1>2 DEF TriesFor, Trying, OpeningStates, BeforeAttach
  <2>3. ASSUME NEW d \in Callers, TriesFor(d)'
        PROVE  /\ TriesFor(d) /\ cur'[d] = cur[d]
               /\ \/ pc[d] \notin OpeningStates
                  \/ pc'[d] \in OpeningStates /\ connected'[cur[d]] = connected[cur[d]]
    BY <1>2, <1>3, <1>5, <2>2, <2>3 DEF Others
  <2> QED BY <1>2, <1>5, <2>1, <2>3, WorkRests
<1>6. \/ /\ MayBegin(c) /\ gens < MaxGen /\ gatewayConnection' = gens + 1
         /\ cur' = [cur EXCEPT ![c] = gens + 1] /\ pc' = [pc EXCEPT ![c] = "dial"]
         /\ lifeOf' = [lifeOf EXCEPT ![gens + 1] = life[c]]
      \/ pc' = [pc EXCEPT ![c] = "result"] /\ UNCHANGED <<gatewayConnection, lifeOf, cur>>
  BY DEF beginGatewayGeneration, Return, Goto
<1> QED BY <1>4, <1>5, <1>6

(* Steps of an attempt.                                                    *)
LEMMA AttemptWorks ==
    ASSUME IInv, IInv', Started', Offered, Standing, Working, NEW c \in Callers,
           \/ Dial(c) \/ attachGatewayWebsocket(c) \/ abortGatewayGeneration(c)
           \/ HelloReadFails(c) \/ ReceiveHello(c) \/ WaitReady(c)
           \/ authenticateGatewayGeneration(c) \/ activateGatewayGeneration(c)
           \/ ActivateDrains(c) \/ FinishAttempt(c)
    PROVE  Working'
<1>1. FieldTypes
  BY FieldsTyped
<1>2. CASE FinishCritical(cur[c], res[c]) /\ FinishAttempt(c)
  <2>1. cur[c] \in Gens /\ Loses(cur[c])
    BY <1>2, HoldersLose DEF FinishAttempt
  <2>2. UNCHANGED callers
    BY <1>2, <2>1 DEF FinishAttempt, Loses, callers
  <2> QED BY <2>1, <2>2, LossWorks
<1>3. CASE ~(FinishCritical(cur[c], res[c]) /\ FinishAttempt(c))
  <2>1. Others(c) /\ life' = life /\ cur' = cur
    <3>1. pc[c] # "begin"
      BY DEF Dial, attachGatewayWebsocket, abortGatewayGeneration, HelloReadFails,
             ReceiveHello, WaitReady, authenticateGatewayGeneration,
             activateGatewayGeneration, ActivateDrains, FinishAttempt
    <3> QED BY <3>1, OpenersAct
  <2>2. /\ lifeOf' = lifeOf /\ gatewayLifecycle' \in {gatewayLifecycle, 0}
        /\ gatewayConnection' \in {gatewayConnection, 0}
        /\ \A g \in Gens : finish'[g] = finish[g] \/ finish'[g] = "done"
        /\ UNCHANGED willReconnect
    <3>1. CASE abortGatewayGeneration(c)
      BY <1>1, <3>1
         DEF abortGatewayGeneration, AbortCritical, Released, session, conns, finishing,
             FieldTypes
    <3>2. CASE FinishAttempt(c) \/ activateGatewayGeneration(c)
      BY <1>3, <3>2
         DEF FinishAttempt, activateGatewayGeneration, session, conns, finishing
    <3> QED BY <3>1, <3>2, SteadyActs DEF Steady, session
  <2>3. \A g \in Gens : Pending(g)' /\ gatewayLifecycle' = gatewayLifecycle => Pending(g)
    BY <2>2 DEF Pending
  <2>4. TriesFor(c)' /\ gatewayLifecycle' = gatewayLifecycle => TriesFor(c)
    <3>1. CASE pc[c] \in {"drain", "handling"}
      <4>1. ActivateDrains(c)
        BY <3>1 DEF Dial, attachGatewayWebsocket, abortGatewayGeneration,
               HelloReadFails, ReceiveHello, WaitReady,
               authenticateGatewayGeneration, activateGatewayGeneration,
               FinishAttempt
      <4>2. pc'[c] \in {"drain", "handling", "result"} /\ res'[c] = Success
        BY <1>1, <3>1, <4>1 DEF ActivateDrains, Goto, FieldTypes, Standing
      <4> QED BY <4>2 DEF TriesFor, Trying, OpeningStates, BeforeAttach
    <3>2. CASE pc[c] \in OpeningStates
      BY <2>1, <3>2 DEF TriesFor, Trying
    <3>3. pc[c] \in OpeningStates \cup {"drain", "handling"}
      BY DEF Dial, attachGatewayWebsocket, abortGatewayGeneration,
               HelloReadFails, ReceiveHello, WaitReady,
               authenticateGatewayGeneration, activateGatewayGeneration,
               FinishAttempt, ActivateDrains, OpeningStates, BeforeAttach
    <3> QED BY <3>1, <3>2, <3>3
  <2>5. ASSUME TriesFor(c)', gatewayLifecycle' = gatewayLifecycle
        PROVE  \/ gatewayConnection' = 0
               \/ /\ pc'[c] \in OpeningStates
                  /\ connected'[cur[c]] => connected[cur[c]]
    <3>0. /\ TriesFor(c) /\ TriesAlone(c)
          /\ gatewayConnection = 0 \/ gatewayConnection = cur[c]
      BY <2>4, <2>5 DEF Working, TriesAlone
    <3>1. CASE pc'[c] \in OpeningStates
      <4>1. CASE activateGatewayGeneration(c)
        <5>1. pc' # [pc EXCEPT ![c] = "drain"]
          BY <1>1, <3>1 DEF FieldTypes, OpeningStates, BeforeAttach
        <5> QED BY <3>1, <4>1, <5>1 DEF activateGatewayGeneration, Goto
      <4>2. CASE ~activateGatewayGeneration(c)
        <5>1. UNCHANGED connected
          BY <1>3, <4>2, SteadyActs
             DEF Steady, abortGatewayGeneration, AbortCritical, FinishAttempt, conns
        <5> QED BY <3>1, <5>1
      <4> QED BY <4>1, <4>2
    <3>2. CASE pc'[c] \notin OpeningStates
      <4>1. pc'[c] = "result" /\ res'[c] # Success
        BY <2>5, <3>2, OpenersAct DEF TriesFor, Trying
      <4>2. CASE abortGatewayGeneration(c)
        <5>1. CASE AbortCritical(cur[c])
          BY <3>0, <5>1 DEF AbortCritical, Released
        <5>2. CASE finish[cur[c]] = "done" /\ UNCHANGED session
          <6>1. cur[c] \in Gens
            BY <1>1, <4>2, BoundsAssumption
               DEF abortGatewayGeneration, IInv, CoreInv, Placement, HoldsGeneration,
                   FieldTypes, Gens
          <6>2. gatewayConnection # cur[c]
            BY <5>2, <6>1 DEF IInv, CoreInv, OneLiveGeneration
          <6> QED BY <3>0, <5>2, <6>2 DEF session
        <5> QED BY <4>2, <5>1, <5>2 DEF abortGatewayGeneration
      <4>3. CASE FinishAttempt(c) \/ WaitReady(c)
        <5>1. cur[c] \in Gens
          BY <1>1, <4>3, BoundsAssumption
             DEF FinishAttempt, WaitReady, IInv, CoreInv, Placement, HoldsGeneration,
                 FieldTypes, Gens
        <5>2. finish[cur[c]] # "idle" /\ UNCHANGED session
          <6>1. CASE FinishAttempt(c)
            BY <1>3, <6>1 DEF FinishAttempt
          <6>2. CASE WaitReady(c)
            <7>1. ready[cur[c]] # NoResult /\ res' = [res EXCEPT ![c] = ready[cur[c]]]
              <8>1. pc' # [pc EXCEPT ![c] = "finish"]
                BY <1>1, <4>1 DEF FieldTypes
              <8> QED BY <6>2, <8>1 DEF WaitReady, Return, Goto
            <7>2. ready[cur[c]] # Success
              BY <1>1, <4>1, <7>1 DEF FieldTypes
            <7> QED BY <5>1, <6>2, <7>1, <7>2 DEF Offered, WaitReady
          <6> QED BY <4>3, <6>1, <6>2
        <5>3. gatewayConnection # cur[c]
          BY <5>1, <5>2 DEF IInv, CoreInv, OneLiveGeneration
        <5> QED BY <3>0, <5>2, <5>3 DEF session
      <4>4. CASE ActivateDrains(c)
        <5>1. pc[c] \in {"drain", "handling"} /\ res' = res
          BY <4>4 DEF ActivateDrains
        <5> QED BY <4>1, <5>1 DEF Standing
      <4>5. CASE \/ Dial(c) \/ attachGatewayWebsocket(c) \/ HelloReadFails(c)
                 \/ ReceiveHello(c) \/ authenticateGatewayGeneration(c)
                 \/ activateGatewayGeneration(c)
        <5>1. \E st \in {"attach", "abort", "hello", "auth", "finish", "wait", "drain"} :
                  pc' = [pc EXCEPT ![c] = st]
          BY <4>5 DEF Dial, attachGatewayWebsocket, HelloReadFails, ReceiveHello,
                      authenticateGatewayGeneration, activateGatewayGeneration,
                      Return, Goto
        <5> QED BY <1>1, <4>1, <5>1 DEF FieldTypes
      <4> QED BY <4>2, <4>3, <4>4, <4>5
    <3> QED BY <3>1, <3>2
  <2>6. ASSUME NEW d \in Callers, TriesFor(d)', gatewayLifecycle' = gatewayLifecycle
        PROVE  /\ TriesFor(d) /\ cur'[d] = cur[d]
               /\ \/ gatewayConnection' = 0
                  \/ pc[d] \notin OpeningStates
                  \/ /\ pc'[d] \in OpeningStates
                     /\ connected'[cur[d]] => connected[cur[d]]
    <3>1. CASE d = c
      BY <2>1, <2>4, <2>5, <2>6, <3>1
    <3>2. CASE d # c
      <4>1. TriesFor(d) /\ pc'[d] = pc[d]
        BY <2>1, <2>6, <3>2 DEF TriesFor, Trying, Others
      <4>2. CASE activateGatewayGeneration(c) /\ pc[d] \in OpeningStates
        <5>1. cur[d] # cur[c]
          BY <3>2, <4>1, <4>2
             DEF activateGatewayGeneration, IInv, OpenerOwnsGeneration, OpeningStates,
                 BeforeAttach
        <5>2. connected'[cur[d]] => connected[cur[d]]
          <6>1. cur[d] \in Gens
            BY <1>1, <4>2, BoundsAssumption
               DEF IInv, CoreInv, Placement, HoldsGeneration, FieldTypes, Gens,
                   OpeningStates, BeforeAttach
          <6> QED BY <1>1, <4>2, <5>1, <6>1 DEF activateGatewayGeneration, FieldTypes
        <5> QED BY <2>1, <4>1, <4>2, <5>2
      <4>3. CASE ~activateGatewayGeneration(c)
        <5>1. UNCHANGED connected
          BY <1>3, <4>3, SteadyActs
             DEF Steady, abortGatewayGeneration, AbortCritical, FinishAttempt, conns
        <5> QED BY <2>1, <4>1, <5>1
      <4> QED BY <2>1, <4>1, <4>2, <4>3
    <3> QED BY <3>1, <3>2
  <2> QED BY <2>2, <2>3, <2>6, WorkRests
<1> QED BY <1>2, <1>3

LEMMA WorkingKeeps ==
    ASSUME IInv, IInv', Counted, Started, Started', Offered, Standing, Working,
           [Next]_vars
    PROVE  Working'
<1>1. FieldTypes
  BY FieldsTyped
<1>2. ASSUME UNCHANGED <<lifeOf, gatewayConnection, callers, connected>>,
             gatewayLifecycle' \in {gatewayLifecycle, 0},
             \A g \in Gens : Pending(g)' /\ gatewayLifecycle' = gatewayLifecycle
                             => Pending(g)
      PROVE  Working'
  <2>1. \A c \in Callers : TriesFor(c)' /\ gatewayLifecycle' = gatewayLifecycle =>
            TriesFor(c) /\ cur'[c] = cur[c] /\ pc'[c] = pc[c]
    BY <1>2 DEF TriesFor, Trying, callers
  <2> QED BY <1>2, <2>1, WorkRests
<1>3. ASSUME UNCHANGED <<lifeOf, gatewayConnection, callers, connected, finish,
                         willReconnect>>,
             gatewayLifecycle' \in {gatewayLifecycle, 0}
      PROVE  Working'
  BY <1>2, <1>3 DEF Pending
<1>4. CASE UNCHANGED vars
  BY <1>3, <1>4 DEF vars, session, conns, finishing
<1>5. ASSUME NEW u \in Users, OpenWithContext(u) PROVE Working'
  <2>1. /\ gatewayLifecycle' = lives + 1 /\ gatewayConnection' = 0 /\ lifeOf' = lifeOf
    BY <1>5 DEF OpenWithContext, MayOpen, conns
  <2>2. \A c \in Callers : TriesFor(c)' => c = u
    BY <1>1, <1>5, <2>1, UsersAct DEF Others, Counted, FieldTypes, TriesFor
  <2>3. \A g \in Gens : ~Pending(g)'
    BY <1>1, <2>1 DEF Counted, FieldTypes, Pending
  <2> QED BY <2>1, <2>2, <2>3 DEF Working, TriesAlone
<1>6. ASSUME NEW u \in Users, closeGateway(u) \/ CloseStep(u) PROVE Working'
  <2>1. CASE CloseFinishes(u) /\ FinishCritical(cur[u], Canceled)
    <3>1. cur[u] \in Gens /\ Loses(cur[u])
      BY <2>1, HoldersLose, Names DEF CloseFinishes
    <3>2. UNCHANGED callers
      BY <2>1, <3>1 DEF CloseFinishes, Loses, callers
    <3> QED BY <3>1, <3>2, LossWorks
  <2>2. CASE ~(CloseFinishes(u) /\ FinishCritical(cur[u], Canceled))
    <3>1. /\ UNCHANGED <<lifeOf, gatewayConnection, connected, finish, willReconnect>>
          /\ gatewayLifecycle' \in {gatewayLifecycle, 0}
      <4>1. CASE closeGateway(u)
        BY <4>1 DEF closeGateway, StopLifecycle, conns, finishing
      <4> QED BY <1>6, <2>2, <4>1
              DEF CloseStep, CloseFinishes, CloseLegacy, CloseDrains, CloseWithCode,
                  session, conns, finishing
    <3>2. /\ u \in Callers /\ Others(u) /\ pc'[u] \notin {"begin"}
          /\ pc'[u] \in {"idle", "begin"} \cup ClosingStates
      <4>1. pc'[u] # "begin"
        <5>1. pc[u] # "idle" => pc'[u] # "begin"
          BY <1>6, UsersAct
        <5>2. CASE pc[u] = "idle"
          <6>1. closeGateway(u)
            BY <1>6, <5>2 DEF CloseStep, CloseFinishes, CloseLegacy, CloseDrains,
                              CloseWithCode
          <6> QED BY <1>1, <6>1, Names DEF closeGateway, Goto, FieldTypes
        <5> QED BY <5>1, <5>2
      <4> QED BY <1>6, <4>1, UsersAct
    <3>3. ~TriesFor(u)'
      BY <3>2 DEF TriesFor, Trying, OpeningStates, BeforeAttach, ClosingStates
    <3>4. \A c \in Callers : TriesFor(c)' /\ gatewayLifecycle' = gatewayLifecycle =>
              TriesFor(c) /\ cur'[c] = cur[c] /\ pc'[c] = pc[c]
      BY <3>2, <3>3 DEF TriesFor, Trying, Others
    <3>5. \A g \in Gens : Pending(g)' /\ gatewayLifecycle' = gatewayLifecycle => Pending(g)
      BY <3>1 DEF Pending
    <3> QED BY <3>1, <3>4, <3>5, WorkRests
  <2> QED BY <2>1, <2>2
<1>7. ASSUME NEW c \in Callers,
             \/ HandleResult(c) \/ waitGatewayContext(c)
             \/ stopGatewayLifecycle(c) \/ EndReconnect(c)
      PROVE  Working'
  <2>1. /\ UNCHANGED <<lifeOf, gatewayConnection, connected, finish, willReconnect>>
        /\ gatewayLifecycle' \in {gatewayLifecycle, 0}
    BY <1>7, SteadyActs
       DEF Steady, stopGatewayLifecycle, StopLifecycle, EndReconnect, session, conns,
           finishing
  <2>2. TriesFor(c)' /\ gatewayLifecycle' = gatewayLifecycle =>
            TriesFor(c) /\ cur'[c] = cur[c] /\ pc[c] \notin OpeningStates
    <3>1. TriesFor(c)' => pc'[c] \in {"backoff", "begin", "stop"}
      BY <1>7, HandlersAct DEF TriesFor, Trying, OpeningStates, BeforeAttach
    <3> QED BY <1>7, <3>1, HandlersAct DEF TriesFor, OpeningStates, BeforeAttach
  <2>3. \A d \in Callers : TriesFor(d)' /\ gatewayLifecycle' = gatewayLifecycle =>
            /\ TriesFor(d) /\ cur'[d] = cur[d]
            /\ pc[d] \notin OpeningStates \/ pc'[d] = pc[d]
    <3>1. Others(c)
      BY <1>7, HandlersAct
    <3> QED BY <2>2, <3>1 DEF TriesFor, Trying, Others
  <2>4. \A g \in Gens : Pending(g)' /\ gatewayLifecycle' = gatewayLifecycle => Pending(g)
    BY <2>1 DEF Pending
  <2> QED BY <2>1, <2>3, <2>4, WorkRests
<1>8. ASSUME NEW g \in Gens, startGatewayReconnect(g) PROVE Working'
  <2>1. /\ UNCHANGED <<lifeOf, gatewayConnection, connected, willReconnect>>
        /\ finish[g] = "reconnect" /\ finish'[g] = "done"
        /\ \A h \in Gens : h # g => finish'[h] = finish[h]
    BY <1>1, <1>8 DEF startGatewayReconnect, Advance, FieldTypes, conns
  <2>2. \A h \in Gens : Pending(h)' /\ gatewayLifecycle' = gatewayLifecycle
                        => Pending(h) /\ h # g
    BY <2>1 DEF Pending
  <2>3. CASE StartReconnect(g)
    <3>1. /\ gatewayLifecycle' = gatewayLifecycle /\ gatewayConnection = 0 /\ Pending(g)
      BY <2>1, <2>3 DEF StartReconnect, MayReconnect, Pending
    <3>2. Others(g)
      BY <1>1, <2>3, Names DEF StartReconnect, Return, Goto, Others, FieldTypes
    <3>3. \A h \in Gens : ~Pending(h)'
      BY <2>2, <3>1 DEF Working, PendsAlone
    <3>4. \A c \in Callers : TriesFor(c)' => c = g
      BY <3>1, <3>2 DEF Working, TriesAlone, TriesFor, Trying, Others
    <3> QED BY <2>1, <3>1, <3>3, <3>4 DEF Working, TriesAlone
  <2>4. CASE UNCHANGED callers /\ gatewayLifecycle' \in {gatewayLifecycle, 0}
    BY <1>2, <2>1, <2>2, <2>4
  <2> QED BY <1>8, <2>3, <2>4 DEF startGatewayReconnect, SkipReconnect, StopLifecycle
<1>9. ASSUME NEW g \in Gens, FinishCloses(g) \/ FinishDrains(g) PROVE Working'
  <2>1. /\ UNCHANGED <<lifeOf, gatewayConnection, gatewayLifecycle, callers, connected,
                       willReconnect>>
        /\ finish[g] \in {"close", "drain", "handling"}
        /\ \/ finish'[g] \in {"drain", "handling", "done"}
           \/ finish'[g] = "reconnect" /\ willReconnect[g]
        /\ \A h \in Gens : h # g => finish'[h] = finish[h]
    BY <1>1, <1>9 DEF FinishCloses, FinishDrains, Advance, AfterDrain, FieldTypes,
       session, conns
  <2>2. \A h \in Gens : Pending(h)' => Pending(h)
    BY <2>1 DEF Pending
  <2> QED BY <1>2, <2>1, <2>2
<1>10. ASSUME NEW g \in Gens, ListenerFinishes(g) \/ HeartbeatFails(g) \/ Watch(g)
       PROVE  Working'
  BY <1>3, <1>10, ReadersLose, LossWorks DEF session, conns, finishing, callers
<1>11. ASSUME NEW g \in Gens,
              ReadReady(g) \/ ReadLoss(g) \/ ReadClosed(g) \/ PublishReady(g)
       PROVE  Working'
  BY <1>3, <1>11
     DEF ReadReady, ReadLoss, ReadClosed, PublishReady, session, conns, finishing
<1>12. CASE \E l \in Lives : CancelContext(l)
  BY <1>3, <1>12 DEF CancelContext, session, conns, finishing
<1>13. ASSUME NEW c \in Callers, CallerStep(c) \/ ReceiveHello(c) PROVE Working'
  BY <1>7, <1>13, BeginWorks, AttemptWorks DEF CallerStep, OpenStep
<1> QED
  BY <1>4, <1>5, <1>6, <1>8, <1>9, <1>10, <1>11, <1>12, <1>13
     DEF Next, ListenerStep, FinishStep

-----------------------------------------------------------------------------
(* What Close leaves.                                                      *)

(* No generation begins in a lifetime that Close has ended.                *)
LEMMA EndingRests ==
    ASSUME IInv, Ending, UNCHANGED lifeOf,
           gatewayLifecycle' \in {gatewayLifecycle, 0},
           gatewayConnection' \in {gatewayConnection, 0},
           \A u \in Users : pc'[u] \in ClosingStates =>
              /\ pc[u] \in ClosingStates /\ life'[u] = life[u] /\ cur'[u] = cur[u]
              /\ \/ pc[u] = "closing" => pc'[u] = "closing"
                 \/ gatewayConnection' # cur[u]
    PROVE  Ending'
<1>1. ASSUME NEW u \in Users, pc'[u] \in ClosingStates, life'[u] # 0
      PROVE  /\ life'[u] # gatewayLifecycle'
             /\ \A g \in Gens : gatewayConnection' = g /\ lifeOf'[g] = life'[u]
                                => pc'[u] = "closing" /\ cur'[u] = g
  <2>1. /\ pc[u] \in ClosingStates /\ life'[u] = life[u] /\ cur'[u] = cur[u]
        /\ life[u] # gatewayLifecycle
    BY <1>1 DEF Ending
  <2>2. ASSUME NEW g \in Gens, gatewayConnection' = g, lifeOf'[g] = life'[u]
        PROVE  pc'[u] = "closing" /\ cur'[u] = g
    <3>1. gatewayConnection = g
      BY <2>2, Names
    <3>2. pc[u] = "closing" /\ cur[u] = g
      BY <1>1, <2>1, <2>2, <3>1 DEF Ending
    <3> QED BY <1>1, <2>1, <2>2, <3>2
  <2> QED BY <1>1, <2>1, <2>2
<1> QED BY <1>1 DEF Ending

LEMMA EndingKeeps == ASSUME IInv, Counted, Ending, [Next]_vars PROVE Ending'
<1>1. FieldTypes
  BY FieldsTyped
<1> DEFINE Calm == /\ UNCHANGED lifeOf
                   /\ gatewayLifecycle' \in {gatewayLifecycle, 0}
                   /\ gatewayConnection' \in {gatewayConnection, 0}
<1>2. ASSUME Calm, UNCHANGED callers PROVE Ending'
  BY <1>2, EndingRests DEF callers
<1>3. ASSUME Calm, NEW c \in Callers, Others(c), pc'[c] \notin ClosingStates PROVE Ending'
  BY <1>3, EndingRests, Names DEF Others
<1>4. CASE UNCHANGED vars
  BY <1>2, <1>4 DEF vars, session, conns
<1>5. ASSUME NEW u \in Users, OpenWithContext(u) PROVE Ending'
  <2>1. /\ gatewayLifecycle' = lives + 1 /\ UNCHANGED <<gatewayConnection, lifeOf>>
        /\ Others(u) /\ pc'[u] = "begin"
    BY <1>1, <1>5, UsersAct, Names DEF OpenWithContext, Goto, FieldTypes, conns
  <2>2. \A w \in Users : pc'[w] \in ClosingStates =>
            w # u /\ pc[w] \in ClosingStates /\ life'[w] = life[w] /\ cur'[w] = cur[w]
                  /\ pc'[w] = pc[w]
    BY <2>1, Names DEF Others, ClosingStates
  <2>3. \A w \in Users : life[w] # lives + 1
    BY <1>1, Names DEF Counted, FieldTypes
  <2> QED BY <2>1, <2>2, <2>3 DEF Ending
<1>6. ASSUME NEW u \in Users, closeGateway(u) PROVE Ending'
  <2>1. /\ UNCHANGED <<lifeOf, gatewayConnection>> /\ Others(u) /\ u \in Callers
        /\ gatewayLifecycle' = 0
    <3>1. gatewayLifecycle' = 0
      BY <1>6 DEF closeGateway, StopLifecycle
    <3> QED BY <1>6, <3>1, UsersAct DEF closeGateway, conns
  <2>2. /\ life'[u] = gatewayLifecycle /\ cur'[u] = gatewayConnection
        /\ pc'[u] = IF gatewayConnection # 0 THEN "closing" ELSE "compat"
    BY <1>1, <1>6, <2>1 DEF closeGateway, Goto, FieldTypes
  <2>3. ASSUME NEW w \in Users, pc'[w] \in ClosingStates, life'[w] # 0
        PROVE  /\ life'[w] # gatewayLifecycle'
               /\ \A g \in Gens : gatewayConnection' = g /\ lifeOf'[g] = life'[w]
                                  => pc'[w] = "closing" /\ cur'[w] = g
    <3>1. CASE w = u
      BY <2>1, <2>2, <2>3, <3>1, Names
    <3>2. CASE w # u
      <4>1. pc'[w] = pc[w] /\ life'[w] = life[w] /\ cur'[w] = cur[w]
        BY <2>1, <3>2, Names DEF Others
      <4> QED BY <2>1, <2>3, <4>1 DEF Ending
    <3> QED BY <3>1, <3>2
  <2> QED BY <2>3 DEF Ending
<1>7. ASSUME NEW u \in Users, CloseStep(u) PROVE Ending'
  <2>0. Others(u) /\ u \in Callers
    BY <1>7, UsersAct
  <2>1. Calm
    BY <1>7 DEF CloseStep, CloseFinishes, CloseLegacy, CloseDrains, CloseWithCode,
                FinishCritical, session, conns
  <2>2. pc'[u] \in ClosingStates =>
            /\ pc[u] \in ClosingStates /\ life'[u] = life[u] /\ cur'[u] = cur[u]
            /\ \/ pc[u] = "closing" => pc'[u] = "closing"
               \/ gatewayConnection' # cur[u]
    <3>1. CASE pc'[u] = "idle" \/ pc[u] # "closing"
      <4>1. pc[u] # "idle"
        BY <1>7 DEF CloseStep, CloseFinishes, CloseLegacy, CloseDrains, CloseWithCode
      <4> QED BY <1>7, <3>1, <4>1, UsersAct DEF ClosingStates
    <3>2. CASE pc[u] = "closing" /\ pc'[u] # "idle"
      <4>1. CloseFinishes(u) /\ UNCHANGED <<life, cur>>
        BY <1>7, <3>2 DEF CloseStep, CloseFinishes, CloseLegacy, CloseDrains, CloseWithCode
      <4>2. CASE pc' = pc
        BY <3>2, <4>1, <4>2 DEF ClosingStates
      <4>3. CASE finish[cur[u]] = "done" /\ UNCHANGED session
        <5>1. cur[u] \in Gens
          BY <1>1, <3>2, <2>0, BoundsAssumption
             DEF IInv, CoreInv, Placement, HoldsGeneration, FieldTypes, Gens
        <5>2. gatewayConnection' # cur[u]
          BY <4>3, <5>1 DEF IInv, CoreInv, OneLiveGeneration, session
        <5> QED BY <3>2, <4>1, <5>2 DEF ClosingStates
      <4> QED BY <4>1, <4>2, <4>3 DEF CloseFinishes
    <3> QED BY <3>1, <3>2
  <2> QED BY <2>0, <2>1, <2>2, EndingRests, Names DEF Others
<1>8. ASSUME NEW c \in Callers, beginGatewayGeneration(c) PROVE Ending'
  <2>1. Others(c) /\ pc'[c] \notin ClosingStates /\ UNCHANGED gatewayLifecycle
    BY <1>8, OpenersAct
       DEF beginGatewayGeneration, OpeningStates, BeforeAttach, ClosingStates
  <2>2. CASE UNCHANGED <<gatewayConnection, lifeOf>>
    BY <1>3, <2>1, <2>2
  <2>3. CASE /\ MayBegin(c) /\ gatewayConnection' = gens + 1
             /\ lifeOf' = [lifeOf EXCEPT ![gens + 1] = life[c]]
    <3>1. \A w \in Users : pc'[w] \in ClosingStates =>
              pc[w] \in ClosingStates /\ life'[w] = life[w]
      BY <2>1, Names DEF Others
    <3>2. \A g \in Gens : g = gens + 1 => lifeOf'[g] = gatewayLifecycle
      BY <1>1, <2>3 DEF MayBegin, FieldTypes
    <3> QED BY <2>1, <2>3, <3>1, <3>2 DEF Ending
  <2> QED BY <1>8, <2>2, <2>3 DEF beginGatewayGeneration
<1>9. ASSUME NEW c \in Callers,
             \/ Dial(c) \/ attachGatewayWebsocket(c) \/ abortGatewayGeneration(c)
             \/ HelloReadFails(c) \/ ReceiveHello(c) \/ WaitReady(c)
             \/ authenticateGatewayGeneration(c) \/ activateGatewayGeneration(c)
             \/ ActivateDrains(c) \/ FinishAttempt(c)
      PROVE  Ending'
  <2>1. Calm
    <3>1. CASE \/ abortGatewayGeneration(c) \/ activateGatewayGeneration(c)
               \/ FinishAttempt(c)
      BY <3>1 DEF abortGatewayGeneration, AbortCritical, Released, FinishAttempt,
                  activateGatewayGeneration, FinishCritical, session, conns
    <3> QED BY <1>9, <3>1, SteadyActs DEF Steady, session
  <2> QED BY <1>3, <1>9, <2>1, OpenersAct DEF OpeningStates, BeforeAttach, ClosingStates
<1>10. ASSUME NEW c \in Callers,
              \/ HandleResult(c) \/ waitGatewayContext(c)
              \/ stopGatewayLifecycle(c) \/ EndReconnect(c)
       PROVE  Ending'
  <2>1. Calm
    BY <1>10, SteadyActs
       DEF Steady, stopGatewayLifecycle, StopLifecycle, EndReconnect, session, conns
  <2>2. Others(c) /\ pc'[c] \notin ClosingStates
    BY <1>10, HandlersAct DEF ClosingStates
  <2> QED BY <1>3, <2>1, <2>2
<1>11. ASSUME NEW g \in Gens, startGatewayReconnect(g) PROVE Ending'
  <2>1. Calm
    BY <1>11 DEF startGatewayReconnect, StopLifecycle, StartReconnect, SkipReconnect,
                 session, conns
  <2>2. CASE StartReconnect(g)
    <3>1. Others(g) /\ pc'[g] = "backoff"
      BY <1>1, <2>2, Names DEF StartReconnect, Return, Goto, Others, FieldTypes
    <3> QED BY <1>3, <2>1, <3>1, Names DEF ClosingStates
  <2> QED BY <1>2, <1>11, <2>1, <2>2 DEF startGatewayReconnect, SkipReconnect
<1>12. ASSUME NEW g \in Gens,
              \/ ReadReady(g) \/ ReadLoss(g) \/ ListenerStep(g) \/ HeartbeatFails(g)
              \/ Watch(g) \/ FinishStep(g)
       PROVE  Ending'
  <2>1. CASE ~startGatewayReconnect(g)
    <3>1. Calm
      <4>1. CASE ListenerFinishes(g) \/ HeartbeatFails(g) \/ Watch(g)
        BY <4>1, ReadersLose DEF Loses, session, conns
      <4> QED BY <1>12, <2>1, <4>1
              DEF ReadReady, ReadLoss, ListenerStep, ReadClosed, PublishReady,
                  FinishStep, FinishCloses, FinishDrains, session, conns
    <3> QED BY <1>2, <1>12, <2>1, <3>1, GenerationsAct
  <2> QED BY <1>11, <2>1
<1>13. CASE \E l \in Lives : CancelContext(l)
  BY <1>2, <1>13 DEF CancelContext, session, conns
<1> QED
  BY <1>4, <1>5, <1>6, <1>7, <1>8, <1>9, <1>10, <1>12, <1>13
     DEF Next, CallerStep, OpenStep

-----------------------------------------------------------------------------
(* The theorems for any number of users.                                   *)
LEMMA InitOrder == Init => Order
<1> SUFFICES ASSUME Init PROVE Order
  OBVIOUS
<1>1. Counted /\ Started /\ Offered /\ Standing
  BY Names DEF Init, Counted, Started, Offered, Standing
<1>2. Draining /\ AtMostOneReconnector
  BY Names DEF Init, Draining, HandlingStates, DrainStates, AtMostOneReconnector
<1>3. Working /\ Ending
  BY Names DEF Init, Working, Ending, TriesFor, Trying, OpeningStates, BeforeAttach, Pending,
            ClosingStates
<1> QED BY <1>1, <1>2, <1>3 DEF Order

LEMMA NextOrder == IInv /\ IInv' /\ Order /\ [Next]_vars => Order'
<1> SUFFICES ASSUME IInv, IInv', Order, [Next]_vars PROVE Order'
  OBVIOUS
<1>1. Counted' /\ Started' /\ Offered' /\ Standing' /\ Draining'
  BY CountedKeeps, StartedKeeps, OfferedKeeps, StandingKeeps, DrainingKeeps DEF Order
<1>2. AtMostOneReconnector' /\ Working' /\ Ending'
  BY <1>1, AtMostOneKeeps, WorkingKeeps, EndingKeeps DEF Order
<1> QED BY <1>1, <1>2 DEF Order

(* Every reachable state satisfies the strengthened invariant.             *)
THEOREM OrderHolds == Spec => []OrderInv
<1>1. Init => Order
  BY InitOrder
<1>2. IInv /\ IInv' /\ Order /\ [Next]_vars => Order'
  BY NextOrder
<1>3. Spec => []IInv
  BY Inductive
<1> QED BY <1>1, <1>2, <1>3, PTL DEF Spec, OrderInv

(* drainGatewayEvents strands no event and is run by one goroutine only,   *)
(* for any number of goroutines that append and drain.                     *)
THEOREM NothingStranded == Spec => []NoStrandedEvent
<1>1. OrderInv => NoStrandedEvent
  BY DrainingSays DEF OrderInv, Order
<1> QED BY <1>1, OrderHolds, PTL

(* A lifetime has one reconnect goroutine at a time, and neither it nor    *)
(* startGatewayReconnect stops the lifetime while a connection lives.      *)
THEOREM ReconnectsInOrder == Spec => []ReconnectInOrder
<1>1. ASSUME OrderInv PROVE StopFindsNoConnection
  <2>1. \A c \in Callers : pc[c] = "stop" /\ life[c] = gatewayLifecycle
                           => gatewayConnection = 0
    BY <1>1 DEF OrderInv, Order, Working, TriesFor, Trying, TriesAlone, OpeningStates,
                BeforeAttach
  <2>2. \A g \in Gens : finish[g] = "reconnect" /\ gatewayLifecycle = lifeOf[g]
                        => gatewayConnection = 0
    BY <1>1 DEF OrderInv, Order, Working, Pending, PendsAlone
  <2> QED BY <2>1, <2>2 DEF StopFindsNoConnection
<1>2. OrderInv => ReconnectInOrder
  BY <1>1 DEF OrderInv, Order, ReconnectInOrder
<1> QED BY <1>2, OrderHolds, PTL

(* When Close returns, the lifetime it ended has no live generation left,  *)
(* no connected one, and none whose websocket is the Session's.            *)
THEOREM CloseLeavesNothingBehind == Spec => []CloseLeavesNothing
<1>1. ASSUME OrderInv, NEW u \in Users, pc[u] = "closed", life[u] # 0,
             NEW g \in 1 .. gens, lifeOf[g] = life[u]
      PROVE  finish[g] # "idle" /\ ~connected[g] /\ wsConn # g
  <2>1. FieldTypes /\ OneLiveGeneration /\ g \in Gens
    BY <1>1, FieldsTyped, BoundsAssumption
       DEF OrderInv, IInv, CoreInv, TypeOK, Gens
  <2>2. gatewayConnection # g
    BY <1>1, <2>1 DEF OrderInv, Order, Ending, ClosingStates
  <2>3. g # 0 /\ g <= gens
    BY <1>1, <2>1 DEF FieldTypes
  <2> QED BY <2>1, <2>2, <2>3 DEF OneLiveGeneration
<1>2. OrderInv => CloseLeavesNothing
  BY <1>1 DEF CloseLeavesNothing
<1> QED BY <1>2, OrderHolds, PTL

-----------------------------------------------------------------------------
(* One goroutine of the program that opens and closes. Then closeGateway's *)
(* path for hand-made Sessions never runs beside a living generation, and  *)
(* the fields of the Session and the events tell the truth.                *)
OneUser == \A u, v \in Users : u = v

Compatible ==
    \A u \in Users : pc[u] = "compat" => gatewayLifecycle = 0 /\ gatewayConnection = 0

FieldsFollow ==
    /\ \A g \in Gens : gatewayConnection = g /\ ws[g] # "none" => wsConn = g
    /\ DataReady => gatewayConnection # 0 /\ connected[gatewayConnection]
    /\ \A g \in Gens : connected[g] => DataReady

(* The events, and the last one of them, or the last one handed out.       *)
Follows(e, f) == IF e[1] = "Connect" THEN f = <<"Disconnect", e[2]>>
                                     ELSE f[1] = "Connect"
Chained == /\ events # <<>> => Follows(lastEvent, events[1])
           /\ \A i \in 1 .. Len(events) - 1 : Follows(events[i], events[i + 1])
LatestEvent == IF events = <<>> THEN lastEvent ELSE events[Len(events)]
Told == /\ \A g \in Gens : connected[g] => LatestEvent = <<"Connect", g>>
        /\ (\A g \in Gens : ~connected[g]) => LatestEvent[1] = "Disconnect"

SoleInv == Compatible /\ FieldsFollow /\ Chained /\ Told

LEMMA AppendChains ==
    ASSUME events \in Seq(Events), Chained, NEW e \in Events, Follows(LatestEvent, e),
           events' = Append(events, e), lastEvent' = lastEvent
    PROVE  Chained' /\ LatestEvent' = e
<1>1. /\ Len(events) \in Nat /\ Len(events') = Len(events) + 1
      /\ events'[Len(events) + 1] = e /\ events' # <<>>
      /\ \A i \in 1 .. Len(events) : events'[i] = events[i]
  BY AppendProperties
<1>2. LatestEvent' = e
  BY <1>1 DEF LatestEvent
<1>3. events = <<>> <=> Len(events) = 0
  BY EmptySeq
<1>4. Follows(lastEvent', events'[1])
  <2>1. CASE events = <<>>
    BY <1>1, <1>3, <2>1 DEF LatestEvent
  <2>2. CASE events # <<>>
    BY <1>1, <1>3, <2>2 DEF Chained
  <2> QED BY <2>1, <2>2
<1>5. ASSUME NEW i \in 1 .. Len(events') - 1 PROVE Follows(events'[i], events'[i + 1])
  <2>1. CASE i = Len(events)
    BY <1>1, <1>3, <1>5, <2>1 DEF LatestEvent
  <2>2. CASE i # Len(events)
    <3>1. i \in 1 .. Len(events) - 1 /\ i + 1 \in 1 .. Len(events)
      BY <1>1, <1>5, <2>2
    <3> QED BY <1>1, <3>1 DEF Chained
  <2> QED BY <2>1, <2>2
<1> QED BY <1>2, <1>4, <1>5 DEF Chained

LEMMA DrainChains ==
    ASSUME events \in Seq(Events), Chained,
           DrainStarts \/ DrainSkips \/ DrainContinues \/ DrainEnds
    PROVE  Chained' /\ LatestEvent' = LatestEvent
<1>1. CASE events # <<>> /\ DispatchNext
  <2>1. /\ Len(events) \in Nat \ {0} /\ lastEvent' = events[1]
        /\ events' \in Seq(Events) /\ Len(events') = Len(events) - 1
        /\ \A i \in 1 .. Len(events) - 1 : events'[i] = events[i + 1]
    BY <1>1, HeadTailProperties, EmptySeq DEF DispatchNext
  <2>2. events' = <<>> <=> Len(events') = 0
    BY <2>1, EmptySeq
  <2>3. LatestEvent' = LatestEvent
    <3>1. CASE Len(events) = 1
      BY <1>1, <2>1, <2>2, <3>1 DEF LatestEvent
    <3>2. CASE Len(events) # 1
      <4>1. Len(events') \in 1 .. Len(events) - 1
        BY <2>1, <3>2
      <4>2. events'[Len(events')] = events[Len(events)]
        BY <2>1, <4>1
      <4> QED BY <1>1, <2>1, <2>2, <3>2, <4>2 DEF LatestEvent
    <3> QED BY <3>1, <3>2
  <2>4. events' # <<>> => Follows(lastEvent', events'[1])
    <3> SUFFICES ASSUME events' # <<>> PROVE Follows(lastEvent', events'[1])
      OBVIOUS
    <3>1. 1 \in 1 .. Len(events) - 1 /\ events'[1] = events[2]
      BY <2>1, <2>2
    <3> QED BY <2>1, <3>1 DEF Chained
  <2>5. ASSUME NEW i \in 1 .. Len(events') - 1 PROVE Follows(events'[i], events'[i + 1])
    <3>1. /\ i + 1 \in 1 .. Len(events) - 1 /\ i \in 1 .. Len(events) - 1
          /\ events'[i] = events[i + 1] /\ events'[i + 1] = events[i + 1 + 1]
      BY <2>1, <2>5
    <3> QED BY <3>1 DEF Chained
  <2> QED BY <2>3, <2>4, <2>5 DEF Chained
<1>2. CASE DrainSkips
  BY <1>2 DEF DrainSkips, queue, Chained, LatestEvent
<1>3. CASE DrainEnds
  BY <1>3 DEF DrainEnds, Chained, LatestEvent
<1> QED BY <1>1, <1>2, <1>3 DEF DrainStarts, DrainContinues

(* The chain is what EventsAlternate says of the whole sequence.           *)
LEMMA ChainAlternates ==
    ASSUME events \in Seq(Events), lastEvent \in Events, Chained PROVE EventsAlternate
<1> DEFINE seen == <<lastEvent>> \o events
<1>1. /\ Len(events) \in Nat /\ Len(seen) = Len(events) + 1 /\ seen[1] = lastEvent
      /\ \A i \in 1 .. Len(events) : seen[i + 1] = events[i]
  <2>1. <<lastEvent>> \in Seq(Events) /\ Len(<<lastEvent>>) = 1
    OBVIOUS
  <2>2. /\ Len(seen) = Len(<<lastEvent>>) + Len(events)
        /\ \A i \in 1 .. Len(<<lastEvent>>) + Len(events) :
              seen[i] = IF i <= Len(<<lastEvent>>) THEN <<lastEvent>>[i]
                                                   ELSE events[i - Len(<<lastEvent>>)]
    BY <2>1, ConcatProperties
  <2>3. Len(events) \in Nat
    BY LenProperties
  <2> QED BY <2>1, <2>2, <2>3
<1>2. ASSUME NEW i \in 1 .. Len(seen) - 1 PROVE Follows(seen[i], seen[i + 1])
  <2>1. i \in 1 .. Len(events)
    BY <1>1, <1>2
  <2>2. CASE i = 1
    BY <1>1, <2>1, <2>2, EmptySeq DEF Chained
  <2>3. CASE i # 1
    <3>1. i - 1 \in 1 .. Len(events) - 1 /\ (i - 1) + 1 = i
      BY <1>1, <2>1, <2>3
    <3>2. seen[i] = events[i - 1] /\ seen[i + 1] = events[i]
      BY <1>1, <2>1, <3>1
    <3> QED BY <3>1, <3>2 DEF Chained
  <2> QED BY <2>2, <2>3
<1> HIDE DEF seen
<1>3. \A i \in 1 .. Len(seen) - 1 :
            IF seen[i][1] = "Connect" THEN seen[i + 1] = <<"Disconnect", seen[i][2]>>
                                      ELSE seen[i + 1][1] = "Connect"
  BY <1>2 DEF Follows
<1> QED BY <1>3 DEF EventsAlternate, seen

(* Steps that leave the fields, the connections and the events alone.      *)
LEMMA SoleRests ==
    ASSUME SoleInv, UNCHANGED <<gatewayConnection, connected, legacy>>,
           gatewayLifecycle' \in {gatewayLifecycle, 0},
           \A g \in Gens : ws'[g] # "none" => ws[g] # "none",
           \A u \in Users : pc'[u] = "compat" => pc[u] = "compat",
           \/ UNCHANGED queue
           \/ Chained' /\ LatestEvent' = LatestEvent
    PROVE  SoleInv'
<1>1. Compatible'
  BY DEF SoleInv, Compatible
<1>2. FieldsFollow'
  BY DEF SoleInv, FieldsFollow, legacy
<1>3. Chained' /\ LatestEvent' = LatestEvent
  BY DEF SoleInv, Chained, LatestEvent, queue
<1>4. Told'
  BY <1>3 DEF SoleInv, Told
<1> QED BY <1>1, <1>2, <1>3, <1>4 DEF SoleInv

(* A loss takes the fields along, and tells it if the connection was told. *)
LEMMA SoleLoses ==
    ASSUME IInv, SoleInv, NEW g \in Gens, Loses(g), UNCHANGED pc PROVE SoleInv'
<1>1. FieldTypes /\ events \in Seq(Events)
  BY FieldsTyped DEF IInv, CoreInv, TypeOK
<1>2. /\ gatewayConnection = g /\ gatewayConnection' = 0 /\ g # 0
      /\ gatewayLifecycle' \in {gatewayLifecycle, 0}
      /\ UNCHANGED <<lastEvent, ws>>
      /\ \A h \in Gens : connected'[h] <=> connected[h] /\ h # g
  BY Names DEF Loses
<1>3. \A h \in Gens : connected[h] => h = g
  BY <1>2 DEF IInv, CoreInv, OneLiveGeneration
<1>4. Compatible'
  BY <1>2 DEF SoleInv, Compatible
<1>5. FieldsFollow'
  <2>1. NamesWebsocket(g)
    BY <1>2 DEF NamesWebsocket, SoleInv, FieldsFollow, IInv, CoreInv, OneLiveGeneration,
                Placement
  <2>2. ~DataReady'
    BY <2>1 DEF Loses
  <2> QED BY <1>2, <1>3, <2>2, Names DEF FieldsFollow
<1>6. Chained' /\ Told'
  <2>1. CASE connected[g]
    <3>1. LatestEvent = <<"Connect", g>> /\ <<"Disconnect", g>> \in Events
      BY <2>1, EventTypes, Names DEF SoleInv, Told
    <3>2. events' = Append(events, <<"Disconnect", g>>)
      BY <2>1 DEF Loses, AfterLoss
    <3>3. Chained' /\ LatestEvent' = <<"Disconnect", g>>
      BY <1>1, <1>2, <3>1, <3>2, AppendChains DEF SoleInv, Follows
    <3> QED BY <1>2, <1>3, <3>3 DEF Told
  <2>2. CASE ~connected[g]
    <3>1. UNCHANGED <<events, lastEvent>>
      BY <1>2, <2>2 DEF Loses, AfterLoss
    <3>2. \A h \in Gens : ~connected[h] /\ ~connected'[h]
      BY <1>2, <1>3, <2>2
    <3> QED BY <3>1, <3>2 DEF SoleInv, Chained, Told, LatestEvent
  <2> QED BY <2>1, <2>2
<1> QED BY <1>4, <1>5, <1>6 DEF SoleInv

(* A connection is told when the last one was told to be lost.             *)
LEMMA SoleActivates ==
    ASSUME OrderInv, SoleInv, NEW c \in Callers, activateGatewayGeneration(c) PROVE SoleInv'
<1>1. FieldTypes /\ events \in Seq(Events)
  BY FieldsTyped DEF OrderInv, IInv, CoreInv, TypeOK
<1>2. /\ pc[c] = "activate" /\ UNCHANGED <<session, wsConn, ws, lastEvent>>
      /\ cur[c] \in Gens /\ cur[c] # 0
  BY <1>1, BoundsAssumption DEF activateGatewayGeneration, OrderInv, IInv, CoreInv,
     Placement, HoldsGeneration, FieldTypes, Gens
<1>3. \A u \in Users : pc'[u] = "compat" => pc[u] = "compat"
  <2>1. Others(c) /\ pc'[c] # "compat"
    BY OpenersAct DEF OrderInv, OpeningStates, BeforeAttach
  <2> QED BY <2>1, Names DEF Others
<1>4. CASE ~StillCurrent(cur[c])
  <2>1. UNCHANGED <<connected, DataReady, queue>>
    BY <1>4 DEF activateGatewayGeneration, queue
  <2> QED BY <1>2, <1>3, <2>1, SoleRests DEF session, legacy
<1>5. CASE StillCurrent(cur[c])
  <2>1. /\ connected' = [connected EXCEPT ![cur[c]] = TRUE]
        /\ events' = Append(events, <<"Connect", cur[c]>>) /\ DataReady' = TRUE
        /\ gatewayConnection = cur[c] /\ gatewayLifecycle = lifeOf[cur[c]]
    BY <1>5 DEF activateGatewayGeneration, StillCurrent
  <2>2. ws[cur[c]] # "none" /\ gatewayLifecycle = life[c]
    BY <1>2, <2>1 DEF OrderInv, IInv, Attachment, OpenerOwnsGeneration, AfterAttach
  <2>3. \A g \in Gens : ~connected[g]
    <3>1. TriesAlone(c)
      BY <1>2, <2>2 DEF OrderInv, Order, Working, TriesFor, Trying, OpeningStates
    <3> QED BY <1>2, <2>1, <3>1 DEF TriesAlone, OrderInv, IInv, CoreInv, OneLiveGeneration
  <2>4. Chained' /\ LatestEvent' = <<"Connect", cur[c]>>
    <3>1. LatestEvent[1] # "Connect" /\ <<"Connect", cur[c]>> \in Events
      BY <1>2, <2>3, EventTypes, Names DEF SoleInv, Told
    <3>2. Follows(LatestEvent, <<"Connect", cur[c]>>)
      BY <3>1 DEF Follows
    <3> QED BY <1>1, <1>2, <2>1, <3>1, <3>2, AppendChains DEF SoleInv
  <2>5. \A g \in Gens : connected'[g] <=> g = cur[c]
    BY <1>1, <1>2, <2>1, <2>3 DEF FieldTypes
  <2>6. Told'
    BY <1>2, <2>4, <2>5 DEF Told
  <2>7. FieldsFollow'
    BY <1>2, <2>1, <2>5 DEF SoleInv, FieldsFollow, session
  <2>8. Compatible'
    BY <1>2, <1>3 DEF SoleInv, Compatible, session
  <2> QED BY <2>4, <2>6, <2>7, <2>8 DEF SoleInv
<1> QED BY <1>4, <1>5

(* One user closes by hand only when there is nothing to close.            *)
LEMMA SoleCloses ==
    ASSUME IInv, SoleInv, NEW u \in Users, CloseLegacy(u) PROVE SoleInv'
<1>1. FieldTypes
  BY FieldsTyped
<1>2. gatewayConnection = 0 /\ pc[u] = "compat"
  BY DEF CloseLegacy, SoleInv, Compatible
<1>3. wsConn = 0 /\ ~DataReady
  BY <1>2 DEF SoleInv, FieldsFollow, IInv, CoreInv, OneLiveGeneration
<1>4. /\ UNCHANGED <<session, connected, queue>> /\ wsConn' = 0 /\ ~DataReady'
      /\ pc' = [pc EXCEPT ![u] = "closed"]
  BY <1>3 DEF CloseLegacy, Goto, queue
<1>5. \A g \in Gens : ws'[g] = ws[g]
  BY <1>3, Names DEF CloseLegacy
<1>6. \A w \in Users : pc'[w] = "compat" => pc[w] = "compat"
  BY <1>1, <1>4, Names DEF FieldTypes
<1>7. Compatible'
  BY <1>4, <1>6 DEF SoleInv, Compatible, session
<1>8. FieldsFollow'
  <2>1. \A g \in Gens : ~connected'[g]
    BY <1>2, <1>4, Names DEF IInv, CoreInv, OneLiveGeneration
  <2> QED BY <1>2, <1>4, <2>1, Names DEF FieldsFollow, session
<1>9. Chained' /\ Told'
  BY <1>4 DEF SoleInv, Chained, Told, LatestEvent, queue
<1> QED BY <1>7, <1>8, <1>9 DEF SoleInv

(* Steps that begin, attach or abort a generation.                         *)
LEMMA SoleOpens ==
    ASSUME IInv, SoleInv, NEW c \in Callers,
           \/ beginGatewayGeneration(c) \/ attachGatewayWebsocket(c)
           \/ abortGatewayGeneration(c)
    PROVE  SoleInv'
<1>1. FieldTypes
  BY FieldsTyped
<1>2. \A u \in Users : pc'[u] = "compat" => pc[u] = "compat"
  <2>1. Others(c) /\ pc'[c] # "compat"
    BY OpenersAct DEF OpeningStates, BeforeAttach
  <2> QED BY <2>1, Names DEF Others
<1>3. UNCHANGED <<queue, connected>>
  BY DEF beginGatewayGeneration, attachGatewayWebsocket, abortGatewayGeneration,
         AbortCritical, conns
<1>4. Chained' /\ Told'
  BY <1>3 DEF SoleInv, Chained, Told, LatestEvent, queue
<1>5. CASE beginGatewayGeneration(c)
  <2>1. UNCHANGED <<gatewayLifecycle, wsConn, DataReady, ws>>
    BY <1>5 DEF beginGatewayGeneration, legacy
  <2>2. CASE UNCHANGED gatewayConnection
    BY <1>2, <1>3, <2>1, <2>2, SoleRests DEF legacy
  <2>3. CASE MayBegin(c) /\ gens < MaxGen /\ gatewayConnection' = gens + 1
    <3>1. gatewayLifecycle # 0
      BY <1>5, <2>3, Names
         DEF beginGatewayGeneration, MayBegin, IInv, CoreInv, Placement, HoldsLifetime
    <3>2. ws[gens + 1] = "none"
      BY <1>1, <2>3, BoundsAssumption DEF IInv, CoreInv, Placement, FieldTypes, Gens
    <3>3. \A g \in Gens : ~connected'[g]
      BY <1>3, <2>3, Names DEF MayBegin, IInv, CoreInv, OneLiveGeneration
    <3>4. Compatible'
      BY <1>2, <2>1, <2>3, <3>1 DEF MayBegin, SoleInv, Compatible
    <3>5. FieldsFollow'
      BY <2>1, <2>3, <3>2, <3>3 DEF MayBegin, SoleInv, FieldsFollow
    <3> QED BY <1>4, <3>4, <3>5 DEF SoleInv
  <2> QED BY <1>5, <2>2, <2>3 DEF beginGatewayGeneration
<1>6. CASE attachGatewayWebsocket(c)
  <2>1. UNCHANGED session
    BY <1>6 DEF attachGatewayWebsocket
  <2>2. CASE UNCHANGED <<legacy, ws>>
    BY <1>2, <1>3, <2>1, <2>2, SoleRests DEF session
  <2>3. CASE StillCurrent(cur[c]) /\ wsConn' = cur[c] /\ DataReady' = FALSE
    <3>1. \A g \in Gens : ~connected'[g]
      <4>1. cur[c] \in Gens => ~connected[cur[c]]
        BY <1>6 DEF attachGatewayWebsocket, IInv, Attachment, BeforeAttach
      <4>2. \A g \in Gens : connected[g] => g = cur[c]
        BY <2>3 DEF StillCurrent, IInv, CoreInv, OneLiveGeneration
      <4> QED BY <1>3, <4>1, <4>2
    <3> QED BY <1>2, <1>4, <2>1, <2>3, <3>1
            DEF StillCurrent, SoleInv, Compatible, FieldsFollow, session
  <2> QED BY <1>6, <2>2, <2>3 DEF attachGatewayWebsocket
<1>7. CASE abortGatewayGeneration(c)
  <2>1. CASE UNCHANGED <<session, legacy, conns>>
    BY <1>2, <1>3, <2>1, SoleRests DEF session, conns
  <2>2. CASE AbortCritical(cur[c])
    <3>1. /\ gatewayConnection' = Released(cur[c]) /\ UNCHANGED <<wsConn, DataReady, ws>>
          /\ gatewayLifecycle' \in {gatewayLifecycle, 0}
      BY <2>2 DEF AbortCritical, legacy
    <3>2. ws[cur[c]] = "none" /\ cur[c] \in Gens
      BY <1>1, <1>7, BoundsAssumption
         DEF abortGatewayGeneration, IInv, Attachment, BeforeAttach, CoreInv, Placement,
             HoldsGeneration, FieldTypes, Gens
    <3>3. ~connected[cur[c]]
      BY <3>2 DEF IInv, Attachment
    <3>4. FieldsFollow'
      BY <1>3, <3>1, <3>3, Names DEF Released, SoleInv, FieldsFollow
    <3>5. Compatible'
      BY <1>2, <3>1 DEF Released, SoleInv, Compatible
    <3> QED BY <1>4, <3>4, <3>5 DEF SoleInv
  <2> QED BY <1>7, <2>1, <2>2 DEF abortGatewayGeneration
<1> QED BY <1>5, <1>6, <1>7

(* The steps of the one user: Open, and the rest of Close.                 *)
LEMMA SoleUses ==
    ASSUME OneUser, IInv, SoleInv, NEW u \in Users,
           OpenWithContext(u) \/ closeGateway(u) \/ CloseStep(u)
    PROVE  SoleInv'
<1>1. FieldTypes /\ u \in Callers /\ events \in Seq(Events)
  BY FieldsTyped, Names DEF IInv, CoreInv, TypeOK
<1>2. \A w \in Users : w = u
  BY DEF OneUser
<1>3. CASE OpenWithContext(u) \/ closeGateway(u)
  <2>1. UNCHANGED <<gatewayConnection, connected, legacy, queue, ws>>
    BY <1>3 DEF OpenWithContext, closeGateway, conns
  <2>2. pc'[u] = "compat" => gatewayLifecycle' = 0 /\ gatewayConnection' = 0
    <3>1. CASE OpenWithContext(u)
      <4>1. pc' = [pc EXCEPT ![u] = "begin"]
        BY <3>1 DEF OpenWithContext, Goto
      <4> QED BY <1>1, <4>1 DEF FieldTypes
    <3>2. CASE closeGateway(u)
      <4>1. gatewayLifecycle' = 0
        BY <3>2 DEF closeGateway, StopLifecycle
      <4>2. pc' = [pc EXCEPT ![u] = IF gatewayConnection # 0 THEN "closing" ELSE "compat"]
        BY <3>2 DEF closeGateway, Goto
      <4> QED BY <1>1, <2>1, <4>1, <4>2 DEF FieldTypes
    <3> QED BY <1>3, <3>1, <3>2
  <2>3. Compatible'
    BY <1>2, <2>2 DEF Compatible
  <2>4. FieldsFollow'
    BY <2>1 DEF SoleInv, FieldsFollow, legacy
  <2>5. Chained' /\ Told'
    BY <2>1 DEF SoleInv, Chained, Told, LatestEvent, queue
  <2> QED BY <2>3, <2>4, <2>5 DEF SoleInv
<1>4. CASE CloseFinishes(u)
  <2>1. CASE FinishCritical(cur[u], Canceled) /\ UNCHANGED pc
    <3>1. pc[u] \in {"closing", "finish"}
      BY <1>4 DEF CloseFinishes
    <3>2. cur[u] \in Gens /\ Loses(cur[u])
      BY <1>1, <2>1, <3>1, HoldersLose
    <3> QED BY <2>1, <3>2, SoleLoses
  <2>2. CASE Goto(u, "closed") /\ UNCHANGED <<session, legacy, queue, conns>>
    <3>1. \A w \in Users : pc'[w] # "compat"
      BY <1>1, <1>2, <2>2 DEF Goto, FieldTypes
    <3> QED BY <2>2, <3>1, SoleRests DEF session, conns
  <2> QED BY <1>4, <2>1, <2>2 DEF CloseFinishes
<1>5. CASE CloseLegacy(u)
  BY <1>5, SoleCloses
<1>6. CASE CloseDrains(u)
  <2>1. /\ UNCHANGED <<session, legacy, connected, ws>>
        /\ DrainStarts \/ DrainSkips \/ DrainContinues \/ DrainEnds
    BY <1>6 DEF CloseDrains, conns
  <2>2. Chained' /\ LatestEvent' = LatestEvent
    BY <1>1, <2>1, DrainChains DEF SoleInv
  <2>3. \A w \in Users : pc'[w] # "compat"
    <3>1. /\ pc[u] # "compat"
          /\ pc' = pc \/ \E st \in {"closed", "closeHandling"} : pc' = [pc EXCEPT ![u] = st]
      BY <1>6 DEF CloseDrains, Goto
    <3> QED BY <1>1, <1>2, <3>1 DEF FieldTypes
  <2> QED BY <2>1, <2>2, <2>3, SoleRests DEF session
<1>7. CASE CloseWithCode(u)
  <2>1. UNCHANGED <<session, legacy, queue, conns>> /\ pc' = [pc EXCEPT ![u] = "idle"]
    BY <1>7 DEF CloseWithCode, Exit, Return, Goto
  <2>2. \A w \in Users : pc'[w] # "compat"
    BY <1>1, <1>2, <2>1 DEF FieldTypes
  <2> QED BY <2>1, <2>2, SoleRests DEF session, conns
<1> QED BY <1>3, <1>4, <1>5, <1>6, <1>7 DEF CloseStep

(* The steps of a caller that tries, once its generation is attached.      *)
LEMMA SoleTries ==
    ASSUME OrderInv, SoleInv, NEW c \in Callers, CallerStep(c) \/ ReceiveHello(c)
    PROVE  SoleInv'
<1>1. FieldTypes /\ IInv /\ events \in Seq(Events)
  BY FieldsTyped DEF OrderInv, IInv, CoreInv, TypeOK
<1>2. ASSUME Others(c), pc'[c] # "compat"
      PROVE  \A u \in Users : pc'[u] = "compat" => pc[u] = "compat"
  BY <1>2, Names DEF Others
<1>3. CASE \/ beginGatewayGeneration(c) \/ attachGatewayWebsocket(c)
           \/ abortGatewayGeneration(c) \/ activateGatewayGeneration(c)
  BY <1>1, <1>3, SoleOpens, SoleActivates
<1>4. CASE \/ Dial(c) \/ HelloReadFails(c) \/ ReceiveHello(c)
           \/ authenticateGatewayGeneration(c) \/ WaitReady(c)
  <2>1. UNCHANGED <<session, legacy, queue, connected, ws>>
    BY <1>4 DEF Dial, HelloReadFails, ReceiveHello, WaitReady,
                authenticateGatewayGeneration, conns
  <2>2. Others(c) /\ pc'[c] # "compat"
    BY <1>1, <1>4, OpenersAct DEF OpeningStates, BeforeAttach
  <2> QED BY <1>2, <2>1, <2>2, SoleRests DEF session
<1>5. CASE ActivateDrains(c)
  <2>1. /\ UNCHANGED <<session, legacy, connected, ws>>
        /\ DrainStarts \/ DrainSkips \/ DrainContinues \/ DrainEnds
    BY <1>5 DEF ActivateDrains, conns
  <2>2. Chained' /\ LatestEvent' = LatestEvent
    BY <1>1, <2>1, DrainChains DEF SoleInv
  <2>3. Others(c) /\ pc'[c] # "compat"
    BY <1>1, <1>5, OpenersAct DEF OpeningStates, BeforeAttach
  <2> QED BY <1>2, <2>1, <2>2, <2>3, SoleRests DEF session
<1>6. CASE FinishAttempt(c)
  <2>1. CASE FinishCritical(cur[c], res[c]) /\ UNCHANGED pc
    <3>1. pc[c] \in {"closing", "finish"}
      BY <1>6 DEF FinishAttempt
    <3>2. cur[c] \in Gens /\ Loses(cur[c])
      BY <1>1, <2>1, <3>1, HoldersLose
    <3> QED BY <1>1, <2>1, <3>2, SoleLoses
  <2>2. CASE UNCHANGED <<session, legacy, queue, conns>>
    <3>1. Others(c) /\ pc'[c] # "compat"
      BY <1>1, <1>6, OpenersAct DEF OpeningStates, BeforeAttach
    <3> QED BY <1>2, <2>2, <3>1, SoleRests DEF session, conns
  <2> QED BY <1>6, <2>1, <2>2 DEF FinishAttempt
<1>7. CASE \/ HandleResult(c) \/ waitGatewayContext(c)
           \/ stopGatewayLifecycle(c) \/ EndReconnect(c)
  <2>1. /\ UNCHANGED <<gatewayConnection, legacy, queue, connected, ws>>
        /\ gatewayLifecycle' \in {gatewayLifecycle, 0}
    BY <1>7 DEF HandleResult, waitGatewayContext, stopGatewayLifecycle, EndReconnect,
                StopLifecycle, session, conns
  <2>2. Others(c) /\ pc'[c] # "compat"
    BY <1>1, <1>7, HandlersAct
  <2> QED BY <1>2, <2>1, <2>2, SoleRests
<1> QED BY <1>3, <1>4, <1>5, <1>6, <1>7 DEF CallerStep, OpenStep

(* The steps of the goroutines of a generation, and of its finish.         *)
LEMMA SoleGenerates ==
    ASSUME OrderInv, SoleInv, NEW g \in Gens,
           \/ ReadReady(g) \/ ReadLoss(g) \/ ListenerStep(g) \/ HeartbeatFails(g)
           \/ Watch(g) \/ FinishStep(g) \/ \E l \in Lives : CancelContext(l)
    PROVE  SoleInv'
<1>1. FieldTypes /\ IInv /\ events \in Seq(Events)
  BY FieldsTyped DEF OrderInv, IInv, CoreInv, TypeOK
<1>2. CASE ReadReady(g) \/ ReadLoss(g) \/ ReadClosed(g) \/ PublishReady(g)
           \/ \E l \in Lives : CancelContext(l)
  <2>1. UNCHANGED <<session, legacy, queue, connected, ws, callers>>
    BY <1>2 DEF ReadReady, ReadLoss, ReadClosed, PublishReady, CancelContext, conns
  <2> QED BY <2>1, SoleRests DEF session, callers
<1>3. CASE ListenerFinishes(g) \/ HeartbeatFails(g) \/ Watch(g)
  <2>1. /\ UNCHANGED <<counters, callers>>
        /\ Loses(g) \/ UNCHANGED <<session, legacy, queue, cancelled, conns, finishing>>
    BY <1>1, <1>3, ReadersLose
  <2>2. CASE Loses(g)
    BY <1>1, <2>1, <2>2, SoleLoses DEF callers
  <2>3. CASE UNCHANGED <<session, legacy, queue, cancelled, conns, finishing>>
    BY <2>1, <2>3, SoleRests DEF session, callers, conns
  <2> QED BY <2>1, <2>2, <2>3
<1>4. CASE FinishCloses(g)
  <2>1. UNCHANGED <<session, legacy, queue, connected, callers>>
    BY <1>4 DEF FinishCloses
  <2>2. \A h \in Gens : ws'[h] # "none" => ws[h] # "none"
    BY <1>1, <1>4 DEF FinishCloses, FieldTypes
  <2> QED BY <2>1, <2>2, SoleRests DEF session, callers
<1>5. CASE FinishDrains(g)
  <2>1. /\ UNCHANGED <<session, legacy, connected, ws, callers>>
        /\ DrainStarts \/ DrainSkips \/ DrainContinues \/ DrainEnds
    BY <1>5 DEF FinishDrains, conns
  <2>2. Chained' /\ LatestEvent' = LatestEvent
    BY <1>1, <2>1, DrainChains DEF SoleInv
  <2> QED BY <2>1, <2>2, SoleRests DEF session, callers
<1>6. CASE startGatewayReconnect(g)
  <2>1. /\ UNCHANGED <<gatewayConnection, legacy, queue, connected, ws>>
        /\ gatewayLifecycle' \in {gatewayLifecycle, 0}
    BY <1>6 DEF startGatewayReconnect, StopLifecycle, StartReconnect, SkipReconnect, conns
  <2>2. pc' = pc \/ pc' = [pc EXCEPT ![g] = "backoff"]
    BY <1>6 DEF startGatewayReconnect, StartReconnect, SkipReconnect, Return, Goto, callers
  <2>3. \A u \in Users : pc'[u] = "compat" => pc[u] = "compat"
    BY <1>1, <2>2, Names DEF FieldTypes
  <2> QED BY <2>1, <2>3, SoleRests
<1> QED BY <1>2, <1>3, <1>4, <1>5, <1>6 DEF ListenerStep, FinishStep

LEMMA InitSole == Init => SoleInv
<1> SUFFICES ASSUME Init PROVE SoleInv
  OBVIOUS
<1>1. Compatible /\ FieldsFollow
  BY Names DEF Init, Compatible, FieldsFollow
<1>2. Len(events) = 0 /\ events = <<>> /\ lastEvent = <<"Disconnect", 0>>
  BY DEF Init
<1>3. Chained /\ LatestEvent[1] = "Disconnect"
  BY <1>2 DEF Chained, LatestEvent
<1>4. Told
  BY <1>3 DEF Init, Told
<1> QED BY <1>1, <1>3, <1>4 DEF SoleInv

LEMMA SoleKeeps == OneUser /\ OrderInv /\ SoleInv /\ [Next]_vars => SoleInv'
<1> SUFFICES ASSUME OneUser, OrderInv, SoleInv, [Next]_vars PROVE SoleInv'
  OBVIOUS
<1>1. IInv
  BY DEF OrderInv
<1>2. CASE UNCHANGED vars
  BY <1>2, SoleRests DEF vars, session, conns, callers
<1>3. ASSUME NEW u \in Users, OpenWithContext(u) \/ closeGateway(u) \/ CloseStep(u)
      PROVE  SoleInv'
  BY <1>1, <1>3, SoleUses
<1>4. ASSUME NEW c \in Callers, CallerStep(c) \/ ReceiveHello(c) PROVE SoleInv'
  BY <1>4, SoleTries
<1>5. ASSUME NEW g \in Gens, \/ ReadReady(g) \/ ReadLoss(g) \/ ListenerStep(g)
                             \/ HeartbeatFails(g) \/ Watch(g) \/ FinishStep(g)
      PROVE  SoleInv'
  BY <1>5, SoleGenerates
<1>6. ASSUME NEW l \in Lives, CancelContext(l) PROVE SoleInv'
  <2>1. 1 \in Gens
    BY BoundsAssumption DEF Gens
  <2> QED BY <1>6, <2>1, SoleGenerates
<1> QED BY <1>2, <1>3, <1>4, <1>5, <1>6 DEF Next

THEOREM SoleHolds == ASSUME OneUser PROVE Spec => []SoleInv
<1>1. Init => SoleInv
  BY InitSole
<1>2. OrderInv /\ SoleInv /\ [Next]_vars => SoleInv'
  BY SoleKeeps
<1> QED BY <1>1, <1>2, OrderHolds, PTL DEF Spec

(* With one goroutine that opens and closes, DataReady is true exactly     *)
(* while the current generation is connected, and its websocket is then the*)
(* Session's.                                                              *)
THEOREM DataReadyIsTrue == ASSUME OneUser PROVE Spec => []DataReadyMeansConnected
<1>1. ASSUME OrderInv, SoleInv, DataReady
      PROVE  wsConn \in Gens /\ wsConn = gatewayConnection /\ connected[wsConn]
  <2>1. gatewayConnection # 0 /\ connected[gatewayConnection]
    BY <1>1 DEF SoleInv, FieldsFollow
  <2>2. gatewayConnection \in Gens
    BY <1>1, <2>1, FieldsTyped, BoundsAssumption DEF OrderInv, FieldTypes, Gens
  <2>3. ws[gatewayConnection] # "none"
    BY <1>1, <2>1, <2>2 DEF OrderInv, IInv, Attachment
  <2> QED BY <1>1, <2>1, <2>2, <2>3 DEF SoleInv, FieldsFollow
<1>2. ASSUME OrderInv, SoleInv, NEW g \in Gens, connected[g] PROVE DataReady /\ wsConn = g
  <2>1. DataReady /\ gatewayConnection = g
    BY <1>2 DEF SoleInv, FieldsFollow, OrderInv, IInv, CoreInv, OneLiveGeneration
  <2> QED BY <1>1, <1>2, <2>1
<1>3. OrderInv /\ SoleInv => DataReadyMeansConnected
  BY <1>1, <1>2 DEF DataReadyMeansConnected
<1> QED BY <1>3, OrderHolds, SoleHolds, PTL

(* With one goroutine that opens and closes, the handlers see Connect and  *)
(* Disconnect in turn, each Disconnect for the generation of its Connect,  *)
(* and no event is stranded, whoever appends and whoever drains.           *)
THEOREM EventsInOrder == ASSUME OneUser PROVE Spec => []EventQueueInOrder
<1>1. ASSUME OrderInv, SoleInv PROVE EventsAlternate /\ NoStrandedEvent
  <2>1. events \in Seq(Events) /\ lastEvent \in Events
    BY <1>1 DEF OrderInv, IInv, CoreInv, TypeOK
  <2> QED BY <1>1, <2>1, ChainAlternates, DrainingSays DEF OrderInv, Order, SoleInv
<1>2. OrderInv /\ SoleInv => EventQueueInOrder
  BY <1>1 DEF EventQueueInOrder
<1> QED BY <1>2, OrderHolds, SoleHolds, PTL
=============================================================================
