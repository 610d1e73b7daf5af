--------------------------- MODULE GatewaySession ---------------------------
(***************************************************************************)
(* The Gateway side of dgo's Session (wsapi.go): Session lifetimes         *)
(* (gatewaySessionLifecycle), connection generations inside a lifetime     *)
(* (gatewayConnectionLifecycle), and the goroutines that race over them:   *)
(*                                                                         *)
(*   callers   user goroutines running OpenWithContext or Close, and the   *)
(*             reconnect goroutines; both run openGatewayGeneration        *)
(*   listener  the only reader of a generation                             *)
(*   watcher   finishes a generation whose context is done                 *)
(*   heartbeat finishes a generation whose heartbeat failed                *)
(*   finish    the body of conn.finish.Do, run by whoever calls it first   *)
(*                                                                         *)
(* A lifetime and a generation are numbered in creation order; 0 is nil.   *)
(* The reconnect goroutine started when generation g is lost is named g.   *)
(* The data a Resume needs (sessionID, sequence, resumeGatewayURL) has its *)
(* own lock and a module of its own, GatewayResume. The times that decide  *)
(* whether a heartbeat fails are left out, and so is gatewayState, which no*)
(* code reads.                                                             *)
(***************************************************************************)
EXTENDS Naturals, Sequences

CONSTANTS
    Users,                  \* goroutines of the program that uses the Session
    MaxLife,                \* bound: lifetimes (successful Open calls)
    MaxGen                  \* bound: connection generations

ASSUME BoundsAssumption == MaxLife \in Nat \ {0} /\ MaxGen \in Nat \ {0}
ASSUME UsersAssumption == Users \cap (0 .. MaxGen) = {}

Lives == 1 .. MaxLife
Gens == 1 .. MaxGen
Callers == Users \cup Gens

(* GatewayCloseRecovery and gatewayAttemptResult: a failure has err # nil. *)
Recoveries == {"Stop", "Resume", "Identify"}
Results == [kind : {"none", "success", "failure"},
            action : Recoveries, retry : BOOLEAN]
NoResult == [kind |-> "none", action |-> "Stop", retry |-> FALSE]
Success == [kind |-> "success", action |-> "Stop", retry |-> FALSE]
Failure(action, retry) ==
    [kind |-> "failure", action |-> action, retry |-> retry]
Canceled == Failure("Stop", FALSE)

VARIABLES
    (* fields of Session *)
    gatewayLifecycle, gatewayConnection, gatewayReconnectRunning,
    wsConn,             \* s.wsConn and s.listening, always set together
    DataReady,
    events,             \* gatewayEvents
    dispatching,        \* gatewayEventDispatching
    lastEvent,          \* last event handed to the handlers
    (* lifetimes *)
    lives,              \* gatewayLifecycleCounter
    cancelled,          \* lifetimes whose context is done
    (* generations *)
    gens,               \* gatewayConnectionCounter
    lifeOf, ws, connected,
    ready,              \* the one-slot ready channel; NoResult = empty
    ctxDone,            \* generations whose cancel was called
    stopClosed,         \* generations whose stop channel is closed
    (* conn.finish *)
    finish,             \* how far the body of the Once has run
    recovery,           \* the recovery it was called with
    willReconnect,      \* it will call startGatewayReconnect
    (* goroutines *)
    pc, life, cur, res, \* callers: state, lifetime, generation, result
    listener,           \* listeners: state, and the recovery they will ask for
    loss,
    (* Discord's side of a generation *)
    auth

session == <<gatewayLifecycle, gatewayConnection, gatewayReconnectRunning>>
legacy == <<wsConn, DataReady>>
queue == <<events, dispatching, lastEvent>>
counters == <<lives, gens>>
conns == <<lifeOf, ws, connected, ready, ctxDone, stopClosed>>
finishing == <<finish, recovery, willReconnect>>
callers == <<pc, life, cur, res>>
readers == <<listener, loss, auth>>
vars == <<session, legacy, queue, counters, cancelled, conns, finishing,
          callers, readers>>

Events == {"Connect", "Disconnect"} \X (0 .. MaxGen)
Phases == {"idle", "close", "drain", "handling", "reconnect", "done"}
CallerStates == {"idle", "begin", "dial", "attach", "hello",
                 "auth", "wait", "activate", "drain", "handling",
                 "finish", "abort", "result", "backoff", "stop", "defer",
                 "closing", "compat", "closeDrain", "closeHandling", "closed"}
ListenerStates == {"none", "read", "process", "finish", "done"}

TypeOK ==
    /\ gatewayLifecycle \in 0 .. MaxLife
    /\ gatewayConnection \in 0 .. MaxGen
    /\ gatewayReconnectRunning \in BOOLEAN
    /\ wsConn \in 0 .. MaxGen
    /\ DataReady \in BOOLEAN
    /\ events \in Seq(Events)
    /\ dispatching \in BOOLEAN
    /\ lastEvent \in Events
    /\ lives \in 0 .. MaxLife
    /\ cancelled \in SUBSET Lives
    /\ gens \in 0 .. MaxGen
    /\ lifeOf \in [Gens -> 0 .. MaxLife]
    /\ ws \in [Gens -> {"none", "open", "closed"}]
    /\ connected \in [Gens -> BOOLEAN]
    /\ ready \in [Gens -> Results]
    /\ ctxDone \in SUBSET Gens
    /\ stopClosed \in SUBSET Gens
    /\ finish \in [Gens -> Phases]
    /\ recovery \in [Gens -> Recoveries]
    /\ willReconnect \in [Gens -> BOOLEAN]
    /\ auth \in [Gens -> {"none", "sent", "ready"}]
    /\ pc \in [Callers -> CallerStates]
    /\ life \in [Callers -> 0 .. MaxLife]
    /\ cur \in [Callers -> 0 .. MaxGen]
    /\ res \in [Callers -> Results]
    /\ listener \in [Gens -> ListenerStates]
    /\ loss \in [Gens -> Recoveries]

Init ==
    /\ gatewayLifecycle = 0 /\ gatewayConnection = 0
    /\ gatewayReconnectRunning = FALSE
    /\ wsConn = 0 /\ DataReady = FALSE
    /\ events = <<>> /\ dispatching = FALSE /\ lastEvent = <<"Disconnect", 0>>
    /\ lives = 0 /\ gens = 0 /\ cancelled = {}
    /\ lifeOf = [g \in Gens |-> 0]
    /\ ws = [g \in Gens |-> "none"]
    /\ connected = [g \in Gens |-> FALSE]
    /\ ready = [g \in Gens |-> NoResult]
    /\ ctxDone = {} /\ stopClosed = {}
    /\ finish = [g \in Gens |-> "idle"]
    /\ recovery = [g \in Gens |-> "Stop"]
    /\ willReconnect = [g \in Gens |-> FALSE]
    /\ auth = [g \in Gens |-> "none"]
    /\ pc = [c \in Callers |-> "idle"]
    /\ life = [c \in Callers |-> 0]
    /\ cur = [c \in Callers |-> 0]
    /\ res = [c \in Callers |-> NoResult]
    /\ listener = [g \in Gens |-> "none"]
    /\ loss = [g \in Gens |-> "Stop"]

-----------------------------------------------------------------------------
(* conn.ctx derives from the lifetime's context and has its own cancel.    *)
(* Mutant: it does not derive from it.                                     *)
CtxDoneMutant(g) == g \in ctxDone
CtxDone(g) == g \in ctxDone \/ lifeOf[g] \in cancelled

Goto(c, state) == pc' = [pc EXCEPT ![c] = state]
Return(c, state, r) == Goto(c, state) /\ res' = [res EXCEPT ![c] = r]

(* The call returns to the user, or the goroutine ends.                    *)
Exit(c) ==
    /\ Return(c, "idle", NoResult)
    /\ life' = [life EXCEPT ![c] = 0]
    /\ cur' = [cur EXCEPT ![c] = 0]

(* drainGatewayEvents: the first drainer pops and handles until the queue  *)
(* is empty, the others return at once. Mutant: the head is not removed.   *)
DispatchNextMutant ==
    /\ lastEvent' = Head(events)
    /\ dispatching' = TRUE
    /\ UNCHANGED events
DispatchNext ==
    /\ lastEvent' = Head(events)
    /\ events' = Tail(events)
    /\ dispatching' = TRUE

DrainStarts == ~dispatching /\ events # <<>> /\ DispatchNext
DrainSkips == (dispatching \/ events = <<>>) /\ UNCHANGED queue
DrainContinues == events # <<>> /\ DispatchNext
DrainEnds ==
    events = <<>> /\ dispatching' = FALSE /\ UNCHANGED <<events, lastEvent>>

-----------------------------------------------------------------------------
(* finishGatewayGeneration and abortGatewayGeneration: conn.finish.Do runs *)
(* one body. Later callers wait until finish[g] = "done".                  *)

(* Only a generation that was connected announces its end. Mutant: every   *)
(* generation does.                                                        *)
AfterLossMutant(g) == Append(events, <<"Disconnect", g>>)
AfterLoss(g) ==
    IF connected[g] THEN Append(events, <<"Disconnect", g>>) ELSE events

(* The Session's fields still name the websocket of g. Mutant: they are    *)
(* left alone.                                                             *)
NamesWebsocketMutant(g) == FALSE
NamesWebsocket(g) ==
    gatewayConnection = g /\ wsConn = (IF ws[g] = "none" THEN 0 ELSE g)

(* The part of the body under gatewayLifecycleMu, and the result offered to*)
(* the opener: nobody can tell the two apart in time.                      *)
FinishCritical(g, r) ==
    LET l == lifeOf[g]
        owner == gatewayLifecycle = l
        wasCurrent == gatewayConnection = g
        stops == connected[g] /\ r.action = "Stop" /\ owner
        active == owner /\ l \notin cancelled /\ ~stops
    IN  /\ finish[g] = "idle"
        /\ connected' = [connected EXCEPT ![g] = FALSE]
        /\ gatewayConnection' = IF wasCurrent THEN 0 ELSE gatewayConnection
        /\ IF NamesWebsocket(g)
           THEN wsConn' = 0 /\ DataReady' = FALSE
           ELSE UNCHANGED legacy
        /\ cancelled' = IF stops THEN cancelled \cup {l} ELSE cancelled
        /\ IF owner /\ ~active
           THEN gatewayLifecycle' = 0 /\ gatewayReconnectRunning' = FALSE
           ELSE UNCHANGED <<gatewayLifecycle, gatewayReconnectRunning>>
        /\ events' = AfterLoss(g)
        /\ finish' = [finish EXCEPT ![g] = "close"]
        /\ ready' = IF ~connected[g] /\ ready[g] = NoResult
                    THEN [ready EXCEPT ![g] = r] ELSE ready
        /\ recovery' = [recovery EXCEPT ![g] = r.action]
        /\ willReconnect' = [willReconnect EXCEPT ![g] =
                                connected[g] /\ wasCurrent /\ active /\ r.retry]
        /\ UNCHANGED <<dispatching, lastEvent, lifeOf, ws, ctxDone, stopClosed>>

(* Mutant: an aborted generation stays current.                            *)
ReleasedMutant(g) == gatewayConnection
Released(g) == IF gatewayConnection = g THEN 0 ELSE gatewayConnection

AbortCritical(g) ==
    LET l == lifeOf[g]
        release == gatewayLifecycle = l /\ l \in cancelled
    IN  /\ finish[g] = "idle"
        /\ gatewayConnection' = Released(g)
        /\ gatewayLifecycle' = IF release THEN 0 ELSE gatewayLifecycle
        /\ gatewayReconnectRunning' = (gatewayReconnectRunning /\ ~release)
        /\ ctxDone' = ctxDone \cup {g}
        /\ stopClosed' = stopClosed \cup {g}
        /\ finish' = [finish EXCEPT ![g] = "done"]
        /\ UNCHANGED <<legacy, queue, cancelled, lifeOf, ws, connected, ready,
                       recovery, willReconnect>>

(* stopGatewayLifecycle. Its finish call on a current generation is never  *)
(* reached (StopFindsNoConnection), so the lifetime is all it changes.     *)
StopLifecycle(l) ==
    IF gatewayLifecycle = l
    THEN /\ gatewayLifecycle' = 0 /\ gatewayReconnectRunning' = FALSE
         /\ cancelled' = cancelled \cup {l}
    ELSE UNCHANGED <<gatewayLifecycle, gatewayReconnectRunning, cancelled>>

(* The rest of the body, after the lock is released.                       *)
Advance(g, phase) == finish' = [finish EXCEPT ![g] = phase]

FinishCloses(g) ==
    /\ finish[g] = "close"
    /\ ctxDone' = ctxDone \cup {g}
    /\ stopClosed' = stopClosed \cup {g}
    /\ ws' = [ws EXCEPT ![g] = IF @ = "none" THEN @ ELSE "closed"]
    /\ Advance(g, "drain")
    /\ UNCHANGED <<session, legacy, queue, counters, cancelled, lifeOf,
                   connected, ready, recovery, willReconnect, callers,
                   readers>>

AfterDrain(g) == IF willReconnect[g] THEN "reconnect" ELSE "done"

FinishDrains(g) ==
    /\ \/ /\ finish[g] = "drain"
          /\ \/ DrainStarts /\ Advance(g, "handling")
             \/ DrainSkips /\ Advance(g, AfterDrain(g))
       \/ /\ finish[g] = "handling"
          /\ \/ DrainContinues /\ Advance(g, "handling")
             \/ DrainEnds /\ Advance(g, AfterDrain(g))
    /\ UNCHANGED <<session, legacy, counters, cancelled, conns, recovery,
                   willReconnect, callers, readers>>

(* Mutant: a goroutine that is already reconnecting is not looked at.      *)
MayReconnectMutant(g) ==
    /\ gatewayLifecycle = lifeOf[g] /\ lifeOf[g] \notin cancelled
    /\ gatewayConnection = 0
MayReconnect(g) ==
    /\ gatewayLifecycle = lifeOf[g] /\ lifeOf[g] \notin cancelled
    /\ ~gatewayReconnectRunning /\ gatewayConnection = 0

(* startGatewayReconnect: start the reconnect goroutine g, unless another  *)
(* one is marked as running or the lifetime has moved on. The user may set *)
(* ShouldReconnectOnError at any time; without it the lifetime is stopped. *)
StartReconnect(g) ==
    /\ MayReconnect(g)
    /\ gatewayReconnectRunning' = TRUE
    /\ Return(g, "backoff", Failure(recovery[g], TRUE))
    /\ life' = [life EXCEPT ![g] = lifeOf[g]]
    /\ UNCHANGED <<gatewayLifecycle, cancelled, cur>>

SkipReconnect(g) ==
    /\ ~MayReconnect(g)
    /\ UNCHANGED <<gatewayLifecycle, gatewayReconnectRunning, cancelled, callers>>

startGatewayReconnect(g) ==
    /\ finish[g] = "reconnect"
    /\ \/ StopLifecycle(lifeOf[g]) /\ UNCHANGED callers
       \/ StartReconnect(g)
       \/ SkipReconnect(g)
    /\ Advance(g, "done")
    /\ UNCHANGED <<gatewayConnection, legacy, queue, counters, conns,
                   recovery, willReconnect, readers>>

FinishStep(g) ==
    FinishCloses(g) \/ FinishDrains(g) \/ startGatewayReconnect(g)

-----------------------------------------------------------------------------
(* openGatewayGeneration, run by a user's Open or by a reconnect goroutine.*)

MayOpen == gatewayLifecycle = 0 /\ gatewayConnection = 0 /\ wsConn = 0

(* beginGatewayLifecycle. The ErrWSAlreadyOpen return changes nothing.     *)
OpenWithContext(u) ==
    /\ pc[u] = "idle"
    /\ MayOpen
    /\ lives < MaxLife
    /\ lives' = lives + 1
    /\ gatewayLifecycle' = lives + 1
    /\ life' = [life EXCEPT ![u] = lives + 1]
    /\ Goto(u, "begin")
    /\ UNCHANGED <<gatewayConnection, gatewayReconnectRunning, legacy,
                   queue, gens, cancelled, conns, finishing, cur, res,
                   readers>>

MayBegin(c) ==
    /\ gatewayLifecycle = life[c] /\ life[c] \notin cancelled
    /\ gatewayConnection = 0

beginGatewayGeneration(c) ==
    /\ pc[c] = "begin"
    /\ \/ /\ ~MayBegin(c)
          /\ Return(c, "result", Canceled)
          /\ UNCHANGED <<gatewayConnection, gens, lifeOf, cur>>
       \/ /\ MayBegin(c) /\ gens < MaxGen
          /\ gens' = gens + 1
          /\ lifeOf' = [lifeOf EXCEPT ![gens + 1] = life[c]]
          /\ gatewayConnection' = gens + 1
          /\ cur' = [cur EXCEPT ![c] = gens + 1]
          /\ Goto(c, "dial")
          /\ UNCHANGED res
    /\ UNCHANGED <<gatewayLifecycle, gatewayReconnectRunning, legacy,
                   queue, lives, cancelled, ws, connected, ready, ctxDone,
                   stopClosed, finishing, life, readers>>

(* initialGateway, gatewayConnectURL and the dial: a URL that is refused   *)
(* stops, a failed fetch or dial may be tried again.                       *)
Dial(c) ==
    /\ pc[c] = "dial"
    /\ \/ Goto(c, "attach") /\ UNCHANGED res
       \/ \E action \in {"Resume", "Stop"} :
            Return(c, "abort", Failure(action, FALSE))
    /\ UNCHANGED <<session, legacy, queue, counters, cancelled, conns,
                   finishing, life, cur, readers>>

(* What attach and activate look at under gatewayLifecycleMu.              *)
StillCurrent(g) ==
    gatewayLifecycle = lifeOf[g] /\ gatewayConnection = g /\ ~CtxDone(g)

attachGatewayWebsocket(c) ==
    LET g == cur[c]
    IN  /\ pc[c] = "attach"
        /\ \/ /\ ~StillCurrent(g)
              /\ Return(c, "abort", Canceled)
              /\ UNCHANGED <<legacy, ws>>
           \/ /\ StillCurrent(g)
              /\ ws' = [ws EXCEPT ![g] = "open"]
              /\ wsConn' = g /\ DataReady' = FALSE
              /\ Goto(c, "hello")
              /\ UNCHANGED res
        /\ UNCHANGED <<session, queue, counters, cancelled, lifeOf,
                       connected, ready, ctxDone, stopClosed, finishing,
                       life, cur, readers>>

abortGatewayGeneration(c) ==
    /\ pc[c] = "abort"
    /\ \/ AbortCritical(cur[c])
       \/ /\ finish[cur[c]] = "done"
          /\ UNCHANGED <<session, legacy, queue, cancelled, conns, finishing>>
    /\ Goto(c, "result")
    /\ UNCHANGED <<counters, life, cur, res, readers>>

(* The first message: HELLO starts the heartbeat and the listener, anything*)
(* else is an error.                                                       *)
ReceiveHello(c) ==
    LET g == cur[c]
    IN  /\ pc[c] = "hello" /\ ws[g] = "open"
        /\ \/ /\ Goto(c, "auth")
              /\ listener' = [listener EXCEPT ![g] = "read"]
              /\ UNCHANGED res
           \/ /\ \E r \in {Canceled} \cup {Failure(a, TRUE) : a \in Recoveries} :
                     Return(c, "finish", r)
              /\ UNCHANGED listener
        /\ UNCHANGED <<session, legacy, queue, counters, cancelled,
                       conns, finishing, life, cur, loss, auth>>

(* Reading HELLO from a websocket this side has closed.                    *)
HelloReadFails(c) ==
    /\ pc[c] = "hello" /\ ws[cur[c]] = "closed"
    /\ Return(c, "finish", Failure("Resume", TRUE))
    /\ UNCHANGED <<session, legacy, queue, counters, cancelled, conns,
                   finishing, life, cur, readers>>

(* authenticateGatewayGeneration: wait for the identify coordinator if an  *)
(* Identify is due, then write the Identify or the Resume.                 *)
authenticateGatewayGeneration(c) ==
    LET g == cur[c]
    IN  /\ pc[c] = "auth"
        /\ \/ /\ ~CtxDone(g)
              /\ auth' = [auth EXCEPT ![g] = "sent"]
              /\ Goto(c, "wait")
              /\ UNCHANGED res
           \/ /\ Return(c, "finish", Failure("Resume", FALSE))
              /\ UNCHANGED auth
        /\ UNCHANGED <<session, legacy, queue, counters, cancelled, conns,
                       finishing, life, cur, listener, loss>>

(* The select on conn.ready and conn.ctx.Done().                           *)
WaitReady(c) ==
    LET g == cur[c]
    IN  /\ pc[c] = "wait"
        /\ \/ /\ ready[g] # NoResult
              /\ ready' = [ready EXCEPT ![g] = NoResult]
              /\ Return(c, IF ready[g] = Success THEN "activate" ELSE "result",
                        ready[g])
           \/ /\ CtxDone(g) /\ ready[g] # NoResult
              /\ ready' = [ready EXCEPT ![g] = NoResult]
              /\ Return(c, "result", ready[g])
           \/ /\ CtxDone(g) /\ ready[g] = NoResult
              /\ Return(c, "finish", Canceled)
              /\ UNCHANGED ready
        /\ UNCHANGED <<session, legacy, queue, counters, cancelled,
                       lifeOf, ws, connected, ctxDone, stopClosed, finishing, life, cur, readers>>

activateGatewayGeneration(c) ==
    LET g == cur[c]
    IN  /\ pc[c] = "activate"
        /\ \/ /\ ~StillCurrent(g)
              /\ Return(c, "finish", Canceled)
              /\ UNCHANGED <<connected, DataReady, events>>
           \/ /\ StillCurrent(g)
              /\ connected' = [connected EXCEPT ![g] = TRUE]
              /\ DataReady' = TRUE
              /\ events' = Append(events, <<"Connect", g>>)
              /\ Goto(c, "drain")
              /\ UNCHANGED res
        /\ UNCHANGED <<session, wsConn, dispatching, lastEvent,
                       counters, cancelled, lifeOf, ws, ready, ctxDone,
                       stopClosed, finishing, life, cur, readers>>

ActivateDrains(c) ==
    /\ \/ /\ pc[c] = "drain"
          /\ \/ DrainStarts /\ Goto(c, "handling")
             \/ DrainSkips /\ Goto(c, "result")
       \/ /\ pc[c] = "handling"
          /\ \/ DrainContinues /\ UNCHANGED pc
             \/ DrainEnds /\ Goto(c, "result")
    /\ UNCHANGED <<session, legacy, counters, cancelled, conns,
                   finishing, life, cur, res, readers>>

(* A failing attempt finishes its generation, or waits for whoever does.   *)
FinishAttempt(c) ==
    /\ pc[c] = "finish"
    /\ \/ /\ FinishCritical(cur[c], res[c])
          /\ UNCHANGED pc
       \/ /\ finish[cur[c]] = "done"
          /\ Goto(c, "result")
          /\ UNCHANGED <<session, legacy, queue, cancelled, conns, finishing>>
    /\ UNCHANGED <<counters, life, cur, res, readers>>

OpenStep(c) ==
    \/ beginGatewayGeneration(c) \/ Dial(c) \/ attachGatewayWebsocket(c)
    \/ abortGatewayGeneration(c) \/ HelloReadFails(c)
    \/ authenticateGatewayGeneration(c) \/ WaitReady(c)
    \/ activateGatewayGeneration(c) \/ ActivateDrains(c) \/ FinishAttempt(c)

-----------------------------------------------------------------------------
(* What a caller does with the result: connectGatewayUntilReady for a user,*)
(* the loop of startGatewayReconnect for a reconnect goroutine.            *)
Leave(c) == IF c \in Users THEN "stop" ELSE "defer"

HandleResult(c) ==
    LET r == res[c]
        fatal == r.action = "Stop" \/ (c \in Users /\ ~r.retry)
        next == CASE r = Success /\ c \notin Users -> "defer"
                  [] r # Success /\ life[c] \in cancelled -> Leave(c)
                  [] r # Success /\ life[c] \notin cancelled /\ fatal -> "stop"
                  [] OTHER -> "backoff"
    IN  /\ pc[c] = "result"
        /\ IF r = Success /\ c \in Users
           THEN Exit(c)
           ELSE Goto(c, next) /\ UNCHANGED <<life, cur, res>>
        /\ UNCHANGED <<session, legacy, queue, counters, cancelled, conns,
                       finishing, readers>>

(* waitGatewayContext: the timer, or the end of the lifetime.              *)
waitGatewayContext(c) ==
    /\ pc[c] = "backoff"
    /\ \/ Goto(c, "begin")
       \/ life[c] \in cancelled /\ Goto(c, Leave(c))
    /\ UNCHANGED <<session, legacy, queue, counters, cancelled, conns,
                   finishing, life, cur, res, readers>>

stopGatewayLifecycle(c) ==
    /\ pc[c] = "stop"
    /\ StopLifecycle(life[c])
    /\ IF c \in Users THEN Exit(c)
                      ELSE Goto(c, "defer") /\ UNCHANGED <<life, cur, res>>
    /\ UNCHANGED <<gatewayConnection, legacy, queue, counters, conns, finishing,
                   readers>>

(* The deferred function of the reconnect goroutine, after which it ends.  *)
EndReconnect(c) ==
    /\ pc[c] = "defer"
    /\ gatewayReconnectRunning' = (gatewayReconnectRunning
                                     /\ gatewayLifecycle # life[c])
    /\ Exit(c)
    /\ UNCHANGED <<gatewayLifecycle, gatewayConnection, legacy, queue, counters,
                   cancelled, conns, finishing, readers>>

CallerStep(c) ==
    \/ OpenStep(c) \/ HandleResult(c) \/ waitGatewayContext(c)
    \/ stopGatewayLifecycle(c) \/ EndReconnect(c)

-----------------------------------------------------------------------------
(* Close and CloseWithCode.                                                *)
closeGateway(u) ==
    /\ pc[u] = "idle"
    /\ life' = [life EXCEPT ![u] = gatewayLifecycle]
    /\ cur' = [cur EXCEPT ![u] = gatewayConnection]
    /\ IF gatewayLifecycle # 0
       THEN StopLifecycle(gatewayLifecycle)
       ELSE UNCHANGED <<gatewayLifecycle, gatewayReconnectRunning, cancelled>>
    /\ Goto(u, IF gatewayConnection # 0 THEN "closing" ELSE "compat")
    /\ UNCHANGED <<gatewayConnection, legacy, queue, counters, conns,
                   finishing, res, readers>>

CloseFinishes(u) ==
    /\ pc[u] = "closing"
    /\ \/ FinishCritical(cur[u], Canceled) /\ UNCHANGED pc
       \/ /\ finish[cur[u]] = "done"
          /\ Goto(u, "closed")
          /\ UNCHANGED <<session, legacy, queue, cancelled, conns, finishing>>
    /\ UNCHANGED <<counters, life, cur, res, readers>>

(* The channel s.listening, if any. Mutant: nil is closed too.             *)
LegacyChannelMutant == {wsConn}
LegacyChannel == {wsConn} \cap Gens

(* The path for a Session without a managed generation: whatever websocket *)
(* the fields name now is closed.                                          *)
CloseLegacy(u) ==
    /\ pc[u] = "compat"
    /\ wsConn' = 0 /\ DataReady' = FALSE
    /\ ws' = [g \in Gens |-> IF g = wsConn THEN "closed" ELSE ws[g]]
    /\ stopClosed' = stopClosed \cup LegacyChannel
    /\ IF wsConn # 0 \/ DataReady
       THEN events' = Append(events, <<"Disconnect", wsConn>>) /\ Goto(u, "closeDrain")
       ELSE Goto(u, "closed") /\ UNCHANGED events
    /\ UNCHANGED <<session, dispatching, lastEvent, counters, cancelled,
                   lifeOf, connected, ready, ctxDone, finishing, life,
                   cur, res, readers>>

CloseDrains(u) ==
    /\ \/ /\ pc[u] = "closeDrain"
          /\ \/ DrainStarts /\ Goto(u, "closeHandling")
             \/ DrainSkips /\ Goto(u, "closed")
       \/ /\ pc[u] = "closeHandling"
          /\ \/ DrainContinues /\ UNCHANGED pc
             \/ DrainEnds /\ Goto(u, "closed")
    /\ UNCHANGED <<session, legacy, counters, cancelled, conns,
                   finishing, life, cur, res, readers>>

(* CloseWithCode returns to the user.                                      *)
CloseWithCode(u) ==
    /\ pc[u] = "closed"
    /\ Exit(u)
    /\ UNCHANGED <<session, legacy, queue, counters, cancelled, conns,
                   finishing, readers>>

CloseStep(u) ==
    CloseFinishes(u) \/ CloseLegacy(u) \/ CloseDrains(u) \/ CloseWithCode(u)

(* The context given to OpenWithContext is cancelled.                      *)
CancelContext(l) ==
    /\ l <= lives /\ l \notin cancelled
    /\ cancelled' = cancelled \cup {l}
    /\ UNCHANGED <<session, legacy, queue, counters, conns, finishing, callers, readers>>

-----------------------------------------------------------------------------
(* listen: the only reader of generation g.                                *)
Listening(g, state) == listener' = [listener EXCEPT ![g] = state]
Losing(g, action) ==
    Listening(g, "finish") /\ loss' = [loss EXCEPT ![g] = action]

(* READY or RESUMED answers the authentication; a dispatch changes nothing *)
(* here. The context was checked after the read, before onEvent.           *)
ReadReady(g) ==
    /\ listener[g] = "read" /\ ws[g] = "open" /\ ~CtxDone(g)
    /\ auth[g] = "sent"
    /\ auth' = [auth EXCEPT ![g] = "ready"]
    /\ Listening(g, "process")
    /\ UNCHANGED <<session, legacy, queue, counters, cancelled, conns,
                   finishing, callers, loss>>

(* Op 7 and a resumable op 9 ask for a Resume, another op 9 for an         *)
(* Identify; a read error for what its close code says.                    *)
ReadLoss(g) ==
    /\ listener[g] = "read" /\ ws[g] = "open" /\ ~CtxDone(g)
    /\ \E action \in Recoveries : Losing(g, action)
    /\ UNCHANGED <<session, legacy, queue, counters, cancelled, conns,
                   finishing, callers, auth>>

(* Reading from a websocket this side has closed.                          *)
ReadClosed(g) ==
    /\ listener[g] = "read" /\ ws[g] = "closed"
    /\ \/ CtxDone(g) /\ Listening(g, "done") /\ UNCHANGED loss
       \/ ~CtxDone(g) /\ Losing(g, "Resume")
    /\ UNCHANGED <<session, legacy, queue, counters, cancelled, conns,
                   finishing, callers, auth>>

(* onEvent and the handlers are done with READY or RESUMED: tell the       *)
(* opener, if the channel has room.                                        *)
PublishReady(g) ==
    /\ listener[g] = "process"
    /\ ready' = IF ready[g] = NoResult THEN [ready EXCEPT ![g] = Success]
                                       ELSE ready
    /\ Listening(g, "read")
    /\ UNCHANGED <<session, legacy, queue, counters, cancelled, lifeOf, ws,
                   connected, ctxDone, stopClosed, finishing, callers, loss,
                   auth>>

ListenerFinishes(g) ==
    /\ listener[g] = "finish"
    /\ \/ FinishCritical(g, Failure(loss[g], loss[g] # "Stop"))
       \/ /\ finish[g] # "idle"
          /\ UNCHANGED <<session, legacy, queue, cancelled, conns, finishing>>
    /\ Listening(g, "done") /\ loss' = [loss EXCEPT ![g] = "Stop"]
    /\ UNCHANGED <<counters, callers, auth>>

ListenerStep(g) == ReadClosed(g) \/ PublishReady(g) \/ ListenerFinishes(g)

(* heartbeat: a missing acknowledgement or a failed write.                 *)
HeartbeatFails(g) ==
    /\ listener[g] # "none"
    /\ FinishCritical(g, Failure("Resume", TRUE))
    /\ UNCHANGED <<counters, callers, readers>>

(* The goroutine that waits for conn.ctx.Done() or conn.stop.              *)
Watch(g) ==
    /\ ws[g] # "none" /\ CtxDone(g)
    /\ FinishCritical(g, Canceled)
    /\ UNCHANGED <<counters, callers, readers>>

-----------------------------------------------------------------------------
Next ==
    \/ \E u \in Users : OpenWithContext(u) \/ closeGateway(u) \/ CloseStep(u)
    \/ \E c \in Callers : CallerStep(c) \/ ReceiveHello(c)
    \/ \E g \in Gens : \/ ReadReady(g) \/ ReadLoss(g) \/ ListenerStep(g)
                       \/ HeartbeatFails(g) \/ Watch(g) \/ FinishStep(g)
    \/ \E l \in Lives : CancelContext(l)

Spec == Init /\ [][Next]_vars

(* Goroutines keep running, handlers return, a dial ends; what the network *)
(* delivers and when users call Open or Close is up to them.               *)
Fairness ==
    /\ \A u \in Users : WF_vars(CloseStep(u))
    /\ \A c \in Callers : WF_vars(CallerStep(c))
    /\ \A g \in Gens : /\ WF_vars(ListenerStep(g))
                       /\ WF_vars(FinishStep(g))
                       /\ WF_vars(Watch(g))

FairSpec == Spec /\ Fairness

-----------------------------------------------------------------------------
(* Properties.                                                             *)

(* A generation is current exactly from beginGatewayGeneration until its   *)
(* finish or abort, whoever wins conn.finish: two generations never live at*)
(* once, a finished one is never current again, and wsConn and connected   *)
(* only ever refer to the current one.                                     *)
OneLiveGeneration ==
    /\ \A g \in Gens : gatewayConnection = g <=> (g <= gens /\ finish[g] = "idle")
    /\ wsConn # 0 => wsConn = gatewayConnection
    /\ \A g \in Gens : connected[g] => gatewayConnection = g

(* DataReady, which guards the public write helpers, is true only while the*)
(* current generation is connected and its websocket is the Session's; what*)
(* is left of an earlier generation never takes it from a connected one.   *)
DataReadyMeansConnected ==
    /\ DataReady => /\ wsConn \in Gens /\ wsConn = gatewayConnection
                    /\ connected[wsConn]
    /\ \A g \in Gens : connected[g] => DataReady /\ wsConn = g

(* The handlers see Connect and Disconnect in turn, each Disconnect for the*)
(* generation of the Connect before it, although different goroutines      *)
(* enqueue and drain.                                                      *)
EventsAlternate ==
    LET seen == <<lastEvent>> \o events
    IN  \A i \in 1 .. Len(seen) - 1 :
            IF seen[i][1] = "Connect" THEN seen[i + 1] = <<"Disconnect", seen[i][2]>>
                                      ELSE seen[i + 1][1] = "Connect"

(* drainGatewayEvents returns early when another goroutine dispatches: no  *)
(* event is left behind by that, and only one goroutine dispatches.        *)
NoStrandedEvent ==
    LET dispatchers == {g \in Gens : finish[g] = "handling"}
        openers == {c \in Callers : pc[c] \in {"handling", "closeHandling"}}
    IN  /\ events # <<>> => \/ dispatching
                            \/ \E g \in Gens : finish[g] \in {"close", "drain"}
                            \/ \E c \in Callers : pc[c] \in {"drain", "closeDrain"}
        /\ dispatching <=> (dispatchers # {} \/ openers # {})
        /\ \A g, h \in dispatchers : g = h
        /\ \A c, d \in openers : c = d
        /\ dispatchers = {} \/ openers = {}

(* One lifetime has at most one reconnect goroutine, and while it works    *)
(* gatewayReconnectRunning says so.                                        *)
AtMostOneReconnector ==
    \A g, h \in Gens :
        (/\ pc[g] # "idle" /\ life[g] = gatewayLifecycle
         /\ pc[h] # "idle" /\ life[h] = gatewayLifecycle)
        => g = h /\ gatewayReconnectRunning

(* stopGatewayLifecycle never finds a current generation of the lifetime it*)
(* stops: every path to it has finished its own generation, and nobody else*)
(* opens one in the same lifetime.                                         *)
StopFindsNoConnection ==
    /\ \A c \in Callers :
          pc[c] = "stop" /\ life[c] = gatewayLifecycle => gatewayConnection = 0
    /\ \A g \in Gens :
          finish[g] = "reconnect" /\ gatewayLifecycle = lifeOf[g]
          => gatewayConnection = 0

(* The queue of Connect and Disconnect events, and the reconnecting that   *)
(* finish starts, keep these rules whoever drains, finishes or reconnects. *)
EventQueueInOrder == EventsAlternate /\ NoStrandedEvent
ReconnectInOrder == AtMostOneReconnector /\ StopFindsNoConnection

(* When Close returns, no generation of the lifetime it ended is live or   *)
(* connected, however its opener, reconnect goroutine and listener raced.  *)
CloseLeavesNothing ==
    \A u \in Users : pc[u] = "closed" /\ life[u] # 0 =>
        \A g \in 1 .. gens : lifeOf[g] = life[u] =>
            finish[g] # "idle" /\ ~connected[g] /\ wsConn # g

(* close(conn.stop) runs once: a second close of the channel would panic.  *)
(* It holds with one user; with two it does not (GatewayCloseOpenRace.cfg).*)
NoDoubleClose == \A g \in Gens : finish[g] = "close" => g \notin stopClosed

(* Close returns: conn.finish, the handlers and the drain never wait for   *)
(* each other in a cycle.                                                  *)
CloseReturns ==
    \A u \in Users :
        pc[u] \in {"closing", "compat", "closeDrain", "closeHandling", "closed"}
        ~> pc[u] = "idle"

(* Cancelling the context given to OpenWithContext ends every generation   *)
(* of that lifetime and the goroutines that open them.                     *)
CancelStops ==
    \A l \in Lives :
        l \in cancelled ~> /\ \A g \in Gens : lifeOf[g] = l => finish[g] = "done"
                          /\ \A c \in Callers : life[c] = l => pc[c] = "idle"

(* A reconnect goroutine gives the lifetime up only for a loss that was    *)
(* terminal: a generation lost with recovery Resume or Identify is retried.*)
StopOnlyWhenTerminal ==
    \A g \in Gens : pc[g] = "stop" /\ cur[g] # 0 => recovery[cur[g]] = "Stop"

(* startGatewayReconnect declines only when another goroutine will still   *)
(* try: a reconnect goroutine that has its success already will not.       *)
SkippedReconnectHasOwner ==
    \A g \in Gens :
        /\ finish[g] = "reconnect" /\ gatewayReconnectRunning
        /\ gatewayLifecycle = lifeOf[g] /\ lifeOf[g] \notin cancelled
        => \E r \in Gens : /\ life[r] = lifeOf[g]
                           /\ pc[r] \notin {"idle", "drain", "handling", "defer"}
                           /\ pc[r] = "result" => res[r] # Success

(* A reconnect goroutine that leaves a cancelled lifetime without a        *)
(* generation does not leave the Session marked as open: nobody else would *)
(* clear it, and Open would return ErrWSAlreadyOpen.                       *)
CancelledLifetimeReleased ==
    \A g \in Gens :
        pc[g] = "defer" /\ life[g] \in cancelled /\ gatewayConnection = 0
        => gatewayLifecycle # life[g]
=============================================================================
