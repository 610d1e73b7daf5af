---------------------------- MODULE VoiceConnection ----------------------------
(***************************************************************************)
(* One VoiceConnection (voice.go) and the goroutines that open, read,      *)
(* resume, reconnect and close its transport: the handlers of Discord's    *)
(* voice server updates, the listener, heartbeat and resume of each        *)
(* websocket generation, the UDP receiver, the reconnect loop, the user,   *)
(* and Session.Close.                                                      *)
(*                                                                         *)
(* Discord and the network are external: messages, close codes and errors  *)
(* arrive in any order, except that a websocket gets one session           *)
(* description, once its UDP connection is open; timers end at any time.   *)
(* Once the connection has left session.VoiceConnections, a join creates   *)
(* another object; what becomes of that one is not followed. Audio,        *)
(* sequence numbers and DAVE are not part of this module.                  *)
(***************************************************************************)
EXTENDS Naturals, Sequences

CONSTANTS
    MaxGenerations,     \* bound on the websockets opened
    MaxUpdates,         \* bound on the voice server updates received
    Bounds              \* scenarios: how often each bounded event may happen

BoundedEvents == {"generation", "update", "join", "disconnect", "recover", "close", "hello"}

ASSUME VoiceAssumption ==
    /\ MaxGenerations \in Nat /\ MaxUpdates \in Nat
    /\ Bounds \subseteq [BoundedEvents -> Nat]
    /\ \A b \in Bounds : b.generation <= MaxGenerations

Generations == 1 .. MaxGenerations
NoGeneration == 0

Updater(u) == <<"update", u>>
Listener(g) == <<"listen", g>>
Resumer(g) == <<"resume", g>>
Openers == {Updater(u) : u \in 1 .. MaxUpdates} \cup {Resumer(g) : g \in Generations}
Procs == Openers \cup {Listener(g) : g \in Generations}

Reconnector == <<"reconnect", 0>>
TheUser == <<"user", 0>>
SessionClose == <<"close", 0>>
Closers == Procs \cup {Reconnector, TheUser, SessionClose}
Nobody == <<"nobody", 0>>

VARIABLES
    v,                  \* the VoiceConnection
    gens,               \* its websocket generations, in the order opened
    mapped,             \* session.VoiceConnections[guild]: "new", "mapped", "removed"
    alive,              \* the Gateway lifetime is active
    pc,                 \* of the openers and the listeners
    reconnects,         \* goroutines started with reconnect and not yet running
    reconnector,        \* where the reconnect loop is
    strays,             \* as reconnects, for those no Close waits for
    stray,              \* the reconnect loop is one of them
    user, closer,       \* where the user and Session.Close are
    beating, receiving, \* generations with a running wsHeartbeat, opusReceiver
    left,               \* how often the bounded events may still happen
    lost, missed        \* history: a generation failed and nothing replaced or
                        \* closed it; a reconnect found reconnecting set

loop == <<reconnector, strays, stray>>
procs == <<pc, reconnects, loop, user, closer, beating, receiving>>
vars == <<v, gens, mapped, alive, procs, left, lost, missed>>

Generation == [opener : Openers, resumed : BOOLEAN, heartbeatStarted : BOOLEAN,
               described : BOOLEAN, open : BOOLEAN, cancelled : BOOLEAN,
               closedBy : Closers \cup {Nobody}]
Events == {"ready", "session", "resumed", "hello", "ack"}
CloseActions == {"fresh", "resume", "wait", "terminal"}
IsResume(g) == gens[g].opener[1] = "resume"
Current(g) == v.generation = g
Done(g) == gens[g].cancelled \/ ~alive
Closing(p) == \E g \in DOMAIN gens : gens[g].closedBy = p

TypeOK ==
    /\ v \in [generation : DOMAIN gens \cup {NoGeneration}, udp : DOMAIN gens \cup {NoGeneration},
              close : BOOLEAN, ready : BOOLEAN, sessionID : BOOLEAN,
              awaitingHeartbeat : BOOLEAN, beat : DOMAIN gens \cup {NoGeneration},
              resumeAttempts : {0, 1}]
    /\ gens \in Seq(Generation) /\ Len(gens) <= MaxGenerations
    /\ mapped \in {"new", "mapped", "removed"} /\ alive \in BOOLEAN
    /\ pc \in [Procs -> {"idle", "session", "install", "handshake", "failed", "read",
                         "waiting", "drop", "remove", "ended"} \cup Events \cup CloseActions]
    /\ reconnector \in {"idle", "wait", "connecting"} /\ reconnects \in Nat
    /\ strays \in Nat /\ stray \in BOOLEAN
    /\ user \in {"out", "connecting", "in", "leaving", "left", "gone"}
    /\ closer \in {"idle", "map", "voice", "waiting", "closed"}
    /\ beating \subseteq DOMAIN gens /\ receiving \subseteq DOMAIN gens
    /\ left \in [BoundedEvents -> Nat] /\ lost \in BOOLEAN /\ missed \in BOOLEAN

Init ==
    /\ v = [generation |-> NoGeneration, udp |-> NoGeneration, close |-> FALSE,
            ready |-> FALSE, sessionID |-> FALSE,
            awaitingHeartbeat |-> FALSE, beat |-> NoGeneration, resumeAttempts |-> 0]
    /\ gens = << >> /\ mapped = "new" /\ alive = TRUE
    /\ pc = [p \in Procs |-> "idle"]
    /\ reconnects = 0 /\ reconnector = "idle" /\ strays = 0 /\ stray = FALSE
    /\ user = "out" /\ closer = "idle"
    /\ beating = {} /\ receiving = {}
    /\ left \in Bounds
    /\ lost = FALSE /\ missed = FALSE

Go(p, to) == pc' = [pc EXCEPT ![p] = to]
Use(what) == left[what] > 0 /\ left' = [left EXCEPT ![what] = @ - 1]

-----------------------------------------------------------------------------
(* What several goroutines do to the transport: p lets go of the websocket *)
(* under the lock, then cancels its context, then closes it. p does nothing*)
(* else meanwhile; the others, a new opener among them, go on.             *)
CloseSocket(g) == [gens EXCEPT ![g].open = FALSE]

closeTransport(p) ==
    /\ v' = [v EXCEPT !.generation = NoGeneration, !.udp = NoGeneration, !.close = FALSE,
                      !.ready = FALSE, !.awaitingHeartbeat = FALSE, !.resumeAttempts = 0]
    /\ gens' = IF v.generation = NoGeneration THEN gens
               ELSE [gens EXCEPT ![v.generation].closedBy = p]
    /\ lost' = FALSE

(* Mutant: the answer awaited on the old websocket is still awaited.       *)
detachVoiceGenerationMutant(p, g) ==
    /\ v' = [v EXCEPT !.generation = NoGeneration]
    /\ gens' = [gens EXCEPT ![g].closedBy = p]
detachVoiceGeneration(p, g) ==
    /\ v' = [v EXCEPT !.generation = NoGeneration, !.awaitingHeartbeat = FALSE]
    /\ gens' = [gens EXCEPT ![g].closedBy = p]

CancelAndClose(g) ==
    /\ gens[g].closedBy # Nobody
    /\ gens' = IF gens[g].cancelled
               THEN [gens EXCEPT ![g] = [@ EXCEPT !.open = FALSE, !.closedBy = Nobody]]
               ELSE [gens EXCEPT ![g].cancelled = TRUE]
    /\ UNCHANGED <<v, mapped, alive, procs, left, lost, missed>>

scheduleVoiceReconnect(p) ==
    \/ alive /\ reconnects' = reconnects + 1 /\ UNCHANGED <<v, gens, lost>>
    \/ ~alive /\ closeTransport(p) /\ UNCHANGED reconnects

(* The part of an opener that follows a failure: a resume falls back to a  *)
(* reconnect, an update only logs.                                         *)
(* Mutant: a failed resume only logs, too.                                 *)
OpenFailedMutant(o) == Go(o, "ended") /\ UNCHANGED <<v, gens, lost, reconnects>>
OpenFailed(o) ==
    /\ Go(o, "ended")
    /\ IF o[1] = "resume" THEN scheduleVoiceReconnect(o)
       ELSE UNCHANGED <<v, gens, lost, reconnects>>

-----------------------------------------------------------------------------
(* openVoiceWebsocket: wait for the session id and refuse a second         *)
(* websocket; dial; install the generation under the lock; handshake.      *)
AwaitSession(o) ==
    /\ pc[o] = "session"
    /\ \/ v.sessionID /\ v.generation = NoGeneration
          /\ Go(o, "install") /\ UNCHANGED <<v, gens, lost, reconnects>>
       \/ OpenFailed(o)
    /\ UNCHANGED left

(* Mutant: the websocket is not looked at again after the dial.            *)
MayInstallMutant == alive
MayInstall == alive /\ v.generation = NoGeneration

Install(o) ==
    /\ pc[o] = "install"
    /\ \/ /\ MayInstall /\ Use("generation")
          /\ gens' = Append(gens, [opener |-> o, resumed |-> FALSE, heartbeatStarted |-> FALSE,
                                   described |-> FALSE, open |-> TRUE, cancelled |-> FALSE,
                                   closedBy |-> Nobody])
          /\ v' = [v EXCEPT !.generation = Len(gens) + 1,
                            !.close = @ \/ o[1] # "resume",
                            !.awaitingHeartbeat = @ /\ o[1] = "resume",
                            !.resumeAttempts = IF o[1] = "resume" THEN @ ELSE 0]
          /\ lost' = FALSE
          /\ Go(o, "handshake") /\ UNCHANGED reconnects
       \/ OpenFailed(o) /\ UNCHANGED left

(* The handshake fails, or the lifetime ended and no listener starts.      *)
HandshakeFails(o, g) ==
    IF Current(g)
    THEN /\ detachVoiceGeneration(o, g) /\ Go(o, "failed")
         /\ lost' = (o[1] = "resume") /\ UNCHANGED reconnects
    ELSE OpenFailed(o)

Handshake(o) ==
    /\ \/ \E g \in DOMAIN gens :
              /\ pc[o] = "handshake" /\ gens[g].opener = o
              /\ \/ HandshakeFails(o, g)
                 \/ /\ alive
                    /\ pc' = [pc EXCEPT ![o] = "ended", ![Listener(g)] = "read"]
                    /\ UNCHANGED <<v, gens, lost, reconnects>>
       \/ pc[o] = "failed" /\ OpenFailed(o)
    /\ UNCHANGED left

OpenStep(o) ==
    /\ ~Closing(o)
    /\ AwaitSession(o) \/ Install(o) \/ Handshake(o)
    /\ UNCHANGED <<mapped, alive, loop, user, closer, beating, receiving, missed>>

(* onVoiceServerUpdate: close what is open, store the token, open. Its     *)
(* goroutines, one for each update, run side by side.                      *)
onVoiceServerUpdate(u) ==
    /\ pc[Updater(u)] = "idle" /\ mapped = "mapped" /\ left.update = u /\ Use("update")
    /\ closeTransport(Updater(u)) /\ Go(Updater(u), "session")
    /\ UNCHANGED <<mapped, alive, reconnects, loop, user, closer, beating, receiving,
                   missed>>

onVoiceStateUpdate ==
    /\ mapped = "mapped" /\ v' = [v EXCEPT !.sessionID = TRUE]
    /\ UNCHANGED <<gens, mapped, alive, procs, left, lost, missed>>

-----------------------------------------------------------------------------
(* wsListen: a message is read and, unless the generation is over, handled *)
(* in a step of its own; what happened in between is not looked at.        *)
Receive(g) ==
    /\ pc[Listener(g)] = "read" /\ gens[g].open /\ ~Done(g)
    /\ \E e \in Events :
           /\ e = "session" => ~gens[g].described /\ v.udp = g
           /\ Go(Listener(g), e)
           /\ IF e = "hello" THEN Use("hello") ELSE UNCHANGED left
    /\ UNCHANGED <<v, gens, reconnects, beating, receiving>>

Ready(g) ==
    /\ pc[Listener(g)] = "ready"
    /\ \/ /\ v.generation # NoGeneration /\ v.udp = NoGeneration /\ v.close /\ alive
          /\ v' = [v EXCEPT !.udp = v.generation]
       \/ UNCHANGED v
    /\ UNCHANGED <<gens, beating, receiving>>

MayPlay == alive /\ v.udp # NoGeneration /\ v.close

(* An unknown mode, a key of the wrong length or a DAVE session that cannot*)
(* be configured leaves everything as it was.                              *)
SessionDescription(g) ==
    /\ pc[Listener(g)] = "session"
    /\ \/ /\ v' = [v EXCEPT !.ready = TRUE]
          /\ receiving' = IF MayPlay THEN receiving \cup {v.udp} ELSE receiving
       \/ UNCHANGED <<v, receiving>>
    /\ gens' = [gens EXCEPT ![g].described = TRUE]
    /\ UNCHANGED beating

Resumed(g) ==
    /\ pc[Listener(g)] = "resumed"
    /\ IF Current(g) /\ IsResume(g)
       THEN /\ v' = [v EXCEPT !.resumeAttempts = 0, !.ready = TRUE]
            /\ gens' = [gens EXCEPT ![g].resumed = TRUE]
       ELSE UNCHANGED <<v, gens>>
    /\ UNCHANGED <<beating, receiving>>

Hello(g) ==
    /\ pc[Listener(g)] = "hello"
    /\ IF Current(g) /\ ~gens[g].heartbeatStarted
       THEN /\ gens' = [gens EXCEPT ![g] = [@ EXCEPT !.heartbeatStarted = TRUE,
                                                     !.open = gens[g].open /\ alive]]
            /\ beating' = IF alive /\ v.close THEN beating \cup {g} ELSE beating
       ELSE UNCHANGED <<gens, beating>>
    /\ UNCHANGED <<v, receiving>>

HeartbeatAck(g) ==
    /\ pc[Listener(g)] = "ack"
    /\ v' = IF v.beat = g THEN [v EXCEPT !.awaitingHeartbeat = FALSE] ELSE v
    /\ UNCHANGED <<gens, beating, receiving>>

onEvent(g) ==
    /\ Ready(g) \/ SessionDescription(g) \/ Resumed(g) \/ Hello(g) \/ HeartbeatAck(g)
    /\ Go(Listener(g), "read") /\ UNCHANGED reconnects

-----------------------------------------------------------------------------
(* The websocket failed, or somebody closed it. What follows depends on    *)
(* the close code, after the lock is released.                             *)
(* Mutant: a resume that was never confirmed may be followed by another.   *)
classifyMutant(g, code) == code
classify(g, code) == IF IsResume(g) /\ ~gens[g].resumed THEN "fresh" ELSE code

handleVoiceWebsocketClose(g) ==
    /\ pc[Listener(g)] = "read" /\ UNCHANGED <<reconnects, beating, receiving>>
    /\ IF Done(g) \/ ~Current(g)
       THEN Go(Listener(g), "ended") /\ UNCHANGED <<v, gens, lost, mapped>>
       ELSE /\ detachVoiceGeneration(Listener(g), g) /\ lost' = TRUE /\ UNCHANGED mapped
            /\ \E code \in (IF gens[g].open THEN CloseActions ELSE {"fresh"}) :
                   Go(Listener(g), classify(g, code))

StartResume(g) ==
    /\ pc[Listener(g)] = "resume"
    /\ IF v.resumeAttempts # 0
       THEN scheduleVoiceReconnect(Listener(g)) /\ Go(Listener(g), "ended")
       ELSE IF alive
       THEN /\ v' = [v EXCEPT !.resumeAttempts = 1]
            /\ pc' = [pc EXCEPT ![Listener(g)] = "ended", ![Resumer(g)] = "session"]
            /\ UNCHANGED <<gens, lost, reconnects>>
       ELSE closeTransport(Listener(g)) /\ Go(Listener(g), "ended") /\ UNCHANGED reconnects
    /\ UNCHANGED mapped

(* waitForVoiceServerUpdate and removeVoiceConnection.                     *)
AfterClose(g) ==
    LET p == Listener(g) IN
    /\ \/ pc[p] = "fresh" /\ scheduleVoiceReconnect(p) /\ Go(p, "ended") /\ UNCHANGED mapped
       \/ /\ pc[p] \in {"wait", "terminal", "drop"} /\ closeTransport(p)
          /\ Go(p, CASE pc[p] = "wait" -> "waiting" [] pc[p] = "terminal" -> "remove"
                     [] OTHER -> "ended")
          /\ UNCHANGED <<mapped, reconnects>>
       \/ /\ pc[p] = "waiting" /\ (~alive \/ v.generation # NoGeneration)
          /\ Go(p, "ended") /\ UNCHANGED <<v, gens, lost, mapped, reconnects>>
       \/ /\ pc[p] \in {"waiting", "remove"} /\ mapped' = "removed"
          /\ Go(p, IF pc[p] = "waiting" THEN "drop" ELSE "ended")
          /\ UNCHANGED <<v, gens, lost, reconnects>>

Listen(g) ==
    /\ ~Closing(Listener(g))
    /\ \/ Receive(g) /\ UNCHANGED <<lost, mapped>>
       \/ onEvent(g) /\ UNCHANGED <<lost, mapped, left>>
       \/ handleVoiceWebsocketClose(g) /\ UNCHANGED left
       \/ (StartResume(g) \/ AfterClose(g)) /\ UNCHANGED <<beating, receiving, left>>
    /\ UNCHANGED <<alive, loop, user, closer, missed>>

(* waitForVoiceResume, and the AfterFunc of wsListen when the context ends.*)
CloseUnresumed(g) ==
    /\ gens[g].open /\ pc[Listener(g)] # "idle"
    /\ (Current(g) /\ IsResume(g) /\ ~gens[g].resumed) \/ Done(g)
    /\ gens' = CloseSocket(g)
    /\ UNCHANGED <<v, mapped, alive, procs, left, lost, missed>>

(* wsHeartbeat: an answer still awaited closes the websocket.              *)
wsHeartbeat(g) ==
    /\ g \in beating
    /\ \/ (Done(g) \/ ~Current(g)) /\ beating' = beating \ {g} /\ UNCHANGED <<v, gens>>
       \/ /\ Current(g) /\ v.awaitingHeartbeat
          /\ gens' = CloseSocket(g) /\ beating' = beating \ {g} /\ UNCHANGED v
       \/ /\ Current(g) /\ ~v.awaitingHeartbeat /\ UNCHANGED gens
          /\ \/ v' = [v EXCEPT !.awaitingHeartbeat = TRUE, !.beat = g] /\ UNCHANGED beating
             \/ v' = [v EXCEPT !.beat = g] /\ beating' = beating \ {g}
    /\ UNCHANGED <<mapped, alive, pc, reconnects, loop, user, closer, receiving, left,
                   lost, missed>>

(* opusReceiver: an error of the UDP connection that is still the current  *)
(* one reconnects, in a goroutine that Session.Close does not wait for.    *)
opusReceiver(g) ==
    /\ g \in receiving /\ receiving' = receiving \ {g}
    /\ strays' = IF v.udp = g THEN strays + 1 ELSE strays
    /\ UNCHANGED <<v, gens, mapped, alive, pc, reconnects, reconnector, stray, user, closer,
                   beating, left, lost, missed>>

-----------------------------------------------------------------------------
(* reconnect: one goroutine at a time closes the transport and joins again *)
(* until a join succeeds or the lifetime ends.                             *)
StartReconnect ==
    \E bare \in BOOLEAN :
        /\ IF bare THEN strays > 0 /\ strays' = strays - 1 /\ UNCHANGED reconnects
           ELSE reconnects > 0 /\ reconnects' = reconnects - 1 /\ UNCHANGED strays
        /\ IF alive /\ reconnector = "idle"
           THEN /\ closeTransport(Reconnector) /\ reconnector' = "wait" /\ stray' = bare
                /\ UNCHANGED missed
           ELSE missed' = (missed \/ alive) /\ UNCHANGED <<v, gens, lost, reconnector, stray>>

(* waitUntilConnected polls Ready; after its timeout the join closes.      *)
JoinAgain ==
    /\ ~Closing(Reconnector)
    /\ \/ /\ UNCHANGED <<v, gens, lost>>
          /\ \/ reconnector = "wait" /\ ~alive /\ reconnector' = "idle"
             \/ /\ reconnector = "wait" /\ alive
                /\ reconnector' = (IF mapped = "mapped" THEN "connecting" ELSE "idle")
             \/ reconnector = "connecting" /\ v.ready /\ reconnector' = "idle"
       \/ reconnector = "connecting" /\ closeTransport(Reconnector) /\ reconnector' = "wait"
    /\ UNCHANGED <<reconnects, strays, stray, missed>>

reconnect ==
    /\ StartReconnect \/ JoinAgain
    /\ UNCHANGED <<mapped, alive, pc, user, closer, beating, receiving, left>>

reconnectVoiceConnections ==
    /\ alive /\ mapped = "mapped" /\ Use("recover")
    /\ reconnects' = reconnects + 1
    /\ UNCHANGED <<v, gens, mapped, alive, pc, loop, user, closer, beating, receiving,
                   lost, missed>>

-----------------------------------------------------------------------------
(* The user: ChannelVoiceJoin and Disconnect.                              *)
ChannelVoiceJoin ==
    /\ \/ /\ user \in {"out", "in"} /\ mapped # "removed" /\ Use("join")
          /\ mapped' = "mapped" /\ user' = "connecting" /\ UNCHANGED <<v, gens, lost>>
       \/ /\ user = "connecting" /\ v.ready /\ user' = "in"
          /\ UNCHANGED <<v, gens, lost, mapped, left>>
       \/ /\ user = "connecting" /\ closeTransport(TheUser) /\ user' = "out"
          /\ UNCHANGED <<mapped, left>>

Disconnect ==
    /\ \/ /\ user = "in" /\ Use("disconnect") /\ user' = "leaving" /\ v' = [v EXCEPT !.sessionID = FALSE]
          /\ UNCHANGED <<gens, lost, mapped>>
       \/ user = "leaving" /\ user' = "left" /\ closeTransport(TheUser) /\ UNCHANGED <<mapped, left>>
       \/ /\ user = "left" /\ user' = "gone" /\ mapped' = "removed"
          /\ UNCHANGED <<v, gens, lost, left>>

User ==
    /\ ~Closing(TheUser)
    /\ ChannelVoiceJoin \/ Disconnect
    /\ UNCHANGED <<alive, pc, reconnects, loop, closer, beating, receiving, missed>>

(* Session.Close: the lifetime ends, the voice connections in the map are  *)
(* closed, and the voice routines are waited for.                          *)
RoutinesEnded ==
    /\ reconnects = 0 /\ (reconnector = "idle" \/ stray) /\ beating = {} /\ receiving = {}
    /\ \A p \in Procs : p[1] # "update" => pc[p] \in {"idle", "ended"} /\ ~Closing(p)

Close ==
    /\ ~Closing(SessionClose)
    /\ \/ closer = "idle" /\ Use("close") /\ closer' = "map" /\ alive' = FALSE
          /\ UNCHANGED <<v, gens, lost, mapped>>
       \/ /\ closer = "map" /\ mapped' = (IF mapped = "mapped" THEN "removed" ELSE mapped)
          /\ closer' = (IF mapped = "mapped" THEN "voice" ELSE "waiting")
          /\ UNCHANGED <<v, gens, lost, alive, left>>
       \/ closer = "voice" /\ closer' = "waiting" /\ closeTransport(SessionClose)
          /\ UNCHANGED <<mapped, alive, left>>
       \/ closer = "waiting" /\ RoutinesEnded /\ closer' = "closed"
          /\ UNCHANGED <<v, gens, lost, mapped, alive, left>>
    /\ UNCHANGED <<pc, reconnects, loop, user, beating, receiving, missed>>

Next ==
    \/ \E o \in Openers : OpenStep(o)
    \/ \E u \in 1 .. MaxUpdates : onVoiceServerUpdate(u)
    \/ \E g \in DOMAIN gens : \/ Listen(g) \/ CancelAndClose(g) \/ CloseUnresumed(g)
                              \/ wsHeartbeat(g) \/ opusReceiver(g)
    \/ onVoiceStateUpdate \/ reconnect \/ reconnectVoiceConnections \/ User \/ Close

Spec == Init /\ [][Next]_vars

-----------------------------------------------------------------------------
(* A websocket that is open is the one v holds, or one that the goroutine  *)
(* that took it from v is about to close, never both and never neither:    *)
(* openers that race, resumes that come late and closes in between, which  *)
(* may leave an old websocket open beside a new one for a while, lose none.*)
NoWebsocketLost ==
    \A g \in DOMAIN gens : gens[g].open => (Current(g) <=> gens[g].closedBy = Nobody)

(* A heartbeat answer is awaited only on the websocket that sent the       *)
(* heartbeat, so that a new or resumed websocket is not closed for an      *)
(* answer owed on an earlier one (voice.go:1231).                          *)
AwaitedAckIsOurs ==
    v.awaitingHeartbeat => v.generation # NoGeneration /\ v.beat = v.generation

(* A resume that Discord did not confirm is not followed by another one:   *)
(* the connection starts afresh (voice.go:750).                            *)
ResumeOnce ==
    \A g, h \in DOMAIN gens : gens[g].opener = Resumer(h) /\ IsResume(h) => gens[h].resumed

(* A generation that failed is taken over by a resume or by a reconnect,   *)
(* as long as no reconnect found another one running.                      *)
TakenOver ==
    \/ reconnects > 0 \/ strays > 0 \/ reconnector # "idle"
    \/ \E g \in DOMAIN gens : \/ pc[Resumer(g)] \notin {"idle", "ended"}
                              \/ pc[Listener(g)] \in CloseActions
LostIsTakenOver == lost /\ alive => TakenOver \/ missed

(* What the comments promise and the code does not keep.                   *)
(* A reconnect that finds reconnecting set may rely on the one running     *)
(* ("If true, voice connection is trying to reconnect", voice.go:52).      *)
LostIsRecovered == lost /\ alive => TakenOver

(* Session.Close leaves no UDP connection open ("closes the Gateway and    *)
(* every active Voice connection", wsapi.go:1868).                         *)
CloseClosesVoice == closer = "closed" => v.udp = NoGeneration
=============================================================================
