------------------------- MODULE VoiceConnectionProofs -------------------------
(***************************************************************************)
(* Proofs about VoiceConnection, for any number of websockets and of server*)
(* updates and any scenario: no open websocket is lost, heartbeat answers   *)
(* awaited on the websocket that owes them, no resume after a resume that  *)
(* was not confirmed, and a lost connection always taken over.             *)
(***************************************************************************)
EXTENDS VoiceConnection, SequenceTheorems, TLAPS

-----------------------------------------------------------------------------
(* The inductive invariant.                                                *)

(* Websockets never outnumber what the scenario allows.                    *)
Bounded == Len(gens) + left["generation"] <= MaxGenerations

(* Who runs what: an opener opens one websocket at most and ends before the*)
(* listener of it starts; a listener ends before the resume of its         *)
(* websocket starts.                                                       *)
OpenerStates == {"idle", "session", "install", "handshake", "failed", "ended"}
Roles ==
    /\ \A o \in Openers : pc[o] \in OpenerStates
    /\ \A g \in Generations : pc[Listener(g)] # "idle" =>
          g \in DOMAIN gens /\ pc[gens[g].opener] = "ended"
    /\ \A g \in Generations : pc[Resumer(g)] # "idle" => pc[Listener(g)] = "ended"
    /\ \A g \in DOMAIN gens : pc[gens[g].opener] \in {"handshake", "failed", "ended"}
    /\ \A g, h \in DOMAIN gens : gens[g].opener = gens[h].opener => g = h

(* A resume that was not confirmed has no resume of its own.               *)
Confirmed ==
    \A g \in DOMAIN gens : IsResume(g) /\ ~gens[g].resumed =>
        pc[Listener(g)] # "resume" /\ pc[Resumer(g)] = "idle"

(* A websocket that was lost has a reconnect that did not start yet, a     *)
(* resume that did not install its own yet or could not keep it, or a      *)
(* listener that decides. The reconnect loop and a resume in its handshake *)
(* are not needed: both have replaced or closed what was lost.             *)
Awaited ==
    lost /\ alive =>
        \/ missed \/ reconnects > 0
        \/ \E g \in Generations : \/ pc[Resumer(g)] \in {"session", "install", "failed"}
                                  \/ pc[Listener(g)] \in CloseActions

IInv == /\ TypeOK /\ Bounded /\ Roles /\ NoWebsocketLost /\ AwaitedAckIsOurs
        /\ Confirmed /\ Awaited

-----------------------------------------------------------------------------
(* The goroutines' names.                                                  *)
LEMMA Names ==
    /\ \A g \in Generations : /\ Listener(g) \in Procs /\ Listener(g) \notin Openers
                              /\ Resumer(g) \in Openers /\ Resumer(g)[1] = "resume"
    /\ \A u \in 1 .. MaxUpdates : Updater(u) \in Openers /\ Updater(u)[1] = "update"
    /\ \A g, h \in Generations : /\ Listener(g) = Listener(h) => g = h
                                 /\ Resumer(g) = Resumer(h) => g = h
    /\ \A o \in Openers : /\ o \in Procs
                          /\ o[1] = "resume" => \E g \in Generations : o = Resumer(g)
    /\ Generations \subseteq Nat \ {0} /\ NoGeneration \notin Generations
<1>1. \A g \in Generations : /\ Listener(g) \in Procs /\ Listener(g) \notin Openers
                             /\ Resumer(g) \in Openers /\ Resumer(g)[1] = "resume"
  BY DEF Procs, Openers, Listener, Resumer, Updater
<1>2. \A u \in 1 .. MaxUpdates : Updater(u) \in Openers /\ Updater(u)[1] = "update"
  BY DEF Openers, Updater
<1>3. \A g, h \in Generations : /\ Listener(g) = Listener(h) => g = h
                                /\ Resumer(g) = Resumer(h) => g = h
  BY DEF Listener, Resumer
<1>4. \A o \in Openers : /\ o \in Procs
                         /\ o[1] = "resume" => \E g \in Generations : o = Resumer(g)
  BY DEF Procs, Openers, Resumer, Updater
<1>5. Generations \subseteq Nat \ {0} /\ NoGeneration \notin Generations
  BY VoiceAssumption DEF Generations, NoGeneration
<1> QED BY <1>1, <1>2, <1>3, <1>4, <1>5

LEMMA CloserNames ==
    /\ Openers \subseteq Closers /\ \A g \in Generations : Listener(g) \in Closers
    /\ \A u \in 1 .. MaxUpdates : Updater(u) \in Closers
    /\ {Reconnector, TheUser, SessionClose} \subseteq Closers
    /\ Nobody \notin Closers
BY DEF Closers, Procs, Openers, Listener, Resumer, Updater, Reconnector, TheUser,
       SessionClose, Nobody

(* The transport: what its websockets keep, and what VoiceConnection holds.*)
Transport == [generation : DOMAIN gens \cup {NoGeneration}, udp : DOMAIN gens \cup {NoGeneration},
              close : BOOLEAN, ready : BOOLEAN, sessionID : BOOLEAN,
              awaitingHeartbeat : BOOLEAN, beat : DOMAIN gens \cup {NoGeneration},
              resumeAttempts : {0, 1}]
Keeps ==
    /\ gens' \in Seq(Generation) /\ Len(gens') = Len(gens) /\ DOMAIN gens' = DOMAIN gens
    /\ \A g \in DOMAIN gens : /\ gens'[g].opener = gens[g].opener
                              /\ gens[g].resumed => gens'[g].resumed
                              /\ gens'[g].open => gens[g].open
Moves ==
    /\ Keeps /\ v' \in Transport
    /\ \A g \in DOMAIN gens : gens'[g].open =>
          \/ /\ v'.generation = g <=> v.generation = g
             /\ gens'[g].closedBy = gens[g].closedBy
          \/ v'.generation # g /\ gens'[g].closedBy # Nobody
    /\ v'.awaitingHeartbeat =>
          /\ v'.generation = v.generation
          /\ \/ v.awaitingHeartbeat /\ v'.beat = v.beat
             \/ v'.generation # NoGeneration /\ v'.beat = v'.generation

LEMMA EditKeeps ==
    ASSUME gens \in Seq(Generation), NEW g \in DOMAIN gens, NEW e \in Generation,
           gens' = [gens EXCEPT ![g] = e], e.opener = gens[g].opener,
           gens[g].resumed => e.resumed, e.open => gens[g].open
    PROVE  /\ Keeps /\ gens'[g] = e
           /\ \A h \in DOMAIN gens : h # g => gens'[h] = gens[h]
<1>1. gens \in [1 .. Len(gens) -> Generation] /\ DOMAIN gens = 1 .. Len(gens) /\ Len(gens) \in Nat
  BY LenProperties
<1>2. gens' \in [1 .. Len(gens) -> Generation] /\ DOMAIN gens' = DOMAIN gens
  BY <1>1
<1>3. gens' \in Seq(Generation) /\ Len(gens') = Len(gens)
  BY <1>1, ExceptSeq
<1>4. gens'[g] = e /\ \A h \in DOMAIN gens : h # g => gens'[h] = gens[h]
  BY <1>1
<1> QED BY <1>2, <1>3, <1>4 DEF Keeps

LEMMA Typed ==
    TypeOK => /\ v \in Transport /\ gens \in Seq(Generation) /\ DOMAIN gens = 1 .. Len(gens)
              /\ Len(gens) \in Nat /\ DOMAIN gens \subseteq Generations
              /\ \A g \in DOMAIN gens : gens[g] \in Generation
              /\ pc \in [Procs -> {"idle", "session", "install", "handshake", "read", "waiting",
                                   "drop", "remove", "ended", "failed"}
                                  \cup Events \cup CloseActions]
<1> SUFFICES ASSUME TypeOK
             PROVE  /\ DOMAIN gens = 1 .. Len(gens) /\ Len(gens) \in Nat
                    /\ DOMAIN gens \subseteq Generations
                    /\ \A g \in DOMAIN gens : gens[g] \in Generation
  BY DEF TypeOK, Transport
<1>1. DOMAIN gens = 1 .. Len(gens) /\ Len(gens) \in Nat
  BY LenProperties DEF TypeOK
<1>2. DOMAIN gens \subseteq Generations
  BY <1>1, VoiceAssumption DEF TypeOK, Generations
<1>3. \A g \in DOMAIN gens : gens[g] \in Generation
  BY <1>1, ElementOfSeq DEF TypeOK
<1> QED BY <1>1, <1>2, <1>3

LEMMA RestMoves == ASSUME TypeOK, UNCHANGED <<v, gens>> PROVE Moves
<1>1. v \in Transport /\ gens \in Seq(Generation)
  BY Typed
<1> QED BY <1>1 DEF Moves, Keeps

(* Closing and detaching leave the websocket that v held to who does it.   *)
LEMMA CloseMoves == ASSUME TypeOK, NEW p \in Closers, closeTransport(p) PROVE Moves
<1>1. v \in Transport /\ gens \in Seq(Generation)
      /\ \A g \in DOMAIN gens : gens[g] \in Generation
  BY Typed
<1>2. /\ v' \in Transport /\ v'.generation = NoGeneration /\ ~v'.awaitingHeartbeat
  <2>1. v' = [v EXCEPT !.generation = NoGeneration, !.udp = NoGeneration, !.close = FALSE,
                       !.ready = FALSE, !.awaitingHeartbeat = FALSE, !.resumeAttempts = 0]
    BY DEF closeTransport
  <2> DEFINE w == [v EXCEPT !.generation = NoGeneration, !.udp = NoGeneration, !.close = FALSE]
  <2>2. w \in Transport /\ w.generation = NoGeneration
    BY <1>1 DEF Transport
  <2>3. v' = [w EXCEPT !.ready = FALSE, !.awaitingHeartbeat = FALSE, !.resumeAttempts = 0]
    BY <1>1, <2>1 DEF Transport
  <2> HIDE DEF w
  <2> QED BY <2>2, <2>3 DEF Transport
<1>3. CASE v.generation = NoGeneration
  BY <1>1, <1>2, <1>3, Typed DEF closeTransport, Moves, Keeps
<1>4. CASE v.generation # NoGeneration
  <2> DEFINE e == [gens[v.generation] EXCEPT !.closedBy = p]
  <2>1. v.generation \in DOMAIN gens
    BY <1>1, <1>4 DEF Transport
  <2>2. e \in Generation /\ e.opener = gens[v.generation].opener
        /\ e.open = gens[v.generation].open /\ e.closedBy = p
        /\ e.resumed = gens[v.generation].resumed
    BY <1>1, <2>1 DEF Generation
  <2>3. gens' = [gens EXCEPT ![v.generation] = e]
    BY <1>4 DEF closeTransport
  <2> HIDE DEF e
  <2>4. /\ Keeps /\ gens'[v.generation] = e
        /\ \A h \in DOMAIN gens : h # v.generation => gens'[h] = gens[h]
    BY <1>1, <2>1, <2>2, <2>3, EditKeeps
  <2> QED BY <1>1, <1>2, <2>1, <2>2, <2>4, Typed, Names, CloserNames DEF Moves
<1> QED BY <1>3, <1>4

LEMMA DetachMoves ==
    ASSUME TypeOK, NEW p \in Closers, NEW g \in DOMAIN gens, Current(g),
           detachVoiceGeneration(p, g)
    PROVE  Moves
<1>1. v \in Transport /\ gens \in Seq(Generation) /\ gens[g] \in Generation
  BY Typed
<1>2. /\ v' \in Transport /\ v'.generation = NoGeneration /\ ~v'.awaitingHeartbeat
  <2>1. v' = [v EXCEPT !.generation = NoGeneration, !.awaitingHeartbeat = FALSE]
    BY DEF detachVoiceGeneration
  <2> QED BY <1>1, <2>1 DEF Transport
<1> DEFINE e == [gens[g] EXCEPT !.closedBy = p]
<1>3. e \in Generation /\ e.opener = gens[g].opener /\ e.resumed = gens[g].resumed
      /\ e.open = gens[g].open /\ e.closedBy = p
  BY <1>1 DEF Generation
<1>4. gens' = [gens EXCEPT ![g] = e]
  BY DEF detachVoiceGeneration
<1> HIDE DEF e
<1>5. Keeps /\ gens'[g] = e /\ \A h \in DOMAIN gens : h # g => gens'[h] = gens[h]
  BY <1>1, <1>3, <1>4, EditKeeps
<1> QED BY <1>2, <1>3, <1>5, Typed, Names, CloserNames DEF Moves, Current

LEMMA ScheduleMoves ==
    ASSUME TypeOK, NEW p \in Closers, scheduleVoiceReconnect(p) PROVE Moves
BY RestMoves, CloseMoves DEF scheduleVoiceReconnect

(* An edit of one websocket that leaves v's hold of it alone.              *)
LEMMA SocketMoves ==
    ASSUME TypeOK, NEW g \in DOMAIN gens, NEW e \in Generation,
           gens' = [gens EXCEPT ![g] = e], e.opener = gens[g].opener,
           gens[g].resumed => e.resumed, e.open => gens[g].open,
           e.open => e.closedBy = gens[g].closedBy,
           v' \in Transport, v'.generation = v.generation, v'.beat = v.beat,
           v'.awaitingHeartbeat => v.awaitingHeartbeat
    PROVE  Moves
<1>1. gens \in Seq(Generation)
  BY Typed
<1>2. Keeps /\ gens'[g] = e /\ \A h \in DOMAIN gens : h # g => gens'[h] = gens[h]
  BY <1>1, EditKeeps
<1> QED BY <1>2 DEF Moves

(* Every step but an Install moves so.                                     *)
LEMMA OpeningMoves ==
    ASSUME TypeOK, NEW o \in Openers, AwaitSession(o) \/ Handshake(o) \/ OpenFailed(o)
    PROVE  Moves
<1>1. OpenFailed(o) => Moves
  BY RestMoves, ScheduleMoves, CloserNames DEF OpenFailed
<1>2. CASE AwaitSession(o)
  BY <1>1, <1>2, RestMoves DEF AwaitSession
<1>3. CASE Handshake(o)
  <2>1. ASSUME NEW g \in DOMAIN gens, HandshakeFails(o, g) PROVE Moves
    BY <1>1, <2>1, DetachMoves, CloserNames DEF HandshakeFails
  <2> QED BY <1>1, <1>3, <2>1, RestMoves DEF Handshake
<1> QED BY <1>1, <1>2, <1>3

LEMMA ListeningMoves == ASSUME TypeOK, NEW g \in DOMAIN gens, Listen(g) PROVE Moves
<1>1. /\ v \in Transport /\ gens[g] \in Generation /\ g # NoGeneration
      /\ Listener(g) \in Closers
      /\ v.generation \in DOMAIN gens \cup {NoGeneration}
  BY Typed, Names, CloserNames DEF Transport
<1>2. CASE Receive(g) \/ Ready(g) \/ HeartbeatAck(g)
  <2>1. gens' = gens /\ gens \in Seq(Generation)
    BY <1>2, Typed DEF Receive, Ready, HeartbeatAck
  <2>2. /\ v' \in Transport /\ v'.generation = v.generation /\ v'.beat = v.beat
        /\ v'.awaitingHeartbeat => v.awaitingHeartbeat
    <3>1. CASE UNCHANGED v
      BY <1>1, <3>1
    <3>2. CASE v' = [v EXCEPT !.udp = v.generation]
      BY <1>1, <3>2 DEF Transport
    <3>3. CASE v' = [v EXCEPT !.awaitingHeartbeat = FALSE]
      BY <1>1, <3>3 DEF Transport
    <3> QED BY <1>2, <3>1, <3>2, <3>3 DEF Receive, Ready, HeartbeatAck
  <2> QED BY <2>1, <2>2 DEF Moves, Keeps
<1>3. CASE SessionDescription(g)
  <2> DEFINE e == [gens[g] EXCEPT !.described = TRUE]
  <2>1. /\ v' \in Transport /\ v'.generation = v.generation /\ v'.beat = v.beat
        /\ v'.awaitingHeartbeat => v.awaitingHeartbeat
    <3>1. v' = v \/ v' = [v EXCEPT !.ready = TRUE]
      BY <1>3 DEF SessionDescription
    <3> QED BY <1>1, <3>1 DEF Transport
  <2>2. /\ e \in Generation /\ e.opener = gens[g].opener /\ e.resumed = gens[g].resumed
        /\ e.closedBy = gens[g].closedBy /\ e.open = gens[g].open
    BY <1>1 DEF Generation
  <2>3. gens' = [gens EXCEPT ![g] = e]
    BY <1>3 DEF SessionDescription
  <2> HIDE DEF e
  <2> QED BY <2>1, <2>2, <2>3, SocketMoves
<1>4. CASE Resumed(g)
  <2> DEFINE e == [gens[g] EXCEPT !.resumed = TRUE]
  <2>1. CASE Current(g) /\ IsResume(g)
    <3>1. /\ v' \in Transport /\ v'.generation = v.generation /\ v'.beat = v.beat
          /\ v'.awaitingHeartbeat => v.awaitingHeartbeat
      <4>1. v' = [v EXCEPT !.resumeAttempts = 0, !.ready = TRUE]
        BY <1>4, <2>1 DEF Resumed
      <4> QED BY <1>1, <4>1 DEF Transport
    <3>2. /\ e \in Generation /\ e.opener = gens[g].opener /\ e.resumed
          /\ e.closedBy = gens[g].closedBy /\ e.open = gens[g].open
      BY <1>1 DEF Generation
    <3>3. gens' = [gens EXCEPT ![g] = e]
      BY <1>4, <2>1 DEF Resumed
    <3> HIDE DEF e
    <3> QED BY <3>1, <3>2, <3>3, SocketMoves
  <2>2. CASE ~(Current(g) /\ IsResume(g))
    BY <1>4, <2>2, RestMoves DEF Resumed
  <2> QED BY <2>1, <2>2
<1>5. CASE Hello(g)
  <2> DEFINE e == [gens[g] EXCEPT !.heartbeatStarted = TRUE, !.open = gens[g].open /\ alive]
  <2>1. CASE Current(g) /\ ~gens[g].heartbeatStarted
    <3>1. v' = v
      BY <1>5 DEF Hello
    <3>2. /\ e \in Generation /\ e.opener = gens[g].opener /\ e.resumed = gens[g].resumed
          /\ e.closedBy = gens[g].closedBy /\ (e.open => gens[g].open)
      BY <1>1 DEF Generation, TypeOK
    <3>3. gens' = [gens EXCEPT ![g] = e]
      BY <1>5, <2>1 DEF Hello
    <3> HIDE DEF e
    <3> QED BY <1>1, <3>1, <3>2, <3>3, SocketMoves
  <2>2. CASE ~(Current(g) /\ ~gens[g].heartbeatStarted)
    BY <1>5, <2>2, RestMoves DEF Hello
  <2> QED BY <2>1, <2>2
<1>6. CASE handleVoiceWebsocketClose(g)
  BY <1>1, <1>6, RestMoves, DetachMoves DEF handleVoiceWebsocketClose
<1>7. CASE StartResume(g)
  <2>1. CASE v' = [v EXCEPT !.resumeAttempts = 1] /\ UNCHANGED gens
    <3>1. gens \in Seq(Generation)
      BY Typed
    <3>2. /\ v' \in Transport /\ v'.generation = v.generation /\ v'.beat = v.beat
          /\ v'.awaitingHeartbeat => v.awaitingHeartbeat
      BY <1>1, <2>1 DEF Transport
    <3> QED BY <2>1, <3>1, <3>2 DEF Moves, Keeps
  <2>2. \/ scheduleVoiceReconnect(Listener(g)) \/ closeTransport(Listener(g))
        \/ v' = [v EXCEPT !.resumeAttempts = 1] /\ UNCHANGED gens
    BY <1>7 DEF StartResume
  <2> QED BY <1>1, <2>1, <2>2, ScheduleMoves, CloseMoves
<1>8. CASE AfterClose(g)
  BY <1>1, <1>8, RestMoves, CloseMoves, ScheduleMoves DEF AfterClose
<1> QED BY <1>2, <1>3, <1>4, <1>5, <1>6, <1>7, <1>8 DEF Listen, onEvent

LEMMA HoldMoves ==
    ASSUME TypeOK, UNCHANGED gens, v' \in Transport, v'.generation = v.generation,
           v'.beat = v.beat, v'.awaitingHeartbeat => v.awaitingHeartbeat
    PROVE  Moves
<1>1. gens \in Seq(Generation)
  BY Typed
<1> QED BY <1>1 DEF Moves, Keeps

(* The end of a closing, the timers and the receiver of a generation.      *)
MinorStep(g) == \/ CancelAndClose(g) \/ CloseUnresumed(g)
                \/ wsHeartbeat(g) \/ opusReceiver(g)

LEMMA GenerationMoves == ASSUME TypeOK, NEW g \in DOMAIN gens, MinorStep(g) PROVE Moves
<1>1. v \in Transport /\ gens[g] \in Generation /\ gens \in Seq(Generation)
      /\ g \in Nat /\ g # NoGeneration
  BY Typed, Names
<1> DEFINE e == [gens[g] EXCEPT !.open = FALSE]
<1>2. /\ e \in Generation /\ e.opener = gens[g].opener /\ e.resumed = gens[g].resumed /\ ~e.open
  BY <1>1 DEF Generation
<1>3. CloseSocket(g) = [gens EXCEPT ![g] = e]
  BY DEF CloseSocket
<1> HIDE DEF e
<1>4. CASE UNCHANGED v /\ gens' = CloseSocket(g)
  BY <1>1, <1>2, <1>3, <1>4, SocketMoves
<1>5. CASE Current(g) /\ UNCHANGED gens /\ v' = [v EXCEPT !.awaitingHeartbeat = TRUE, !.beat = g]
  <2>1. v' \in Transport /\ v'.generation = g /\ v.generation = g /\ v'.beat = g
    BY <1>1, <1>5 DEF Transport, Current
  <2> QED BY <1>1, <1>5, <2>1 DEF Moves, Keeps
<1>6. CASE ~v.awaitingHeartbeat /\ UNCHANGED gens /\ v' = [v EXCEPT !.beat = g]
  <2>1. v' \in Transport /\ v'.generation = v.generation /\ ~v'.awaitingHeartbeat
    BY <1>1, <1>6 DEF Transport
  <2> QED BY <1>1, <1>6, <2>1 DEF Moves, Keeps
<1>8. CASE CancelAndClose(g)
  <2> DEFINE c == IF gens[g].cancelled THEN [gens[g] EXCEPT !.open = FALSE, !.closedBy = Nobody]
                  ELSE [gens[g] EXCEPT !.cancelled = TRUE]
  <2>1. /\ c \in Generation /\ c.opener = gens[g].opener /\ c.resumed = gens[g].resumed
        /\ c.open => gens[g].open /\ c.closedBy = gens[g].closedBy
    BY <1>1 DEF Generation
  <2>2. gens' = [gens EXCEPT ![g] = c] /\ UNCHANGED v
    BY <1>8 DEF CancelAndClose
  <2> HIDE DEF c
  <2> QED BY <1>1, <2>1, <2>2, SocketMoves
<1>7. CASE UNCHANGED <<v, gens>>
  BY <1>7, RestMoves
<1> QED BY <1>4, <1>5, <1>6, <1>7, <1>8 DEF MinorStep, CloseUnresumed, wsHeartbeat, opusReceiver

LEMMA SessionMoves ==
    ASSUME TypeOK,
           \/ \E u \in 1 .. MaxUpdates : onVoiceServerUpdate(u)
           \/ onVoiceStateUpdate \/ reconnect \/ reconnectVoiceConnections \/ User \/ Close
    PROVE  Moves
<1>1. v \in Transport
  BY Typed
<1>2. CASE UNCHANGED gens /\ \E b \in BOOLEAN : v' = [v EXCEPT !.sessionID = b]
  <2>1. PICK b \in BOOLEAN : v' = [v EXCEPT !.sessionID = b]
    BY <1>2
  <2>2. /\ v' \in Transport /\ v'.generation = v.generation /\ v'.beat = v.beat
        /\ v'.awaitingHeartbeat => v.awaitingHeartbeat
    BY <1>1, <2>1 DEF Transport
  <2> QED BY <1>2, <2>2, HoldMoves
<1>3. \/ UNCHANGED <<v, gens>>
      \/ \E p \in Closers : closeTransport(p)
      \/ UNCHANGED gens /\ \E b \in BOOLEAN : v' = [v EXCEPT !.sessionID = b]
  BY CloserNames DEF onVoiceServerUpdate, onVoiceStateUpdate, reconnect, StartReconnect, JoinAgain,
         reconnectVoiceConnections, User, ChannelVoiceJoin, Disconnect, Close
<1> QED BY <1>2, <1>3, RestMoves, CloseMoves

(* The one step that does not: a websocket is installed.                   *)
Installs(o) ==
    /\ MayInstall /\ pc[o] = "install" /\ Use("generation")
    /\ gens' = Append(gens, [opener |-> o, resumed |-> FALSE, heartbeatStarted |-> FALSE,
                             described |-> FALSE, open |-> TRUE, cancelled |-> FALSE,
                             closedBy |-> Nobody])
    /\ v' = [v EXCEPT !.generation = Len(gens) + 1, !.close = @ \/ o[1] # "resume",
                      !.awaitingHeartbeat = @ /\ o[1] = "resume",
                      !.resumeAttempts = IF o[1] = "resume" THEN @ ELSE 0]
    /\ lost' = FALSE /\ Go(o, "handshake") /\ UNCHANGED reconnects
    /\ UNCHANGED <<mapped, alive, loop, user, closer, beating, receiving, missed>>

LEMMA NextMoves ==
    ASSUME TypeOK, [Next]_vars PROVE Moves \/ \E o \in Openers : Installs(o)
<1>1. ASSUME NEW o \in Openers, OpenStep(o) PROVE Moves \/ Installs(o)
  <2>1. Install(o) => Installs(o) \/ OpenFailed(o)
    BY <1>1 DEF OpenStep, Install, Installs
  <2> QED BY <1>1, <2>1, OpeningMoves DEF OpenStep
<1>2. ASSUME NEW g \in DOMAIN gens, Listen(g) PROVE Moves
  BY <1>2, ListeningMoves
<1>3. ASSUME NEW g \in DOMAIN gens, MinorStep(g)
      PROVE  Moves
  BY <1>3, GenerationMoves
<1>4. CASE UNCHANGED vars
  BY <1>4, RestMoves DEF vars
<1> QED BY <1>1, <1>2, <1>3, <1>4, SessionMoves DEF Next, MinorStep

(* What an Install leaves.                                                 *)
LEMMA InstallAppends ==
    ASSUME TypeOK, Bounded, NEW o \in Openers, Installs(o)
    PROVE  /\ gens' \in Seq(Generation) /\ Len(gens') = Len(gens) + 1
           /\ DOMAIN gens' = DOMAIN gens \cup {Len(gens) + 1}
           /\ Len(gens) + 1 \in Generations \ DOMAIN gens
           /\ \A g \in DOMAIN gens : gens'[g] = gens[g]
           /\ gens'[Len(gens) + 1].opener = o
           /\ gens'[Len(gens) + 1].closedBy = Nobody
           /\ left["generation"] \in Nat /\ left'["generation"] = left["generation"] - 1
           /\ left' \in [BoundedEvents -> Nat] /\ Len(gens') <= MaxGenerations
<1> DEFINE n == [opener |-> o, resumed |-> FALSE, heartbeatStarted |-> FALSE,
                 described |-> FALSE, open |-> TRUE, cancelled |-> FALSE,
                 closedBy |-> Nobody]
<1>1. gens \in Seq(Generation) /\ n \in Generation /\ n.opener = o
      /\ n.closedBy = Nobody /\ DOMAIN gens = 1 .. Len(gens) /\ Len(gens) \in Nat
  BY Typed DEF Generation
<1>2. gens' = Append(gens, n)
  BY DEF Installs
<1> HIDE DEF n
<1>3. /\ gens' \in Seq(Generation) /\ Len(gens') = Len(gens) + 1
      /\ \A g \in 1 .. Len(gens) : gens'[g] = gens[g]
      /\ gens'[Len(gens) + 1] = n
  BY <1>1, <1>2, AppendProperties
<1>4. DOMAIN gens' = 1 .. Len(gens')
  BY <1>3, LenProperties
<1>5. /\ left["generation"] \in Nat /\ left["generation"] > 0
      /\ left'["generation"] = left["generation"] - 1 /\ left' \in [BoundedEvents -> Nat]
  BY DEF Installs, Use, TypeOK, BoundedEvents
<1>6. Len(gens) + 1 <= MaxGenerations
  BY <1>1, <1>5, VoiceAssumption DEF Bounded
<1> QED BY <1>1, <1>3, <1>4, <1>5, <1>6 DEF Generations

-----------------------------------------------------------------------------
(* What v holds.                                                           *)
LEMMA HoldKeeps ==
    ASSUME IInv, [Next]_vars PROVE NoWebsocketLost' /\ AwaitedAckIsOurs'
<1>1. TypeOK /\ v \in Transport /\ DOMAIN gens \subseteq Generations
  BY Typed DEF IInv
<1>2. CASE Moves
  <2>2. NoWebsocketLost'
    BY <1>2 DEF IInv, NoWebsocketLost, Current, Moves, Keeps
  <2>3. AwaitedAckIsOurs'
    BY <1>2 DEF IInv, Moves, AwaitedAckIsOurs
  <2> QED BY <2>2, <2>3
<1>3. ASSUME NEW o \in Openers, Installs(o) PROVE NoWebsocketLost' /\ AwaitedAckIsOurs'
  <2>1. v.generation = NoGeneration
    BY <1>3 DEF Installs, MayInstall
  <2>2. v'.generation = Len(gens) + 1
    BY <1>1, <1>3 DEF Installs, Transport
  <2>3. ~v'.awaitingHeartbeat
    BY <1>1, <1>3, <2>1 DEF Installs, Transport, IInv, AwaitedAckIsOurs
  <2>4. \A g \in DOMAIN gens : gens[g].open => gens[g].closedBy # Nobody
    BY <1>1, <2>1, Names DEF IInv, NoWebsocketLost, Current
  <2>5. NoWebsocketLost'
    BY <1>1, <1>3, <2>2, <2>4, InstallAppends DEF IInv, NoWebsocketLost, Current
  <2> QED BY <2>3, <2>5 DEF AwaitedAckIsOurs
<1> QED BY <1>1, <1>2, <1>3, NextMoves

-----------------------------------------------------------------------------
(* The steps of the goroutines, by what they do to pc.                     *)
PCStates == {"idle", "session", "install", "handshake", "read", "waiting",
             "drop", "remove", "ended", "failed"} \cup Events \cup CloseActions

(* An opener goes on: an update starts, the session id is there, or it ends.*)
LEMMA OpenerGoes ==
    ASSUME IInv, Keeps, NEW o \in Openers, NEW to \in {"session", "install", "failed", "ended"},
           pc' = [pc EXCEPT ![o] = to],
           \/ pc[o] = "idle" /\ to = "session" /\ o[1] = "update"
           \/ pc[o] = "session" /\ to \in {"install", "ended"}
           \/ pc[o] \in {"install", "failed"} /\ to = "ended"
           \/ pc[o] = "handshake" /\ to \in {"failed", "ended"}
    PROVE  Roles' /\ Confirmed' /\ pc' \in [Procs -> PCStates]
<1>1. /\ pc \in [Procs -> PCStates] /\ DOMAIN gens \subseteq Generations /\ o \in Procs
      /\ \A g \in DOMAIN gens : gens[g].opener \in Openers
  BY Typed, Names DEF IInv, PCStates, Generation
<1>2. /\ pc'[o] = to /\ \A p \in Procs : p # o => pc'[p] = pc[p]
      /\ pc' \in [Procs -> PCStates]
  BY <1>1 DEF PCStates
<1>3. \A g \in Generations : pc'[Listener(g)] = pc[Listener(g)]
  BY <1>2, Names
<1>4. \A g \in Generations : pc'[Resumer(g)] # "idle" => pc[Resumer(g)] # "idle"
  BY <1>2, Names
<1>5. \A p \in Openers : pc[p] = "ended" => pc'[p] = "ended"
  BY <1>2, Names
<1>6. \A p \in Openers : pc[p] \in {"handshake", "failed", "ended"} => pc'[p] \in {"handshake", "failed", "ended"}
  BY <1>2, Names
<1>7. \A p \in Openers : pc'[p] \in OpenerStates
  BY <1>2, Names DEF IInv, Roles, OpenerStates
<1>8. Roles'
  <2>1. \A g \in Generations : pc'[Listener(g)] # "idle" =>
            g \in DOMAIN gens' /\ pc'[gens'[g].opener] = "ended"
    BY <1>1, <1>3, <1>5 DEF IInv, Roles, Keeps
  <2>2. \A g \in Generations : pc'[Resumer(g)] # "idle" => pc'[Listener(g)] = "ended"
    BY <1>3, <1>4 DEF IInv, Roles
  <2>3. \A g \in DOMAIN gens' : pc'[gens'[g].opener] \in {"handshake", "failed", "ended"}
    BY <1>1, <1>6 DEF IInv, Roles, Keeps
  <2>4. \A g, h \in DOMAIN gens' : gens'[g].opener = gens'[h].opener => g = h
    BY DEF IInv, Roles, Keeps
  <2> QED BY <1>7, <2>1, <2>2, <2>3, <2>4 DEF Roles
<1>9. Confirmed'
  BY <1>1, <1>3, <1>4 DEF IInv, Confirmed, IsResume, Keeps
<1> QED BY <1>2, <1>8, <1>9

(* A listener goes on; it resumes nothing that was not confirmed.          *)
LEMMA ListenerGoes ==
    ASSUME IInv, Keeps, NEW g \in DOMAIN gens, NEW to \in PCStates,
           pc' = [pc EXCEPT ![Listener(g)] = to], pc[Listener(g)] \notin {"idle", "ended"},
           to = "resume" => gens[g].resumed \/ ~IsResume(g)
    PROVE  Roles' /\ Confirmed' /\ pc' \in [Procs -> PCStates]
<1>1. /\ pc \in [Procs -> PCStates] /\ DOMAIN gens \subseteq Generations
      /\ Listener(g) \in Procs /\ \A h \in DOMAIN gens : gens[h].opener \in Openers
  BY Typed, Names DEF IInv, PCStates, Generation
<1>2. /\ pc'[Listener(g)] = to /\ pc' \in [Procs -> PCStates]
      /\ \A h \in Generations : h # g => pc'[Listener(h)] = pc[Listener(h)]
      /\ \A o \in Openers : pc'[o] = pc[o]
  BY <1>1, Names
<1>3. \A h \in Generations : pc'[Resumer(h)] = pc[Resumer(h)]
  BY <1>2, Names
<1>4. pc[Resumer(g)] = "idle"
  BY <1>1 DEF IInv, Roles
<1>5. Roles'
  <2>1. \A h \in Generations : pc'[Listener(h)] # "idle" =>
            h \in DOMAIN gens' /\ pc'[gens'[h].opener] = "ended"
    BY <1>1, <1>2 DEF IInv, Roles, Keeps
  <2>2. \A h \in Generations : pc'[Resumer(h)] # "idle" => pc'[Listener(h)] = "ended"
    BY <1>2, <1>3, <1>4 DEF IInv, Roles
  <2>3. \A h \in DOMAIN gens' : pc'[gens'[h].opener] \in {"handshake", "failed", "ended"}
    BY <1>1, <1>2 DEF IInv, Roles, Keeps
  <2>4. \A h, i \in DOMAIN gens' : gens'[h].opener = gens'[i].opener => h = i
    BY DEF IInv, Roles, Keeps
  <2> QED BY <1>2, <2>1, <2>2, <2>3, <2>4 DEF IInv, Roles
<1>6. Confirmed'
  BY <1>1, <1>2, <1>3 DEF IInv, Confirmed, IsResume, Keeps
<1> QED BY <1>2, <1>5, <1>6

(* No goroutine of an opener or a listener goes on.                        *)
LEMMA NobodyGoes ==
    ASSUME IInv, Keeps, UNCHANGED pc
    PROVE  Roles' /\ Confirmed' /\ pc' \in [Procs -> PCStates]
<1>1. pc \in [Procs -> PCStates] /\ DOMAIN gens \subseteq Generations
  BY Typed DEF IInv, PCStates
<1>2. Roles'
  BY DEF IInv, Roles, Keeps
<1>3. Confirmed'
  BY DEF IInv, Confirmed, IsResume, Keeps
<1> QED BY <1>1, <1>2, <1>3

LEMMA InstallGoes ==
    ASSUME IInv, NEW o \in Openers, Installs(o)
    PROVE  Roles' /\ Confirmed' /\ pc' \in [Procs -> PCStates]
<1> DEFINE n == Len(gens) + 1
<1>1. /\ pc \in [Procs -> PCStates] /\ DOMAIN gens \subseteq Generations /\ o \in Procs
      /\ \A g \in DOMAIN gens : gens[g].opener \in Openers
  BY Typed, Names DEF IInv, PCStates, Generation
<1>2. /\ pc[o] = "install" /\ pc'[o] = "handshake" /\ pc' \in [Procs -> PCStates]
      /\ \A p \in Procs : p # o => pc'[p] = pc[p]
  BY <1>1 DEF Installs, Go, PCStates
<1>3. /\ DOMAIN gens' = DOMAIN gens \cup {n} /\ n \in Generations \ DOMAIN gens
      /\ \A g \in DOMAIN gens : gens'[g] = gens[g]
      /\ gens'[n].opener = o
  BY InstallAppends DEF IInv
<1> HIDE DEF n
<1>4. \A g \in DOMAIN gens : gens[g].opener # o
  BY <1>2 DEF IInv, Roles
<1>5. \A g \in Generations : pc'[Listener(g)] = pc[Listener(g)]
  BY <1>2, Names
<1>6. pc[Listener(n)] = "idle" /\ pc[Resumer(n)] = "idle"
  BY <1>3 DEF IInv, Roles
<1>7. \A g \in Generations : pc'[Resumer(g)] # "idle" => pc[Resumer(g)] # "idle"
  BY <1>2, Names
<1>8. \A g \in DOMAIN gens : pc'[gens[g].opener] = pc[gens[g].opener]
  BY <1>1, <1>2, <1>4, Names
<1>9. Roles'
  <2>1. \A p \in Openers : pc'[p] \in OpenerStates
    BY <1>2, Names DEF IInv, Roles, OpenerStates
  <2>2. \A g \in Generations : pc'[Listener(g)] # "idle" =>
            g \in DOMAIN gens' /\ pc'[gens'[g].opener] = "ended"
    BY <1>3, <1>5, <1>8 DEF IInv, Roles
  <2>3. \A g \in Generations : pc'[Resumer(g)] # "idle" => pc'[Listener(g)] = "ended"
    BY <1>5, <1>7 DEF IInv, Roles
  <2>4. \A g \in DOMAIN gens' : pc'[gens'[g].opener] \in {"handshake", "failed", "ended"}
    BY <1>2, <1>3, <1>8 DEF IInv, Roles
  <2>5. \A g, h \in DOMAIN gens' : gens'[g].opener = gens'[h].opener => g = h
    BY <1>3, <1>4 DEF IInv, Roles
  <2> QED BY <2>1, <2>2, <2>3, <2>4, <2>5 DEF Roles
<1>10. Confirmed'
  <2>1. ASSUME NEW g \in DOMAIN gens, IsResume(g)', ~gens'[g].resumed
        PROVE  pc'[Listener(g)] # "resume" /\ pc'[Resumer(g)] = "idle"
    BY <1>1, <1>3, <1>5, <1>7, <2>1 DEF IInv, Confirmed, IsResume
  <2>2. pc'[Listener(n)] # "resume" /\ pc'[Resumer(n)] = "idle"
    BY <1>3, <1>5, <1>6, <1>7
  <2> QED BY <1>3, <2>1, <2>2 DEF Confirmed
<1> QED BY <1>2, <1>9, <1>10

(* The handshake succeeds: the opener ends and the listener starts.        *)
LEMMA HandshakeGoes ==
    ASSUME IInv, Keeps, NEW o \in Openers, NEW g \in DOMAIN gens,
           pc[o] = "handshake", gens[g].opener = o,
           pc' = [pc EXCEPT ![o] = "ended", ![Listener(g)] = "read"]
    PROVE  /\ Roles' /\ Confirmed' /\ pc' \in [Procs -> PCStates]
           /\ pc[Listener(g)] = "idle"
<1>1. /\ pc \in [Procs -> PCStates] /\ DOMAIN gens \subseteq Generations /\ g \in Generations /\ o \in Procs
      /\ Listener(g) \in Procs /\ Listener(g) # o
      /\ \A h \in DOMAIN gens : gens[h].opener \in Openers
  BY Typed, Names DEF IInv, PCStates, Generation
<1>2. /\ pc'[o] = "ended" /\ pc'[Listener(g)] = "read" /\ pc' \in [Procs -> PCStates]
      /\ \A p \in Procs : p # o /\ p # Listener(g) => pc'[p] = pc[p]
  BY <1>1 DEF PCStates, Events
<1>3. \A h \in Generations : h # g => pc'[Listener(h)] = pc[Listener(h)]
  BY <1>1, <1>2, Names
<1>4. \A p \in Openers : p # o => pc'[p] = pc[p]
  BY <1>1, <1>2, Names
<1>5. pc[Listener(g)] = "idle" /\ pc[Resumer(g)] = "idle"
  BY <1>1 DEF IInv, Roles
<1>6. \A h \in Generations : pc'[Resumer(h)] # "idle" => pc[Resumer(h)] # "idle"
  BY <1>4, Names
<1>9. \A h \in DOMAIN gens : /\ gens'[h].opener = gens[h].opener
                             /\ pc[gens[h].opener] = "ended" => pc'[gens'[h].opener] = "ended"
                             /\ pc'[gens'[h].opener] \in {"handshake", "failed", "ended"}
  <2> SUFFICES ASSUME NEW h \in DOMAIN gens
               PROVE  /\ gens'[h].opener = gens[h].opener
                      /\ pc[gens[h].opener] = "ended" => pc'[gens[h].opener] = "ended"
                      /\ pc'[gens[h].opener] \in {"handshake", "failed", "ended"}
    BY DEF Keeps
  <2>1. pc[gens[h].opener] \in {"handshake", "failed", "ended"} /\ gens[h].opener \in Openers
    BY <1>1 DEF IInv, Roles
  <2> QED BY <1>2, <1>4, <2>1 DEF Keeps
<1>7. Roles'
  <2>1. \A p \in Openers : pc'[p] \in OpenerStates
    BY <1>2, <1>4 DEF IInv, Roles, OpenerStates
  <2>2. \A h \in Generations : pc'[Listener(h)] # "idle" =>
            h \in DOMAIN gens' /\ pc'[gens'[h].opener] = "ended"
    <3>1. pc'[gens'[g].opener] = "ended"
      BY <1>2, <1>9
    <3>2. \A h \in Generations : pc[Listener(h)] # "idle" =>
              h \in DOMAIN gens /\ pc[gens[h].opener] = "ended"
      BY DEF IInv, Roles
    <3> QED BY <1>3, <1>9, <3>1, <3>2 DEF Keeps
  <2>3. \A h \in Generations : pc'[Resumer(h)] # "idle" => pc'[Listener(h)] = "ended"
    BY <1>3, <1>5, <1>6 DEF IInv, Roles
  <2>4. \A h \in DOMAIN gens' : pc'[gens'[h].opener] \in {"handshake", "failed", "ended"}
    BY <1>9 DEF Keeps
  <2>5. \A h, i \in DOMAIN gens' : gens'[h].opener = gens'[i].opener => h = i
    BY DEF IInv, Roles, Keeps
  <2> QED BY <2>1, <2>2, <2>3, <2>4, <2>5 DEF Roles
<1>8. Confirmed'
  <2>1. ASSUME NEW h \in DOMAIN gens, IsResume(h)', ~gens'[h].resumed
        PROVE  pc'[Listener(h)] # "resume" /\ pc'[Resumer(h)] = "idle"
    <3>1. IsResume(h) /\ ~gens[h].resumed /\ h \in Generations
      BY <1>1, <1>9, <2>1 DEF IsResume, Keeps
    <3>2. pc[Listener(h)] # "resume" /\ pc[Resumer(h)] = "idle"
      BY <3>1 DEF IInv, Confirmed
    <3> QED BY <1>2, <1>3, <1>6, <3>1, <3>2
  <2> QED BY <2>1 DEF Confirmed, Keeps
<1> QED BY <1>2, <1>5, <1>7, <1>8

(* A listener ends and the resume of its websocket starts.                 *)
LEMMA ResumeGoes ==
    ASSUME IInv, Keeps, NEW g \in DOMAIN gens, pc[Listener(g)] = "resume",
           pc' = [pc EXCEPT ![Listener(g)] = "ended", ![Resumer(g)] = "session"]
    PROVE  Roles' /\ Confirmed' /\ pc' \in [Procs -> PCStates]
<1>1. /\ pc \in [Procs -> PCStates] /\ DOMAIN gens \subseteq Generations /\ g \in Generations
      /\ Listener(g) \in Procs /\ Resumer(g) \in Procs /\ Listener(g) # Resumer(g)
      /\ \A h \in DOMAIN gens : gens[h].opener \in Openers
  BY Typed, Names DEF IInv, PCStates, Generation
<1>2. /\ pc'[Resumer(g)] = "session" /\ pc'[Listener(g)] = "ended"
      /\ pc' \in [Procs -> PCStates]
      /\ \A p \in Procs : p # Resumer(g) /\ p # Listener(g) => pc'[p] = pc[p]
  BY <1>1 DEF PCStates
<1>3. \A h \in Generations : h # g => pc'[Listener(h)] = pc[Listener(h)]
  BY <1>1, <1>2, Names
<1>4. \A p \in Openers : p # Resumer(g) => pc'[p] = pc[p]
  BY <1>1, <1>2, Names
<1>5. pc[Resumer(g)] = "idle" /\ \A h \in DOMAIN gens : gens[h].opener # Resumer(g)
  BY <1>1 DEF IInv, Roles
<1>6. \A h \in Generations : h # g => pc'[Resumer(h)] = pc[Resumer(h)]
  BY <1>1, <1>4, Names
<1>9. \A h \in DOMAIN gens : /\ gens'[h].opener = gens[h].opener
                             /\ pc'[gens'[h].opener] = pc[gens[h].opener]
  BY <1>1, <1>4, <1>5 DEF Keeps
<1>7. Roles'
  <2>1. \A p \in Openers : pc'[p] \in OpenerStates
    BY <1>2, <1>4 DEF IInv, Roles, OpenerStates
  <2>2. \A h \in Generations : pc'[Listener(h)] # "idle" =>
            h \in DOMAIN gens' /\ pc'[gens'[h].opener] = "ended"
    BY <1>1, <1>3, <1>9 DEF IInv, Roles, Keeps
  <2>3. \A h \in Generations : pc'[Resumer(h)] # "idle" => pc'[Listener(h)] = "ended"
    BY <1>2, <1>3, <1>6 DEF IInv, Roles
  <2>4. \A h \in DOMAIN gens' : pc'[gens'[h].opener] \in {"handshake", "failed", "ended"}
    BY <1>9 DEF IInv, Roles, Keeps
  <2>5. \A h, i \in DOMAIN gens' : gens'[h].opener = gens'[i].opener => h = i
    BY DEF IInv, Roles, Keeps
  <2> QED BY <2>1, <2>2, <2>3, <2>4, <2>5 DEF Roles
<1>8. Confirmed'
  <2>1. ASSUME NEW h \in DOMAIN gens, IsResume(h)', ~gens'[h].resumed
        PROVE  pc'[Listener(h)] # "resume" /\ pc'[Resumer(h)] = "idle"
    <3>1. IsResume(h) /\ ~gens[h].resumed /\ h \in Generations
      BY <1>1, <1>9, <2>1 DEF IsResume, Keeps
    <3>2. pc[Listener(h)] # "resume" /\ pc[Resumer(h)] = "idle"
      BY <3>1 DEF IInv, Confirmed
    <3> QED BY <1>3, <1>6, <3>1, <3>2
  <2> QED BY <2>1 DEF Confirmed, Keeps
<1> QED BY <1>2, <1>7, <1>8

-----------------------------------------------------------------------------
(* The steps, one goroutine at a time.                                     *)
Answers(g) == \/ pc[Resumer(g)] \in {"session", "install", "failed"}
              \/ pc[Listener(g)] \in CloseActions

(* Whoever answers for the loss still does, or a reconnect is started.     *)
LEMMA AnswersKeep ==
    ASSUME Awaited, alive' => alive, missed => missed', lost' => lost,
           \/ reconnects' > 0
           \/ /\ reconnects > 0 => reconnects' > 0
              /\ \A g \in Generations : Answers(g) => Answers(g)'
    PROVE  Awaited'
BY DEF Awaited, Answers

LEMMA OpenersKeep ==
    ASSUME IInv, NEW o \in Openers, OpenStep(o)
    PROVE  Roles' /\ Confirmed' /\ pc' \in [Procs -> PCStates] /\ Awaited'
<1>1. /\ pc \in [Procs -> PCStates] /\ o \in Procs /\ reconnects \in Nat
      /\ DOMAIN gens \subseteq Generations /\ UNCHANGED <<alive, missed>> /\ TypeOK
  BY Typed, Names DEF IInv, PCStates, TypeOK, OpenStep
<1>2. ASSUME OpenFailed(o), pc[o] \in {"session", "install", "handshake", "failed"}
      PROVE  Roles' /\ Confirmed' /\ pc' \in [Procs -> PCStates] /\ Awaited'
  <2>1. Keeps
    BY <1>1, <1>2, OpeningMoves DEF Moves
  <2>2. pc' = [pc EXCEPT ![o] = "ended"]
    BY <1>2 DEF OpenFailed, Go
  <2>3. Roles' /\ Confirmed' /\ pc' \in [Procs -> PCStates]
    BY <1>2, <2>1, <2>2, OpenerGoes
  <2>4. CASE o[1] = "resume"
    <3>1. CASE alive /\ reconnects' = reconnects + 1 /\ UNCHANGED lost
      BY <1>1, <2>3, <3>1, AnswersKeep DEF IInv
    <3>2. CASE ~alive
      BY <1>1, <2>3, <3>2 DEF Awaited
    <3> QED BY <1>2, <2>3, <2>4, <3>1, <3>2 DEF OpenFailed, scheduleVoiceReconnect
  <2>5. CASE o[1] # "resume"
    <3>1. UNCHANGED <<lost, reconnects>>
      BY <1>2, <2>5 DEF OpenFailed
    <3>2. \A g \in Generations : Answers(g) => Answers(g)'
      BY <1>1, <2>2, <2>5, Names DEF Answers
    <3> QED BY <1>1, <2>3, <3>1, <3>2, AnswersKeep DEF IInv
  <2> QED BY <2>4, <2>5
<1>3. CASE AwaitSession(o)
  <2>1. CASE Go(o, "install") /\ UNCHANGED <<v, gens, lost, reconnects>>
    <3>1. Keeps /\ pc[o] = "session" /\ pc' = [pc EXCEPT ![o] = "install"]
      BY <1>1, <1>3, OpeningMoves, <2>1 DEF Moves, AwaitSession, Go
    <3>2. Roles' /\ Confirmed' /\ pc' \in [Procs -> PCStates]
      BY <3>1, OpenerGoes
    <3>3. \A g \in Generations : Answers(g) => Answers(g)'
      BY <1>1, <3>1, Names DEF Answers
    <3> QED BY <1>1, <2>1, <3>2, <3>3, AnswersKeep DEF IInv
  <2> QED BY <1>2, <1>3, <2>1 DEF AwaitSession
<1>4. CASE Install(o)
  <2>1. CASE Installs(o)
    <3>1. ~lost'
      BY <2>1 DEF Installs
    <3> QED BY <2>1, <3>1, InstallGoes DEF Awaited
  <2>2. CASE OpenFailed(o)
    BY <1>2, <1>4, <2>2 DEF Install
  <2> QED BY <1>4, <2>1, <2>2 DEF Install, Installs, OpenStep
<1>5. CASE Handshake(o)
  <2>1. Keeps
    BY <1>1, <1>5, OpeningMoves DEF Moves
  <2>6. CASE pc[o] = "failed" /\ OpenFailed(o)
    BY <1>2, <2>6
  <2> SUFFICES ASSUME NEW g \in DOMAIN gens, pc[o] = "handshake", gens[g].opener = o,
                      \/ HandshakeFails(o, g)
                      \/ /\ pc' = [pc EXCEPT ![o] = "ended", ![Listener(g)] = "read"]
                         /\ UNCHANGED <<v, gens, lost, reconnects>>
               PROVE  Roles' /\ Confirmed' /\ pc' \in [Procs -> PCStates] /\ Awaited'
    BY <1>5, <2>6 DEF Handshake
  <2>3. CASE HandshakeFails(o, g)
    <3>1. CASE OpenFailed(o)
      BY <1>2, <3>1
    <3>2. CASE Go(o, "failed") /\ lost' = (o[1] = "resume")
      <4>1. Roles' /\ Confirmed' /\ pc' \in [Procs -> PCStates]
        BY <2>1, <3>2, OpenerGoes DEF Go
      <4>2. lost' => o[1] = "resume"
        BY <3>2, Zenon
      <4>3. pc'[o] = "failed"
        BY <1>1, <3>2 DEF Go
      <4> QED BY <4>1, <4>2, <4>3, Names DEF Awaited
    <3> QED BY <2>3, <3>1, <3>2 DEF HandshakeFails
  <2>4. CASE /\ pc' = [pc EXCEPT ![o] = "ended", ![Listener(g)] = "read"]
             /\ UNCHANGED <<v, gens, lost, reconnects>>
    <3>1. Roles' /\ Confirmed' /\ pc' \in [Procs -> PCStates] /\ pc[Listener(g)] = "idle"
      BY <2>1, <2>4, HandshakeGoes
    <3>2. \A h \in Generations : Answers(h) => Answers(h)'
      <4>1. pc[o] = "handshake" /\ \A p \in Procs : p # o /\ p # Listener(g) => pc'[p] = pc[p]
        BY <1>1, <2>4
      <4>2. \A h \in Generations : pc[Resumer(h)] \in {"session", "install", "failed"} =>
                pc'[Resumer(h)] = pc[Resumer(h)]
        <5> SUFFICES ASSUME NEW h \in Generations, pc[Resumer(h)] # "handshake"
                     PROVE  pc'[Resumer(h)] = pc[Resumer(h)]
          OBVIOUS
        <5>1. Resumer(h) \in Openers /\ Resumer(h) \in Procs /\ Listener(g) \notin Openers
          BY <1>1, Names
        <5> QED BY <4>1, <5>1
      <4>3. \A h \in Generations : pc[Listener(h)] \in CloseActions =>
                pc'[Listener(h)] = pc[Listener(h)]
        BY <1>1, <3>1, <4>1, Names DEF CloseActions
      <4> QED BY <4>2, <4>3 DEF Answers
    <3> QED BY <1>1, <2>4, <3>1, <3>2, AnswersKeep DEF IInv
  <2> QED BY <2>3, <2>4
<1> QED BY <1>3, <1>4, <1>5 DEF OpenStep

LEMMA ListenersKeep ==
    ASSUME IInv, NEW g \in DOMAIN gens, Listen(g)
    PROVE  Roles' /\ Confirmed' /\ pc' \in [Procs -> PCStates] /\ Awaited'
<1> DEFINE p == Listener(g)
<1>1. /\ pc \in [Procs -> PCStates] /\ p \in Procs /\ reconnects \in Nat /\ g \in Generations
      /\ DOMAIN gens \subseteq Generations /\ UNCHANGED <<alive, missed>> /\ TypeOK
  BY Typed, Names DEF IInv, PCStates, TypeOK, Listen
<1>2. Keeps
  BY <1>1, ListeningMoves DEF Moves
<1>3. ASSUME NEW to, pc' = [pc EXCEPT ![p] = to]
      PROVE  /\ pc'[p] = to
             /\ \A h \in Generations : h # g => (Answers(h) => Answers(h)')
             /\ pc[p] \notin CloseActions \/ to \in CloseActions
                => (Answers(g) => Answers(g)')
             /\ to \in CloseActions => Answers(g)'
  BY <1>1, <1>3, Names DEF Answers
<1> HIDE DEF p
<1>4. ASSUME NEW to \in PCStates, pc' = [pc EXCEPT ![p] = to], pc[p] \notin {"idle", "ended"},
             to = "resume" => gens[g].resumed \/ ~IsResume(g)
      PROVE  Roles' /\ Confirmed' /\ pc' \in [Procs -> PCStates]
  BY <1>2, <1>4, ListenerGoes DEF p
<1>5. ASSUME NEW to \in PCStates, pc' = [pc EXCEPT ![p] = to], to # "resume",
             pc[p] \notin CloseActions \cup {"idle", "ended"}, UNCHANGED <<lost, reconnects>>
      PROVE  Roles' /\ Confirmed' /\ pc' \in [Procs -> PCStates] /\ Awaited'
  BY <1>1, <1>3, <1>4, <1>5, AnswersKeep DEF IInv
<1>6. ASSUME scheduleVoiceReconnect(p), pc' = [pc EXCEPT ![p] = "ended"],
             pc[p] \notin {"idle", "ended"}
      PROVE  Roles' /\ Confirmed' /\ pc' \in [Procs -> PCStates] /\ Awaited'
  <2>1. Roles' /\ Confirmed' /\ pc' \in [Procs -> PCStates]
    BY <1>4, <1>6 DEF PCStates
  <2>2. CASE alive /\ reconnects' = reconnects + 1 /\ UNCHANGED lost
    BY <1>1, <2>1, <2>2, AnswersKeep DEF IInv
  <2>3. CASE ~alive
    BY <1>1, <2>1, <2>3 DEF Awaited
  <2> QED BY <1>6, <2>2, <2>3 DEF scheduleVoiceReconnect
<1>7. ASSUME closeTransport(p), NEW to \in PCStates, pc' = [pc EXCEPT ![p] = to], to # "resume",
             pc[p] \notin {"idle", "ended"}
      PROVE  Roles' /\ Confirmed' /\ pc' \in [Procs -> PCStates] /\ Awaited'
  <2>1. ~lost'
    BY <1>7 DEF closeTransport
  <2> QED BY <1>4, <1>7, <2>1 DEF Awaited
<1>8. CASE Receive(g) /\ UNCHANGED lost
  <2>1. PICK e \in Events : pc' = [pc EXCEPT ![p] = e]
    BY <1>8 DEF Receive, Go, p
  <2>2. pc[p] = "read" /\ UNCHANGED reconnects
    BY <1>8 DEF Receive, p
  <2> QED BY <1>5, <1>8, <2>1, <2>2 DEF Events, CloseActions, PCStates
<1>9. CASE onEvent(g) /\ UNCHANGED lost
  <2>1. /\ pc[p] \in Events /\ UNCHANGED reconnects
        /\ pc' = [pc EXCEPT ![p] = "read"]
    BY <1>9 DEF onEvent, Ready, SessionDescription, Resumed, Hello, HeartbeatAck, Events, Go, p
  <2> QED BY <1>5, <1>9, <2>1 DEF Events, CloseActions, PCStates
<1>10. CASE handleVoiceWebsocketClose(g)
  <2>1. pc[p] = "read" /\ UNCHANGED reconnects
    BY <1>10 DEF handleVoiceWebsocketClose, p
  <2>2. CASE Done(g) \/ ~Current(g)
    <3>1. pc' = [pc EXCEPT ![p] = "ended"] /\ UNCHANGED lost
      BY <1>10, <2>2 DEF handleVoiceWebsocketClose, Go, p
    <3> QED BY <1>5, <2>1, <3>1 DEF CloseActions, PCStates
  <2>3. CASE ~(Done(g) \/ ~Current(g))
    <3>1. PICK code \in CloseActions : pc' = [pc EXCEPT ![p] = classify(g, code)]
      BY <1>10, <2>3 DEF handleVoiceWebsocketClose, Go, p, CloseActions
    <3>2. /\ classify(g, code) \in CloseActions /\ classify(g, code) \in PCStates
          /\ classify(g, code) = "resume" => gens[g].resumed \/ ~IsResume(g)
      BY DEF classify, CloseActions, PCStates
    <3>3. Roles' /\ Confirmed' /\ pc' \in [Procs -> PCStates]
      BY <1>4, <2>1, <3>1, <3>2
    <3>4. Answers(g)'
      BY <1>3, <3>1, <3>2
    <3> QED BY <1>1, <3>3, <3>4 DEF Awaited, Answers
  <2> QED BY <2>2, <2>3
<1>11. CASE StartResume(g)
  <2>1. pc[p] = "resume"
    BY <1>11 DEF StartResume, p
  <2>2. CASE scheduleVoiceReconnect(p) /\ Go(p, "ended")
    BY <1>6, <2>1, <2>2 DEF Go
  <2>3. CASE closeTransport(p) /\ Go(p, "ended")
    BY <1>7, <2>1, <2>3 DEF Go, PCStates
  <2>4. CASE pc' = [pc EXCEPT ![p] = "ended", ![Resumer(g)] = "session"]
    <3>1. Roles' /\ Confirmed' /\ pc' \in [Procs -> PCStates]
      BY <1>2, <2>1, <2>4, ResumeGoes DEF p
    <3>2. pc'[Resumer(g)] = "session"
      BY <1>1, <2>4, Names DEF p
    <3> QED BY <1>1, <3>1, <3>2 DEF Awaited
  <2> QED BY <1>11, <2>2, <2>3, <2>4 DEF StartResume, p
<1>12. CASE AfterClose(g)
  <2>1. CASE scheduleVoiceReconnect(p) /\ Go(p, "ended") /\ pc[p] = "fresh"
    BY <1>6, <2>1 DEF Go
  <2>2. CASE /\ pc[p] \in {"wait", "terminal", "drop"} /\ closeTransport(p)
             /\ \E to \in {"waiting", "remove", "ended"} : Go(p, to)
    BY <1>7, <2>2 DEF Go, PCStates
  <2>3. CASE /\ pc[p] \in {"waiting", "remove"} /\ UNCHANGED <<lost, reconnects>>
             /\ \E to \in {"drop", "ended"} : Go(p, to)
    BY <1>5, <2>3 DEF Go, PCStates, CloseActions
  <2>4. \/ scheduleVoiceReconnect(p) /\ Go(p, "ended") /\ pc[p] = "fresh"
        \/ /\ pc[p] \in {"wait", "terminal", "drop"} /\ closeTransport(p)
           /\ \E to \in {"waiting", "remove", "ended"} : Go(p, to)
        \/ /\ pc[p] \in {"waiting", "remove"} /\ UNCHANGED <<lost, reconnects>>
           /\ \E to \in {"drop", "ended"} : Go(p, to)
    BY <1>12 DEF AfterClose, p
  <2> QED BY <2>1, <2>2, <2>3, <2>4
<1> QED BY <1>8, <1>9, <1>10, <1>11, <1>12 DEF Listen

(* The reconnect loop, heartbeats, the receivers, the user and Close.      *)
LEMMA OthersKeep ==
    ASSUME IInv,
           \/ \E g \in DOMAIN gens : MinorStep(g)
           \/ \E u \in 1 .. MaxUpdates : onVoiceServerUpdate(u)
           \/ onVoiceStateUpdate \/ reconnect \/ reconnectVoiceConnections \/ User \/ Close
    PROVE  Roles' /\ Confirmed' /\ pc' \in [Procs -> PCStates] /\ Awaited'
<1>1. /\ pc \in [Procs -> PCStates] /\ reconnects \in Nat /\ TypeOK /\ Awaited
  BY Typed DEF IInv, PCStates, TypeOK
<1>2. Keeps
  BY <1>1, GenerationMoves, SessionMoves DEF Moves
<1>3. ASSUME NEW u \in 1 .. MaxUpdates, onVoiceServerUpdate(u)
      PROVE  Roles' /\ Confirmed' /\ pc' \in [Procs -> PCStates] /\ Awaited'
  <2>1. /\ pc[Updater(u)] = "idle" /\ pc' = [pc EXCEPT ![Updater(u)] = "session"] /\ ~lost'
    BY <1>3 DEF onVoiceServerUpdate, Go, closeTransport
  <2>2. Updater(u) \in Openers /\ Updater(u)[1] = "update"
    BY Names
  <2>3. Roles' /\ Confirmed' /\ pc' \in [Procs -> PCStates]
    BY <1>2, <2>1, <2>2, OpenerGoes
  <2> QED BY <2>1, <2>3 DEF Awaited
<1>4. CASE UNCHANGED pc
  <2>1. Roles' /\ Confirmed' /\ pc' \in [Procs -> PCStates]
    BY <1>2, <1>4, NobodyGoes
  <2>2. CASE /\ alive' => alive /\ UNCHANGED missed /\ reconnects' \in {reconnects, reconnects + 1}
             /\ ~lost' \/ UNCHANGED lost
    BY <1>1, <1>4, <2>1, <2>2 DEF Awaited
  <2>3. CASE reconnect
    <3>1. UNCHANGED alive
      BY <2>3 DEF reconnect
    <3>2. CASE closeTransport(Reconnector)
      BY <2>1, <3>2 DEF closeTransport, Awaited
    <3>3. CASE missed' = (missed \/ alive)
      BY <2>1, <3>1, <3>3, Zenon DEF Awaited
    <3>4. CASE UNCHANGED <<lost, reconnects, missed>>
      BY <1>1, <1>4, <2>1, <3>1, <3>4 DEF Awaited
    <3> QED BY <2>3, <3>2, <3>3, <3>4 DEF reconnect, StartReconnect, JoinAgain
  <2>4. ASSUME NEW g \in DOMAIN gens, MinorStep(g)
        PROVE  /\ UNCHANGED <<alive, missed, lost>>
               /\ reconnects' \in {reconnects, reconnects + 1}
    BY <2>4 DEF MinorStep, CancelAndClose, CloseUnresumed, wsHeartbeat, opusReceiver, procs
  <2>5. CASE onVoiceStateUpdate \/ reconnectVoiceConnections \/ User \/ Close
    <3>1. UNCHANGED missed /\ reconnects' \in {reconnects, reconnects + 1}
      BY <2>5 DEF onVoiceStateUpdate, reconnectVoiceConnections, User, Close, procs
    <3>2. alive' => alive
      BY <2>5 DEF onVoiceStateUpdate, reconnectVoiceConnections, User, Close
    <3>3. ~lost' \/ UNCHANGED lost
      BY <2>5 DEF onVoiceStateUpdate, reconnectVoiceConnections, User, ChannelVoiceJoin,
                  Disconnect, Close, closeTransport
    <3> QED BY <2>2, <3>1, <3>2, <3>3
  <2> QED BY <1>3, <2>2, <2>3, <2>4, <2>5
<1>5. UNCHANGED pc \/ \E u \in 1 .. MaxUpdates : onVoiceServerUpdate(u)
  BY DEF MinorStep, CancelAndClose, CloseUnresumed, wsHeartbeat, opusReceiver, onVoiceStateUpdate, reconnect,
         reconnectVoiceConnections, User, Close, procs
<1> QED BY <1>3, <1>4, <1>5

-----------------------------------------------------------------------------
(* The types, and the bound of the scenario.                               *)
LEMMA BoundKeeps ==
    ASSUME TypeOK, [Next]_vars
    PROVE  /\ left' \in [BoundedEvents -> Nat]
           /\ left'["generation"] <= left["generation"]
<1>1. left \in [BoundedEvents -> Nat] /\ "generation" \in BoundedEvents
  BY DEF TypeOK, BoundedEvents
<1>2. ASSUME NEW what \in BoundedEvents, Use(what)
      PROVE  /\ left' \in [BoundedEvents -> Nat]
             /\ left'["generation"] <= left["generation"]
  <2>1. /\ left[what] \in Nat \ {0} /\ left' = [left EXCEPT ![what] = left[what] - 1]
    BY <1>1, <1>2 DEF Use
  <2> QED BY <1>1, <1>2, <2>1
<1>3. UNCHANGED left \/ \E what \in BoundedEvents : Use(what)
  <2>1. ASSUME NEW o \in Openers, OpenStep(o)
        PROVE  UNCHANGED left \/ \E what \in BoundedEvents : Use(what)
    BY <2>1 DEF OpenStep, AwaitSession, Install, Handshake, BoundedEvents
  <2>2. ASSUME NEW g \in DOMAIN gens, Listen(g)
        PROVE  UNCHANGED left \/ \E what \in BoundedEvents : Use(what)
    BY <2>2 DEF Listen, Receive, BoundedEvents
  <2>3. ASSUME NEW g \in DOMAIN gens, MinorStep(g)
        PROVE  UNCHANGED left
    BY <2>3 DEF MinorStep, CancelAndClose, CloseUnresumed, wsHeartbeat, opusReceiver
  <2>4. ASSUME NEW u \in 1 .. MaxUpdates, onVoiceServerUpdate(u)
        PROVE  \E what \in BoundedEvents : Use(what)
    BY <2>4 DEF onVoiceServerUpdate, BoundedEvents
  <2>5. CASE onVoiceStateUpdate \/ reconnect \/ reconnectVoiceConnections \/ User \/ Close
    BY <2>5 DEF onVoiceStateUpdate, reconnect, reconnectVoiceConnections, User,
                ChannelVoiceJoin, Disconnect, Close, BoundedEvents
  <2>6. CASE UNCHANGED vars
    BY <2>6 DEF vars
  <2> QED BY <2>1, <2>2, <2>3, <2>4, <2>5, <2>6 DEF Next, MinorStep
<1> QED BY <1>1, <1>2, <1>3

SmallTypes ==
    /\ mapped \in {"new", "mapped", "removed"} /\ alive \in BOOLEAN
    /\ reconnector \in {"idle", "wait", "connecting"} /\ reconnects \in Nat
    /\ strays \in Nat /\ stray \in BOOLEAN
    /\ user \in {"out", "connecting", "in", "leaving", "left", "gone"}
    /\ closer \in {"idle", "map", "voice", "waiting", "closed"}
    /\ beating \subseteq DOMAIN gens /\ receiving \subseteq DOMAIN gens
    /\ lost \in BOOLEAN /\ missed \in BOOLEAN

LEMMA SmallTypesKeep ==
    ASSUME TypeOK, [Next]_vars
    PROVE  /\ mapped' \in {"new", "mapped", "removed"} /\ alive' \in BOOLEAN
           /\ reconnector' \in {"idle", "wait", "connecting"} /\ reconnects' \in Nat
           /\ strays' \in Nat /\ stray' \in BOOLEAN
           /\ user' \in {"out", "connecting", "in", "leaving", "left", "gone"}
           /\ closer' \in {"idle", "map", "voice", "waiting", "closed"}
           /\ beating' \subseteq DOMAIN gens /\ receiving' \subseteq DOMAIN gens
           /\ lost' \in BOOLEAN /\ missed' \in BOOLEAN
<1>1. SmallTypes /\ v \in Transport
  BY Typed DEF TypeOK, SmallTypes
<1>2. ASSUME NEW p, scheduleVoiceReconnect(p) PROVE lost' \in BOOLEAN /\ reconnects' \in Nat
  <2>1. lost' = lost \/ lost' = FALSE
    BY <1>2 DEF scheduleVoiceReconnect, closeTransport
  <2>2. reconnects' = reconnects \/ reconnects' = reconnects + 1
    BY <1>2 DEF scheduleVoiceReconnect
  <2>3. lost' \in BOOLEAN
    BY <1>1, <2>1, Zenon DEF SmallTypes
  <2>4. reconnects' \in Nat
    BY <1>1, <2>2 DEF SmallTypes
  <2> QED BY <2>3, <2>4
<1>3. ASSUME NEW o \in Openers, OpenStep(o)
      PROVE  /\ lost' \in BOOLEAN /\ reconnects' \in Nat
             /\ UNCHANGED <<mapped, alive, loop, user, closer, beating, receiving, missed>>
  <2>1. OpenFailed(o) => lost' \in BOOLEAN /\ reconnects' \in Nat
    BY <1>1, <1>2 DEF OpenFailed, SmallTypes
  <2>2. ASSUME NEW g \in DOMAIN gens, HandshakeFails(o, g)
        PROVE  lost' \in BOOLEAN /\ reconnects' \in Nat
    <3>1. CASE lost' = (o[1] = "resume") /\ UNCHANGED reconnects
      <4>1. lost' \in BOOLEAN
        BY <3>1, Zenon
      <4> QED BY <1>1, <3>1, <4>1 DEF SmallTypes
    <3> QED BY <2>1, <2>2, <3>1 DEF HandshakeFails
  <2>3. lost' \in BOOLEAN /\ reconnects' \in Nat
    BY <1>1, <1>3, <2>1, <2>2 DEF OpenStep, AwaitSession, Install, Handshake, SmallTypes
  <2> QED BY <1>3, <2>3 DEF OpenStep
<1>4. ASSUME NEW g \in DOMAIN gens, Listen(g)
      PROVE  /\ lost' \in BOOLEAN /\ reconnects' \in Nat
             /\ mapped' \in {"new", "mapped", "removed"}
             /\ beating' \subseteq DOMAIN gens /\ receiving' \subseteq DOMAIN gens
             /\ UNCHANGED <<alive, loop, user, closer, missed>>
  <2>1. CASE Receive(g) /\ UNCHANGED <<lost, mapped>>
    BY <1>1, <1>4, <2>1 DEF Receive, Listen, SmallTypes
  <2>2. CASE onEvent(g) /\ UNCHANGED <<lost, mapped, left>>
    <3>1. beating' \subseteq DOMAIN gens /\ receiving' \subseteq DOMAIN gens
      <4>1. MayPlay => v.udp \in DOMAIN gens
        BY <1>1 DEF MayPlay, Transport
      <4>2. \/ UNCHANGED <<beating, receiving>>
            \/ UNCHANGED beating /\ MayPlay /\ receiving' = receiving \cup {v.udp}
            \/ UNCHANGED receiving /\ beating' = beating \cup {g}
        BY <2>2 DEF onEvent, Ready, SessionDescription, Resumed, Hello, HeartbeatAck
      <4> QED BY <1>1, <4>1, <4>2 DEF SmallTypes
    <3>2. UNCHANGED <<alive, loop, user, closer, missed, reconnects>>
      BY <1>4, <2>2 DEF Listen, onEvent
    <3> QED BY <1>1, <2>2, <3>1, <3>2 DEF SmallTypes
  <2>3. CASE handleVoiceWebsocketClose(g)
    BY <1>1, <1>4, <2>3 DEF Listen, handleVoiceWebsocketClose, SmallTypes
  <2>4. CASE (StartResume(g) \/ AfterClose(g)) /\ UNCHANGED <<beating, receiving, left>>
    <3>1. lost' \in BOOLEAN /\ reconnects' \in Nat
      <4>1. \/ scheduleVoiceReconnect(Listener(g))
            \/ closeTransport(Listener(g)) /\ UNCHANGED reconnects
            \/ UNCHANGED <<lost, reconnects>>
        BY <2>4 DEF StartResume, AfterClose
      <4> QED BY <1>1, <1>2, <4>1 DEF closeTransport, SmallTypes
    <3>2. mapped' \in {mapped, "removed"}
      BY <2>4 DEF StartResume, AfterClose
    <3> QED BY <1>1, <1>4, <2>4, <3>1, <3>2 DEF Listen, SmallTypes
  <2> QED BY <1>4, <2>1, <2>2, <2>3, <2>4 DEF Listen
<1>5. ASSUME NEW g \in DOMAIN gens, MinorStep(g)
      PROVE  /\ UNCHANGED <<mapped, alive, reconnector, stray, user, closer, lost, missed>>
             /\ reconnects' \in Nat /\ strays' \in Nat
             /\ beating' \subseteq beating /\ receiving' \subseteq receiving
  BY <1>1, <1>5 DEF MinorStep, CancelAndClose, CloseUnresumed, wsHeartbeat, opusReceiver,
                    procs, loop, SmallTypes
<1>6. ASSUME NEW u \in 1 .. MaxUpdates, onVoiceServerUpdate(u)
      PROVE  /\ lost' \in BOOLEAN
             /\ UNCHANGED <<mapped, alive, reconnects, loop, user, closer, beating,
                            receiving, missed>>
  BY <1>6 DEF onVoiceServerUpdate, closeTransport
<1>7. CASE onVoiceStateUpdate \/ reconnect \/ reconnectVoiceConnections
  <2>1. mapped' = mapped /\ alive' = alive /\ UNCHANGED <<user, closer, beating, receiving>>
    BY <1>7 DEF onVoiceStateUpdate, reconnect, reconnectVoiceConnections, procs
  <2>2. /\ reconnector' \in {"idle", "wait", "connecting"} /\ reconnects' \in Nat
        /\ strays' \in Nat
    BY <1>1, <1>7 DEF onVoiceStateUpdate, reconnect, reconnectVoiceConnections, procs, loop,
                      StartReconnect, JoinAgain, SmallTypes
  <2>5. stray' \in BOOLEAN
    <3>1. stray' = stray \/ \E bare \in BOOLEAN : stray' = bare
      BY <1>7, Zenon DEF onVoiceStateUpdate, reconnect, reconnectVoiceConnections, procs, loop,
                         StartReconnect, JoinAgain
    <3> QED BY <1>1, <3>1, Zenon DEF SmallTypes
  <2>3. lost' \in BOOLEAN
    BY <1>1, <1>7 DEF onVoiceStateUpdate, reconnect, reconnectVoiceConnections, procs,
                      StartReconnect, JoinAgain, SmallTypes, closeTransport
  <2>4. missed' \in BOOLEAN
    <3>1. missed' = missed \/ missed' = (missed \/ alive)
      BY <1>7, Zenon DEF onVoiceStateUpdate, reconnect, reconnectVoiceConnections,
                         StartReconnect, JoinAgain
    <3> QED BY <1>1, <3>1, Zenon DEF SmallTypes
  <2> QED BY <1>1, <2>1, <2>2, <2>3, <2>4, <2>5 DEF SmallTypes
<1>8. CASE User \/ Close
  <2>1. UNCHANGED <<reconnects, loop, beating, receiving, missed>>
    BY <1>8 DEF User, Close
  <2>2. /\ mapped' \in {"new", "mapped", "removed"}
        /\ user' \in {"out", "connecting", "in", "leaving", "left", "gone"}
        /\ closer' \in {"idle", "map", "voice", "waiting", "closed"}
    BY <1>1, <1>8 DEF User, ChannelVoiceJoin, Disconnect, Close, SmallTypes
  <2>3. alive' \in BOOLEAN /\ lost' \in BOOLEAN
    BY <1>1, <1>8 DEF User, ChannelVoiceJoin, Disconnect, Close, SmallTypes, closeTransport
  <2> QED BY <1>1, <2>1, <2>2, <2>3 DEF SmallTypes, loop
<1>9. CASE UNCHANGED vars
  BY <1>1, <1>9 DEF vars, procs, loop, SmallTypes
<1> QED BY <1>1, <1>3, <1>4, <1>5, <1>6, <1>7, <1>8, <1>9
        DEF Next, MinorStep, SmallTypes, loop

LEMMA InitInductive == Init => IInv
<1> SUFFICES ASSUME Init PROVE IInv
  OBVIOUS
<1>1. gens = << >> /\ gens \in Seq(Generation) /\ Len(gens) = 0 /\ DOMAIN gens = {}
  BY EmptySeq DEF Init
<1>2. left \in Bounds /\ left \in [BoundedEvents -> Nat] /\ left["generation"] <= MaxGenerations
  BY VoiceAssumption DEF Init
<1>3. TypeOK
  <2>1. v \in Transport
    BY DEF Init, Transport
  <2>2. pc \in [Procs -> PCStates]
    BY DEF Init, PCStates
  <2>3. SmallTypes
    BY <1>1 DEF Init, SmallTypes
  <2> QED BY <1>1, <1>2, <2>1, <2>2, <2>3, VoiceAssumption
          DEF TypeOK, Transport, PCStates, SmallTypes
<1>4. Bounded
  BY <1>1, <1>2, VoiceAssumption DEF Bounded, BoundedEvents
<1>5. \A p \in Procs : pc[p] = "idle"
  BY DEF Init
<1>6. Roles
  BY <1>1, <1>5, Names DEF Roles, OpenerStates
<1>7. NoWebsocketLost /\ AwaitedAckIsOurs /\ Confirmed /\ Awaited
  BY <1>1 DEF Init, NoWebsocketLost, AwaitedAckIsOurs, Confirmed, Awaited
<1> QED BY <1>3, <1>4, <1>6, <1>7 DEF IInv

LEMMA NextInductive == IInv /\ [Next]_vars => IInv'
<1> SUFFICES ASSUME IInv, [Next]_vars PROVE IInv'
  OBVIOUS
<1>1. TypeOK /\ Bounded
  BY DEF IInv
<1>2. Roles' /\ Confirmed' /\ pc' \in [Procs -> PCStates] /\ Awaited'
  <2>1. CASE UNCHANGED vars
    <3>1. UNCHANGED pc /\ Keeps
      BY <1>1, <2>1, RestMoves DEF vars, procs, Moves
    <3>2. Awaited'
      BY <2>1 DEF IInv, Awaited, vars, procs
    <3> QED BY <3>1, <3>2, NobodyGoes
  <2> QED BY <2>1, OpenersKeep, ListenersKeep, OthersKeep DEF Next, MinorStep
<1>3. NoWebsocketLost' /\ AwaitedAckIsOurs'
  BY HoldKeeps
<1>4. /\ left' \in [BoundedEvents -> Nat] /\ left'["generation"] <= left["generation"]
      /\ left'["generation"] \in Nat /\ left["generation"] \in Nat
  BY <1>1, BoundKeeps DEF TypeOK, BoundedEvents
<1>5. /\ v' \in Transport' /\ gens' \in Seq(Generation) /\ Len(gens') <= MaxGenerations
      /\ DOMAIN gens \subseteq DOMAIN gens' /\ Bounded'
  <2>1. v \in Transport /\ Len(gens) \in Nat
    BY <1>1, Typed
  <2>2. CASE Moves
    <3>1. DOMAIN gens' = DOMAIN gens /\ Len(gens') = Len(gens) /\ gens' \in Seq(Generation)
      BY <2>2 DEF Moves, Keeps
    <3>2. v' \in Transport'
      BY <2>2, <3>1 DEF Moves, Transport
    <3> QED BY <1>1, <1>4, <2>1, <3>1, <3>2, VoiceAssumption DEF Bounded, TypeOK
  <2>3. ASSUME NEW o \in Openers, Installs(o)
        PROVE  /\ v' \in Transport' /\ gens' \in Seq(Generation)
               /\ Len(gens') <= MaxGenerations
               /\ DOMAIN gens \subseteq DOMAIN gens' /\ Bounded'
    <3>1. /\ DOMAIN gens' = DOMAIN gens \cup {Len(gens) + 1} /\ Len(gens') = Len(gens) + 1
          /\ gens' \in Seq(Generation) /\ Len(gens') <= MaxGenerations
          /\ left'["generation"] = left["generation"] - 1
      BY <1>1, <2>3, InstallAppends
    <3>2. v' \in Transport'
      <4> DEFINE w == [v EXCEPT !.generation = Len(gens) + 1]
                 resume == o[1] = "resume"
                 attempts == IF resume THEN v.resumeAttempts ELSE 0
      <4>1. w \in Transport' /\ w.close = v.close /\ w.awaitingHeartbeat = v.awaitingHeartbeat
            /\ w.resumeAttempts = v.resumeAttempts
        BY <2>1, <3>1 DEF Transport
      <4>2. attempts \in {0, 1}
        BY <2>1 DEF Transport
      <4>3. v' = [w EXCEPT !.close = w.close \/ ~resume,
                           !.awaitingHeartbeat = w.awaitingHeartbeat /\ resume,
                           !.resumeAttempts = attempts]
        BY <2>1, <2>3 DEF Installs, Transport
      <4> HIDE DEF w, resume, attempts
      <4> QED BY <4>1, <4>2, <4>3 DEF Transport
    <3>3. Bounded'
      BY <1>1, <1>4, <2>1, <3>1, VoiceAssumption DEF Bounded
    <3> QED BY <3>1, <3>2, <3>3
  <2> QED BY <1>1, <2>2, <2>3, NextMoves
<1>6. TypeOK'
  <2>1. /\ mapped' \in {"new", "mapped", "removed"} /\ alive' \in BOOLEAN
        /\ reconnector' \in {"idle", "wait", "connecting"} /\ reconnects' \in Nat
        /\ strays' \in Nat /\ stray' \in BOOLEAN
        /\ user' \in {"out", "connecting", "in", "leaving", "left", "gone"}
        /\ closer' \in {"idle", "map", "voice", "waiting", "closed"}
        /\ beating' \subseteq DOMAIN gens' /\ receiving' \subseteq DOMAIN gens'
        /\ lost' \in BOOLEAN /\ missed' \in BOOLEAN
    BY <1>1, <1>5, SmallTypesKeep
  <2> QED BY <1>2, <1>4, <1>5, <2>1 DEF TypeOK, Transport, PCStates
<1> QED BY <1>2, <1>3, <1>5, <1>6 DEF IInv

-----------------------------------------------------------------------------
(* The theorems.                                                           *)
THEOREM Inductive == Spec => []IInv
<1>1. Init => IInv
  BY InitInductive
<1>2. IInv /\ [Next]_vars => IInv'
  BY NextInductive
<1> QED BY <1>1, <1>2, PTL DEF Spec

(* Whatever races with an open, an open websocket is the one the           *)
(* VoiceConnection holds or one a goroutine of voice.go is about to close. *)
THEOREM WebsocketsAccounted == Spec => []NoWebsocketLost
<1>1. IInv => NoWebsocketLost
  BY DEF IInv
<1> QED BY <1>1, Inductive, PTL

(* A websocket is never closed for a heartbeat answer owed on another one. *)
THEOREM AcksAreOurs == Spec => []AwaitedAckIsOurs
<1>1. IInv => AwaitedAckIsOurs
  BY DEF IInv
<1> QED BY <1>1, Inductive, PTL

(* After a resume that Discord did not confirm the connection starts afresh*)
(* and is not resumed again.                                               *)
THEOREM ResumesOnce == Spec => []ResumeOnce
<1>1. ASSUME IInv, NEW g \in DOMAIN gens, NEW h \in DOMAIN gens,
             gens[g].opener = Resumer(h), IsResume(h)
      PROVE  gens[h].resumed
  <2>1. pc[Resumer(h)] \in {"handshake", "failed", "ended"}
    BY <1>1 DEF IInv, Roles
  <2> QED BY <1>1, <2>1 DEF IInv, Confirmed
<1>2. IInv => ResumeOnce
  BY <1>1 DEF ResumeOnce
<1> QED BY <1>2, Inductive, PTL

(* A websocket that fails is always taken over by a resume or a reconnect, *)
(* unless a reconnect found another one marked as running.                 *)
THEOREM LossesAreTakenOver == Spec => []LostIsTakenOver
<1>1. ASSUME IInv, lost, alive, ~missed, ~(reconnects > 0) PROVE TakenOver
  <2>1. PICK g \in Generations : \/ pc[Resumer(g)] \in {"session", "install", "failed"}
                                 \/ pc[Listener(g)] \in CloseActions
    BY <1>1 DEF IInv, Awaited
  <2>2. g \in DOMAIN gens
    <3>1. pc[Listener(g)] # "idle"
      BY <1>1, <2>1 DEF IInv, Roles, CloseActions
    <3> QED BY <1>1, <3>1 DEF IInv, Roles
  <2> QED BY <2>1, <2>2 DEF TakenOver
<1>2. IInv => LostIsTakenOver
  BY <1>1 DEF LostIsTakenOver, TakenOver
<1> QED BY <1>2, Inductive, PTL
=============================================================================
