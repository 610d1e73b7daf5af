---------------------------- MODULE GatewayResume ----------------------------
(***************************************************************************)
(* The data a Session needs to resume: sessionID and resumeGatewayURL under*)
(* gatewaySessionMu, and the atomic sequence (wsapi.go, event.go). The     *)
(* listener of a generation writes them while it processes a message, the  *)
(* goroutine that ends a generation clears them, and the opener of the next*)
(* generation reads them: none of them holds the lifecycle lock then.      *)
(*                                                                         *)
(* GatewaySession shows how generations follow each other; here one is     *)
(* current at a time and may end at any moment, its listener then being    *)
(* anywhere in its loop. Sessions are numbered as Discord starts them; 0 is*)
(* the empty ID. A sequence is the session that numbered it and its number.*)
(* resumeGatewayURL chooses the host to dial and is written together with  *)
(* sessionID; it is left out.                                              *)
(***************************************************************************)
EXTENDS Naturals

CONSTANTS
    MaxGen,         \* bound: generations
    MaxSession,     \* bound: sessions Discord starts
    MaxSeq          \* bound: dispatches of a session

ASSUME BoundsAssumption ==
    MaxGen \in Nat \ {0} /\ MaxSession \in Nat \ {0} /\ MaxSeq \in Nat \ {0}

Gens == 1 .. MaxGen
Sessions == 1 .. MaxSession
SessionIDs == 0 .. MaxSession
NoSequence == <<0, 0>>
Sequences == {NoSequence} \cup (Sessions \X (1 .. MaxSeq))

(* What the listener has read: a dispatch (READY is the first of a session,*)
(* RESUMED one more), or the end of the connection and its recovery.       *)
Recoveries == {"Resume", "Identify", "Stop"}
Messages == [session : SessionIDs, seq : 0 .. MaxSeq, recovery : Recoveries]
NoMessage == [session |-> 0, seq |-> 0, recovery |-> "Stop"]
Dispatch(s, n) == [NoMessage EXCEPT !.session = s, !.seq = n]
Loss(s, recovery) == [NoMessage EXCEPT !.session = s, !.recovery = recovery]

VARIABLES
    sessionID, sequence,
    current, gens,      \* the current generation, and how many there were
    (* the opener of the current generation: state, and what it has read *)
    opener, readSequence, readSession,
    (* the listener of a generation: state, and its message *)
    listener, msg,
    (* the Close or reconnect goroutine after a generation: its             *)
    (* invalidateGatewaySession                                             *)
    clearing,
    (* Discord: sessions started, dispatches of each, sessions it has       *)
    (* forgotten, and the session and position of the current websocket     *)
    sessions, sent, forgotten, serves, position,
    (* history *)
    stored,             \* last dispatch of a session that a listener stored
    givenUp,            \* sessions Discord or the user has ended
    unheeded,           \* those whose end was told when nobody would clear
    late                \* a write came after it should have, see Writes

data == <<sessionID, sequence>>
openers == <<opener, readSequence, readSession>>
listeners == <<listener, msg>>
discord == <<sessions, sent, forgotten, serves, position>>
history == <<stored, givenUp, unheeded, late>>
vars == <<data, current, gens, openers, listeners, clearing, discord, history>>

TypeOK ==
    /\ sessionID \in SessionIDs /\ sequence \in Sequences
    /\ current \in 0 .. MaxGen /\ gens \in 0 .. MaxGen
    /\ opener \in {"none", "auth", "session", "send", "sent"}
    /\ readSequence \in Sequences /\ readSession \in SessionIDs
    /\ listener \in [Gens -> {"none", "read", "store", "ready", "clear", "zero",
                              "finish"}]
    /\ msg \in [Gens -> Messages]
    /\ clearing \in [Gens -> {"none", "clear", "zero"}]
    /\ sessions \in SessionIDs /\ sent \in [Sessions -> 0 .. MaxSeq]
    /\ forgotten \in SUBSET Sessions
    /\ serves \in SessionIDs /\ position \in 0 .. MaxSeq
    /\ stored \in [Sessions -> 0 .. MaxSeq]
    /\ givenUp \in SUBSET Sessions /\ unheeded \in SUBSET Sessions
    /\ late \in BOOLEAN

Init ==
    /\ sessionID = 0 /\ sequence = NoSequence
    /\ current = 0 /\ gens = 0
    /\ opener = "none" /\ readSequence = NoSequence /\ readSession = 0
    /\ listener = [g \in Gens |-> "none"] /\ msg = [g \in Gens |-> NoMessage]
    /\ clearing = [g \in Gens |-> "none"]
    /\ sessions = 0 /\ sent = [s \in Sessions |-> 0] /\ forgotten = {}
    /\ serves = 0 /\ position = 0
    /\ stored = [s \in Sessions |-> 0] /\ givenUp = {} /\ unheeded = {}
    /\ late = FALSE

-----------------------------------------------------------------------------
(* A write on behalf of generation g is late when a listener makes it after*)
(* its generation has ended, or whoever ended g after the next one began.  *)
ListenerWrites(g) == late' = (late \/ g # current)
EnderWrites(g) == late' = (late \/ g # gens)

(* The two locked parts of invalidateGatewaySession. Mutant: only the      *)
(* sequence is cleared.                                                    *)
ClearedSessionMutant == sessionID
ClearedSession == 0

ClearSession == sessionID' = ClearedSession /\ UNCHANGED sequence
ZeroSequence == sequence' = NoSequence /\ UNCHANGED sessionID

-----------------------------------------------------------------------------
(* The opener: beginGatewayGeneration up to HELLO, which starts the        *)
(* listener, then authenticateGatewayGeneration in its three parts.        *)
beginGatewayGeneration ==
    /\ current = 0 /\ gens < MaxGen
    /\ gens' = gens + 1 /\ current' = gens + 1
    /\ opener' = "auth"
    /\ listener' = [listener EXCEPT ![gens + 1] = "read"]
    /\ UNCHANGED <<data, readSequence, readSession, msg, clearing, discord, history>>

ReadSequence ==
    /\ current # 0 /\ opener = "auth"
    /\ readSequence' = sequence
    /\ opener' = "session"
    /\ UNCHANGED <<data, current, gens, readSession, listeners, clearing, discord, history>>

ReadSession ==
    /\ current # 0 /\ opener = "session"
    /\ readSession' = sessionID
    /\ opener' = "send"
    /\ UNCHANGED <<data, current, gens, readSequence, listeners, clearing, discord, history>>

(* identify starts a session. A Resume continues one from the number it is *)
(* given, if Discord has sent that far and still knows the session: it may *)
(* have forgotten it in the meantime, which shows here.                    *)
Resumable == readSession \notin forgotten /\ readSequence[2] <= sent[readSession]

authenticateGatewayGeneration ==
    /\ current # 0 /\ opener = "send"
    /\ opener' = "sent"
    /\ \/ /\ readSession = 0 /\ sessions < MaxSession
          /\ sessions' = sessions + 1 /\ serves' = sessions + 1
          /\ UNCHANGED <<position, forgotten>>
       \/ /\ readSession # 0 /\ Resumable
          /\ serves' = readSession /\ position' = readSequence[2]
          /\ UNCHANGED <<sessions, forgotten>>
       \/ /\ readSession # 0
          /\ forgotten' = forgotten \cup {readSession}
          /\ UNCHANGED <<sessions, serves, position>>
    /\ UNCHANGED <<data, current, gens, readSequence, readSession, listeners, clearing,
                   sent, history>>

-----------------------------------------------------------------------------
(* listen reads a message and then sees that the context is not done.      *)
Reading(g) == g = current /\ listener[g] = "read" /\ opener = "sent"
Process(g, state, m) ==
    /\ listener' = [listener EXCEPT ![g] = state]
    /\ msg' = [msg EXCEPT ![g] = m]

ReadDispatch(g) ==
    LET n == position + 1
    IN  /\ Reading(g) /\ serves # 0 /\ serves \notin forgotten /\ n <= MaxSeq
        /\ Process(g, "store", Dispatch(serves, n))
        /\ position' = n
        /\ sent' = [sent EXCEPT ![serves] = IF n > @ THEN n ELSE @]
        /\ UNCHANGED <<data, current, gens, openers, clearing, sessions, forgotten,
                       serves, history>>

(* Op 7, a resumable op 9 and most close codes leave the session resumable.*)
(* Another op 9 (in onEvent) and close codes that ask for an Identify or   *)
(* are terminal (after the handlers of GatewayClose) have the listener     *)
(* clear the data; Discord has forgotten the session. None of them gets to *)
(* the store of the sequence. Mutant: onEvent stores it first.             *)
AfterLossMutant(recovery) == "store"
AfterLoss(recovery) == IF recovery = "Resume" THEN "finish" ELSE "clear"

ReadLoss(g) ==
    LET ended == {serves, readSession} \ {0}
    IN  /\ Reading(g)
        /\ \E recovery \in Recoveries :
              /\ Process(g, AfterLoss(recovery), Loss(serves, recovery))
              /\ IF recovery = "Resume"
                 THEN UNCHANGED <<forgotten, givenUp, unheeded>>
                 ELSE /\ forgotten' = forgotten \cup ended
                      /\ givenUp' = givenUp \cup ended
                      /\ unheeded' = unheeded \ ended
        /\ UNCHANGED <<data, current, gens, openers, clearing, sessions, sent, serves,
                       position, stored, late>>

(* onEvent stores the sequence, then, for READY, handleEvent calls onReady,*)
(* which stores the session. The user's handlers run after that and write  *)
(* nothing here: they only delay the next read.                            *)
onEvent(g) ==
    /\ listener[g] = "store"
    /\ sequence' = <<msg[g].session, msg[g].seq>> /\ ListenerWrites(g)
    /\ stored' = [stored EXCEPT ![msg[g].session] =
                     IF msg[g].seq > @ THEN msg[g].seq ELSE @]
    /\ IF msg[g].seq = 1
       THEN listener' = [listener EXCEPT ![g] = "ready"] /\ UNCHANGED msg
       ELSE Process(g, "read", NoMessage)
    /\ UNCHANGED <<sessionID, current, gens, openers, clearing, discord, givenUp,
                   unheeded>>

onReady(g) ==
    /\ listener[g] = "ready"
    /\ sessionID' = msg[g].session /\ ListenerWrites(g)
    /\ Process(g, "read", NoMessage)
    /\ UNCHANGED <<sequence, current, gens, openers, clearing, discord, stored, givenUp,
                   unheeded>>

(* invalidateGatewaySession in the listener.                               *)
ListenerClears(g) ==
    /\ ListenerWrites(g)
    /\ \/ listener[g] = "clear" /\ ClearSession
          /\ listener' = [listener EXCEPT ![g] = "zero"]
       \/ listener[g] = "zero" /\ ZeroSequence
          /\ listener' = [listener EXCEPT ![g] = "finish"]
    /\ UNCHANGED <<current, gens, openers, msg, clearing, discord, stored, givenUp,
                   unheeded>>

-----------------------------------------------------------------------------
(* The end of a generation. The listener finishes it with its recovery,    *)
(* and the goroutine that is to identify next clears the data (again),     *)
(* unless the lifetime is done and it does not connect again. Mutant: every*)
(* reconnect clears.                                                       *)
MustClearMutant(recovery) == recovery # "Stop"
MustClear(recovery) == recovery = "Identify"

Ends(g, clears) ==
    /\ IF current = g
       THEN /\ current' = 0
            /\ opener' = "none" /\ readSequence' = NoSequence /\ readSession' = 0
            /\ serves' = 0 /\ position' = 0
            /\ clearing' = [clearing EXCEPT ![g] = IF clears THEN "clear" ELSE @]
       ELSE UNCHANGED <<current, openers, serves, position, clearing>>
    /\ UNCHANGED <<data, gens, sessions, sent, forgotten>>

ListenerFinishes(g) ==
    /\ listener[g] = "finish"
    /\ \E active \in BOOLEAN : Ends(g, active /\ MustClear(msg[g].recovery))
    /\ Process(g, "none", NoMessage)
    /\ UNCHANGED history

(* heartbeat and most failed attempts ask for a Resume, and a Close with an*)
(* unusual code keeps the data.                                            *)
finishGatewayGeneration ==
    /\ current # 0
    /\ Ends(current, FALSE)
    /\ UNCHANGED <<listeners, history>>

(* A close code in place of HELLO may ask for an Identify. The opener and  *)
(* the reconnect goroutine look at the lifetime's context first: when it is*)
(* done they return, and the session stays stored.                         *)
HelloReadFails ==
    LET ended == {sessionID} \ {0}
    IN  /\ current # 0 /\ opener = "auth"
        /\ \E active \in BOOLEAN :
              /\ Ends(current, active /\ MustClear("Identify"))
              /\ unheeded' = IF active THEN unheeded \ ended ELSE unheeded \cup ended
        /\ givenUp' = givenUp \cup ended
        /\ UNCHANGED <<listeners, stored, late>>

(* CloseWithCode clears the data after closeGateway, which may find no     *)
(* generation.                                                             *)
CloseWithCode ==
    LET ended == {sessionID, serves, readSession} \ {0}
    IN  /\ IF current # 0
           THEN Ends(current, TRUE)
           ELSE /\ gens # 0 /\ clearing[gens] = "none"
                /\ clearing' = [clearing EXCEPT ![gens] = "clear"]
                /\ UNCHANGED <<data, current, gens, openers, discord>>
        /\ givenUp' = givenUp \cup ended /\ unheeded' = unheeded \ ended
        /\ UNCHANGED <<listeners, stored, late>>

invalidateGatewaySession(g) ==
    /\ EnderWrites(g)
    /\ \/ clearing[g] = "clear" /\ ClearSession
          /\ clearing' = [clearing EXCEPT ![g] = "zero"]
       \/ clearing[g] = "zero" /\ ZeroSequence
          /\ clearing' = [clearing EXCEPT ![g] = "none"]
    /\ UNCHANGED <<current, gens, openers, listeners, discord, stored, givenUp,
                   unheeded>>

Next ==
    \/ beginGatewayGeneration \/ ReadSequence \/ ReadSession
    \/ authenticateGatewayGeneration
    \/ finishGatewayGeneration \/ HelloReadFails \/ CloseWithCode
    \/ \E g \in Gens :
          \/ ReadDispatch(g) \/ ReadLoss(g)
          \/ onEvent(g) \/ onReady(g) \/ ListenerClears(g)
          \/ ListenerFinishes(g) \/ invalidateGatewaySession(g)

Spec == Init /\ [][Next]_vars

-----------------------------------------------------------------------------
(* Properties. They are about an opener that is about to authenticate the  *)
(* current generation.                                                     *)
Authenticates == current # 0 /\ opener = "send"

(* No write has come late, and none on behalf of an earlier generation is  *)
(* still to come.                                                          *)
Quiet ==
    /\ ~late
    /\ \A g \in Gens : g < gens => /\ listener[g] \in {"none", "read", "finish"}
                                 /\ clearing[g] = "none"

(* A Resume asks for exactly the dispatches that were not processed: its   *)
(* sequence is the last one stored in its session, although the sequence,  *)
(* the session and both parts of their reset are written separately.       *)
ResumeExact ==
    Authenticates /\ Quiet /\ readSession # 0 =>
        readSequence = <<readSession, stored[readSession]>>

(* A session that Discord or the user has ended is not resumed, whichever  *)
(* goroutine was told, if there was one to clear it: only an end that      *)
(* Discord tells in place of HELLO while the lifetime is being cancelled   *)
(* goes unheeded, and the next Open tries to resume that session.          *)
EndedNotResumed == Authenticates /\ Quiet => readSession \notin givenUp \ unheeded

(* An Identify, which costs quota and loses events, is sent only when every*)
(* session the Session has seen was ended.                                 *)
IdentifyOnlyWhenEnded ==
    Authenticates /\ Quiet /\ readSession = 0 =>
        \A s \in Sessions : stored[s] # 0 => s \in givenUp

(* The same whatever comes late: a Resume never gives one session with the *)
(* sequence of another.                                                    *)
SequenceOfSession ==
    Authenticates /\ readSession # 0 => readSequence[1] = readSession
=============================================================================
