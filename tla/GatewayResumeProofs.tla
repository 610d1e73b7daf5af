------------------------- MODULE GatewayResumeProofs -------------------------
(***************************************************************************)
(* Proofs about GatewayResume for any number of generations, sessions and  *)
(* dispatches: as long as no write comes late, what the opener read is what*)
(* the Session has processed.                                              *)
(***************************************************************************)
EXTENDS GatewayResume, TLAPS

-----------------------------------------------------------------------------
(* The inductive invariant. Which generations there are, and what the      *)
(* opener has done when.                                                   *)
Shape ==
    /\ current \in {0, gens}
    /\ \A g \in Gens : /\ g = current => clearing[g] = "none"
                       /\ g > gens => listener[g] = "none" /\ clearing[g] = "none"
                       /\ listener[g] \in {"store", "ready"} =>
                              msg[g].session \in Sessions /\ msg[g].seq \in 1 .. MaxSeq
    /\ (opener = "none") <=> (current = 0)
    /\ opener # "sent" => /\ serves = 0 /\ position = 0
                          /\ \A g \in Gens : g = current => listener[g] = "read"

(* Every session anything refers to was started.                           *)
Started ==
    /\ sessionID <= sessions /\ serves <= sessions /\ readSession <= sessions
    /\ \A g \in Gens : msg[g].session <= sessions
    /\ \A s \in Sessions : stored[s] # 0 \/ s \in givenUp => s <= sessions

(* The sessions that are not to be resumed.                                *)
Heeded == givenUp \ unheeded
USE DEF Heeded

Idle == {"none", "read", "finish"}
AllEnded == \A s \in Sessions : stored[s] # 0 => s \in givenUp
Exact ==
    /\ sessionID # 0 => /\ sequence = <<sessionID, stored[sessionID]>>
                        /\ stored[sessionID] # 0 /\ sessionID \notin Heeded
    /\ \A s \in Sessions : stored[s] # 0 => s = sessionID \/ s \in givenUp

(* What the opener of the current generation has read, and how far its     *)
(* listener is ahead of what was stored.                                   *)
Opening ==
    /\ opener \in {"session", "send"} => readSequence = sequence
    /\ opener = "send" => readSession = sessionID

Reads ==
    /\ serves \notin Heeded
    /\ opener = "sent" /\ serves = 0 => sessionID = readSession
    /\ serves # 0 => /\ position = stored[serves]
                     /\ sessionID = serves \/ (sessionID = 0 /\ position = 0)

Stores(m) ==
    /\ Exact /\ serves \notin Heeded /\ serves # 0
    /\ m.session = serves /\ m.seq = position /\ position = stored[serves] + 1
    /\ sessionID = serves \/ (sessionID = 0 /\ position = 1)

Readies(m) ==
    /\ serves \notin Heeded /\ serves # 0 /\ m.session = serves
    /\ sequence = <<serves, 1>> /\ stored[serves] = 1 /\ position = 1 /\ sessionID = 0
    /\ \A s \in Sessions : stored[s] # 0 => s = serves \/ s \in givenUp

Clears(g) ==
    /\ listener[g] \in {"clear", "zero"} => AllEnded
    /\ listener[g] = "zero" => sessionID = 0
    /\ listener[g] = "finish" /\ msg[g].recovery # "Resume" => AllEnded /\ sessionID = 0

Listens(g) ==
    /\ listener[g] = "read" => Reads
    /\ listener[g] = "store" => Stores(msg[g])
    /\ listener[g] = "ready" => Readies(msg[g])
    /\ Clears(g)

(* What the data are worth when nobody is about to write them, and after a *)
(* part of their reset.                                                    *)
Kept ==
    /\ (\A g \in Gens : g = gens => listener[g] \in Idle /\ clearing[g] = "none") => Exact
    /\ \A g \in Gens :
          g = gens /\ clearing[g] # "none" /\ listener[g] \in Idle =>
              AllEnded /\ (clearing[g] = "zero" => sessionID = 0)

Data == Quiet => Kept /\ Opening /\ \A g \in Gens : g = current => Listens(g)

IInv == TypeOK /\ Shape /\ Started /\ Data

-----------------------------------------------------------------------------
LEMMA Bounds ==
    /\ MaxGen \in Nat /\ MaxSession \in Nat /\ MaxSeq \in Nat
    /\ Sessions \subseteq SessionIDs /\ NoSequence \in Sequences /\ 1 \in 1 .. MaxSeq
    /\ \A s \in Sessions, n \in 1 .. MaxSeq : <<s, n>> \in Sequences
    /\ NoMessage \in Messages /\ NoMessage.session = 0
BY BoundsAssumption DEF Sessions, SessionIDs, Sequences, NoMessage, Messages, Recoveries

LEMMA DispatchOf ==
    ASSUME NEW s \in SessionIDs, NEW n \in 0 .. MaxSeq
    PROVE  /\ Dispatch(s, n) \in Messages
           /\ Dispatch(s, n).session = s /\ Dispatch(s, n).seq = n
BY Bounds DEF Dispatch, NoMessage, Messages

LEMMA LossOf ==
    ASSUME NEW s \in SessionIDs, NEW r \in Recoveries
    PROVE  /\ Loss(s, r) \in Messages
           /\ Loss(s, r).session = s /\ Loss(s, r).recovery = r
BY Bounds DEF Loss, NoMessage, Messages

LEMMA MessageFields ==
    ASSUME NEW m \in Messages
    PROVE  m.session \in SessionIDs /\ m.seq \in 0 .. MaxSeq /\ m.recovery \in Recoveries
BY DEF Messages

-----------------------------------------------------------------------------
(* What the steps of a listener do to the listeners.                       *)
LEMMA Processes ==
    ASSUME TypeOK, NEW g \in Gens, NEW m \in Messages, Process(g, "read", m) \/ Process(g, "store", m)
               \/ Process(g, "clear", m) \/ Process(g, "finish", m) \/ Process(g, "none", m)
    PROVE  /\ listener' \in [Gens -> {"none", "read", "store", "ready", "clear", "zero", "finish"}]
           /\ msg' \in [Gens -> Messages] /\ msg'[g] = m
           /\ \A h \in Gens : h # g => listener'[h] = listener[h] /\ msg'[h] = msg[h]
BY DEF TypeOK, Process

LEMMA EndsData ==
    ASSUME TypeOK, NEW g \in Gens, NEW clears \in BOOLEAN, Ends(g, clears)
    PROVE  /\ current' \in 0 .. MaxGen /\ opener' \in {"none", "auth", "session", "send", "sent"}
           /\ readSequence' \in Sequences /\ readSession' \in SessionIDs
           /\ serves' \in SessionIDs /\ position' \in 0 .. MaxSeq
           /\ clearing' \in [Gens -> {"none", "clear", "zero"}]
           /\ \A h \in Gens : h # g => clearing'[h] = clearing[h]
           /\ UNCHANGED <<data, gens, sessions, sent, forgotten>>
           /\ current' \in {0, current}
<1>1. CASE current = g
  BY <1>1, Bounds DEF TypeOK, Ends, SessionIDs
<1>2. CASE current # g
  BY <1>2 DEF TypeOK, Ends, openers
<1> QED BY <1>1, <1>2

(* However a generation ends, a step of Ends does it.                      *)
LEMMA HelloEnds ==
    ASSUME TypeOK, HelloReadFails
    PROVE  /\ \E clears \in BOOLEAN : Ends(current, clears) /\ (~clears => sessionID \notin Heeded')
           /\ givenUp' = givenUp \cup ({sessionID} \ {0})
           /\ unheeded' \in SUBSET (unheeded \cup ({sessionID} \ {0}))
           /\ UNCHANGED <<listeners, stored, late>>
<1>1. PICK active \in BOOLEAN :
          /\ Ends(current, active /\ TRUE)
          /\ unheeded' = IF active THEN unheeded \ ({sessionID} \ {0})
                         ELSE unheeded \cup ({sessionID} \ {0})
  BY DEF HelloReadFails, MustClear
<1>2. 0 \notin Heeded' /\ givenUp' = givenUp \cup ({sessionID} \ {0})
  <2>1. 0 \notin givenUp
    BY DEF TypeOK, Sessions
  <2> QED BY <2>1 DEF HelloReadFails
<1>3. CASE active
  BY <1>1, <1>2, <1>3 DEF HelloReadFails
<1>4. CASE ~active
  <2>1. Ends(current, FALSE)
    BY <1>1, <1>4
  <2> QED BY <1>1, <1>2, <1>4, <2>1 DEF HelloReadFails
<1> QED BY <1>3, <1>4

LEMMA ListenerEnds ==
    ASSUME NEW g \in Gens, ListenerFinishes(g)
    PROVE  \E clears \in BOOLEAN : Ends(g, clears) /\ (clears => msg[g].recovery = "Identify")
<1>1. PICK active \in BOOLEAN : Ends(g, active /\ MustClear(msg[g].recovery))
  BY DEF ListenerFinishes
<1>2. (active /\ MustClear(msg[g].recovery)) \in BOOLEAN
  OBVIOUS
<1> QED BY <1>1, <1>2 DEF MustClear

LEMMA TypesKept == ASSUME TypeOK, Shape, [Next]_vars PROVE TypeOK'
<1> USE DEF TypeOK
<1>1. CASE beginGatewayGeneration
  <2>1. gens + 1 \in Gens /\ gens + 1 \in 0 .. MaxGen
    BY <1>1, Bounds DEF beginGatewayGeneration, Gens
  <2> QED BY <1>1, <2>1 DEF beginGatewayGeneration, data, discord, history
<1>2. CASE ReadSequence
  BY <1>2 DEF ReadSequence, data, listeners, discord, history
<1>3. CASE ReadSession
  BY <1>3 DEF ReadSession, data, listeners, discord, history
<1>4. CASE authenticateGatewayGeneration
  <2>1. readSession # 0 => readSession \in Sessions
    BY DEF SessionIDs, Sessions
  <2>2. readSequence[2] \in 0 .. MaxSeq
    BY Bounds DEF Sequences, NoSequence
  <2>3. sessions < MaxSession => sessions + 1 \in SessionIDs
    BY Bounds DEF SessionIDs
  <2> QED BY <1>4, <2>1, <2>2, <2>3 DEF authenticateGatewayGeneration, data, listeners, history
<1>5. CASE finishGatewayGeneration
  <2>1. current \in Gens
    BY <1>5, Bounds DEF finishGatewayGeneration, Gens
  <2> QED BY <1>5, <2>1, EndsData DEF finishGatewayGeneration, data, listeners, history
<1>6. CASE HelloReadFails
  <2>1. current \in Gens
    BY <1>6, Bounds DEF HelloReadFails, Gens
  <2>2. sessionID # 0 => sessionID \in Sessions
    BY DEF SessionIDs, Sessions
  <2>3. PICK clears \in BOOLEAN : Ends(current, clears)
    BY <1>6, HelloEnds
  <2>4. givenUp' \in SUBSET Sessions /\ unheeded' \in SUBSET Sessions
    BY <1>6, <2>2, HelloEnds
  <2>5. UNCHANGED <<listeners, stored, late>>
    BY <1>6, HelloEnds
  <2> QED BY <2>1, <2>3, <2>4, <2>5, EndsData DEF data, listeners
<1>7. CASE CloseWithCode
  <2>1. {sessionID, serves, readSession} \ {0} \in SUBSET Sessions
    BY DEF SessionIDs, Sessions
  <2>2. CASE current # 0
    <3>1. current \in Gens
      BY <2>2, Bounds DEF Gens
    <3> QED BY <1>7, <2>1, <2>2, <3>1, EndsData DEF CloseWithCode, data, listeners
  <2>3. CASE current = 0
    <3>1. gens \in Gens
      BY <1>7, <2>3, Bounds DEF CloseWithCode, Gens
    <3> QED BY <1>7, <2>1, <2>3, <3>1 DEF CloseWithCode, data, listeners, openers, discord
  <2> QED BY <2>2, <2>3
<1>8. ASSUME NEW g \in Gens, ReadDispatch(g) PROVE TypeOK'
  <2>1. serves \in Sessions /\ position + 1 \in 0 .. MaxSeq
    BY <1>8, Bounds DEF ReadDispatch, SessionIDs, Sessions
  <2>2. Dispatch(serves, position + 1) \in Messages
    BY <2>1, DispatchOf
  <2>3. Process(g, "store", Dispatch(serves, position + 1))
    BY <1>8 DEF ReadDispatch
  <2>4. /\ listener' \in [Gens -> {"none", "read", "store", "ready", "clear", "zero", "finish"}]
        /\ msg' \in [Gens -> Messages]
    BY <2>2, <2>3, Processes
  <2> QED BY <1>8, <2>1, <2>4 DEF ReadDispatch, data, openers, history
<1>9. ASSUME NEW g \in Gens, ReadLoss(g) PROVE TypeOK'
  <2>1. PICK r \in Recoveries : Process(g, AfterLoss(r), Loss(serves, r))
    BY <1>9 DEF ReadLoss
  <2>2. Loss(serves, r) \in Messages /\ AfterLoss(r) \in {"finish", "clear"}
    BY LossOf DEF AfterLoss
  <2>3. /\ listener' \in [Gens -> {"none", "read", "store", "ready", "clear", "zero", "finish"}]
        /\ msg' \in [Gens -> Messages]
    BY <2>1, <2>2, Processes
  <2>4. {serves, readSession} \ {0} \in SUBSET Sessions
    BY DEF SessionIDs, Sessions
  <2>5. /\ forgotten' \in SUBSET Sessions /\ givenUp' \in SUBSET Sessions
        /\ unheeded' \in SUBSET Sessions
    BY <1>9, <2>4 DEF ReadLoss
  <2> QED BY <1>9, <2>3, <2>5 DEF ReadLoss, data, openers
<1>10. ASSUME NEW g \in Gens, onEvent(g) PROVE TypeOK'
  <2>1. msg[g].session \in Sessions /\ msg[g].seq \in 1 .. MaxSeq
    BY <1>10 DEF onEvent, Shape
  <2>2. sequence' \in Sequences
    BY <1>10, <2>1, Bounds DEF onEvent
  <2> QED BY <1>10, <2>1, <2>2, Bounds, Processes DEF onEvent, openers, discord, ListenerWrites
<1>11. ASSUME NEW g \in Gens, onReady(g) PROVE TypeOK'
  BY <1>11, Bounds, Processes, MessageFields DEF onReady, openers, discord, ListenerWrites
<1>12. ASSUME NEW g \in Gens, ListenerClears(g) PROVE TypeOK'
  BY <1>12, Bounds DEF ListenerClears, openers, discord, ListenerWrites, ClearSession, ClearedSession, ZeroSequence, SessionIDs
<1>13. ASSUME NEW g \in Gens, ListenerFinishes(g) PROVE TypeOK'
  <2>1. PICK clears \in BOOLEAN : Ends(g, clears)
    BY <1>13, ListenerEnds
  <2> QED BY <1>13, <2>1, Bounds, Processes, EndsData DEF ListenerFinishes, data, history
<1>14. ASSUME NEW g \in Gens, invalidateGatewaySession(g) PROVE TypeOK'
  BY <1>14, Bounds DEF invalidateGatewaySession, openers, listeners, discord, EnderWrites, ClearSession, ClearedSession, ZeroSequence, SessionIDs
<1>15. CASE UNCHANGED vars
  BY <1>15 DEF vars, data, openers, listeners, discord, history
<1> QED BY <1>1, <1>2, <1>3, <1>4, <1>5, <1>6, <1>7, <1>8, <1>9, <1>10, <1>11, <1>12, <1>13, <1>14, <1>15 DEF Next

LEMMA ShapeKept == ASSUME TypeOK, Shape, [Next]_vars PROVE Shape'
<1> USE DEF Shape
<1>0. /\ current \in Nat /\ gens \in Nat /\ gens <= MaxGen /\ MaxGen \in Nat
      /\ \A g \in Gens : g \in Nat /\ g # 0
      /\ gens # 0 => gens \in Gens
  BY Bounds DEF TypeOK, Gens
<1>1. CASE beginGatewayGeneration
  BY <1>0, <1>1 DEF beginGatewayGeneration, TypeOK, discord, Gens
<1>2. CASE ReadSequence
  BY <1>2 DEF ReadSequence, listeners, discord
<1>3. CASE ReadSession
  BY <1>3 DEF ReadSession, listeners, discord
<1>4. CASE authenticateGatewayGeneration
  BY <1>4 DEF authenticateGatewayGeneration, listeners
<1>20. ASSUME NEW g \in Gens, NEW clears \in BOOLEAN, Ends(g, clears), UNCHANGED listeners
       PROVE  Shape'
  <2>1. CASE current = g
    <3>1. /\ current' = 0 /\ opener' = "none" /\ serves' = 0 /\ position' = 0 /\ gens' = gens
          /\ \A h \in Gens : h # g => clearing'[h] = clearing[h]
          /\ \A h \in Gens : listener'[h] = listener[h] /\ msg'[h] = msg[h]
      BY <1>20, <2>1 DEF Ends, TypeOK, listeners
    <3>2. g = gens /\ \A h \in Gens : h > gens => h # g
      BY <1>0, <2>1
    <3> QED BY <1>0, <2>1, <3>1, <3>2
  <2>2. CASE current # g
    BY <1>20, <2>2 DEF Ends, openers, listeners
  <2> QED BY <2>1, <2>2
<1>5. CASE finishGatewayGeneration
  BY <1>0, <1>5, <1>20 DEF finishGatewayGeneration
<1>6. CASE HelloReadFails
  <2>1. /\ current \in Gens /\ UNCHANGED listeners
        /\ \E clears \in BOOLEAN : Ends(current, clears)
    BY <1>0, <1>6, HelloEnds DEF HelloReadFails
  <2> QED BY <1>20, <2>1
<1>7. CASE CloseWithCode
  <2>1. CASE current # 0
    BY <1>0, <1>7, <1>20, <2>1 DEF CloseWithCode
  <2>2. CASE current = 0
    BY <1>0, <1>7, <2>2 DEF CloseWithCode, TypeOK, openers, listeners, discord
  <2> QED BY <2>1, <2>2
<1>8. ASSUME NEW g \in Gens, ReadDispatch(g) PROVE Shape'
  <2>1. serves \in Sessions /\ position + 1 \in 1 .. MaxSeq
    BY <1>8, Bounds DEF ReadDispatch, SessionIDs, Sessions, TypeOK
  <2>2. Process(g, "store", Dispatch(serves, position + 1)) /\ g = current /\ opener = "sent"
    BY <1>8 DEF ReadDispatch, Reading
  <2>3. /\ Dispatch(serves, position + 1) \in Messages
        /\ Dispatch(serves, position + 1).session = serves
        /\ Dispatch(serves, position + 1).seq = position + 1
    BY <2>1, Bounds, DispatchOf
  <2>4. /\ msg'[g] = Dispatch(serves, position + 1)
        /\ \A h \in Gens : h # g => listener'[h] = listener[h] /\ msg'[h] = msg[h]
    BY <2>2, <2>3, Processes
  <2> QED BY <1>0, <1>8, <2>1, <2>2, <2>3, <2>4 DEF ReadDispatch, openers
<1>9. ASSUME NEW g \in Gens, ReadLoss(g) PROVE Shape'
  <2>1. PICK r \in Recoveries : Process(g, AfterLoss(r), Loss(serves, r))
    BY <1>9 DEF ReadLoss
  <2>2. Loss(serves, r) \in Messages /\ AfterLoss(r) \in {"finish", "clear"}
    BY LossOf DEF AfterLoss, TypeOK
  <2>3. /\ listener'[g] \in {"finish", "clear"}
        /\ \A h \in Gens : h # g => listener'[h] = listener[h] /\ msg'[h] = msg[h]
    BY <2>1, <2>2, Processes DEF Process, TypeOK
  <2> QED BY <1>0, <1>9, <2>3 DEF ReadLoss, Reading, openers
<1>10. ASSUME NEW g \in Gens, onEvent(g) PROVE Shape'
  <2>1. /\ listener'[g] \in {"ready", "read"}
        /\ listener'[g] = "ready" => msg'[g] = msg[g]
        /\ \A h \in Gens : h # g => listener'[h] = listener[h] /\ msg'[h] = msg[h]
    BY <1>10 DEF onEvent, Process, TypeOK
  <2>2. listener[g] = "store" /\ UNCHANGED <<current, gens, opener, serves, position, clearing>>
    BY <1>10 DEF onEvent, openers, discord
  <2> QED BY <1>0, <2>1, <2>2
<1>11. ASSUME NEW g \in Gens, onReady(g) PROVE Shape'
  BY <1>0, <1>11 DEF onReady, Process, TypeOK, openers, discord
<1>12. ASSUME NEW g \in Gens, ListenerClears(g) PROVE Shape'
  BY <1>0, <1>12 DEF ListenerClears, TypeOK, openers, discord
<1>13. ASSUME NEW g \in Gens, ListenerFinishes(g) PROVE Shape'
  <2>1. /\ listener[g] = "finish" /\ listener'[g] = "none"
        /\ \A h \in Gens : h # g => listener'[h] = listener[h] /\ msg'[h] = msg[h]
    BY <1>13 DEF ListenerFinishes, Process, TypeOK
  <2>2. PICK clears \in BOOLEAN : Ends(g, clears)
    BY <1>13, ListenerEnds
  <2>3. CASE current = g
    <3>1. /\ current' = 0 /\ opener' = "none" /\ serves' = 0 /\ position' = 0 /\ gens' = gens
          /\ \A h \in Gens : h # g => clearing'[h] = clearing[h]
      BY <2>2, <2>3 DEF Ends, TypeOK
    <3> QED BY <1>0, <2>1, <2>3, <3>1
  <2>4. CASE current # g
    <3>1. UNCHANGED <<current, gens, opener, serves, position, clearing>>
      BY <2>2, <2>4 DEF Ends, openers
    <3> QED BY <1>0, <2>1, <2>4, <3>1
  <2> QED BY <2>3, <2>4
<1>14. ASSUME NEW g \in Gens, invalidateGatewaySession(g) PROVE Shape'
  BY <1>0, <1>14 DEF invalidateGatewaySession, TypeOK, openers, listeners, discord
<1>15. CASE UNCHANGED vars
  BY <1>15 DEF vars, openers, listeners, discord
<1> QED BY <1>1, <1>2, <1>3, <1>4, <1>5, <1>6, <1>7, <1>8, <1>9, <1>10, <1>11, <1>12, <1>13, <1>14, <1>15 DEF Next

LEMMA StartedKept == ASSUME TypeOK, Shape, Started, [Next]_vars PROVE Started'
<1> USE DEF Started
<1>0. /\ sessions \in Nat /\ sessionID \in Nat /\ serves \in Nat /\ readSession \in Nat
      /\ \A s \in Sessions : s \in Nat
      /\ \A g \in Gens : msg[g] \in Messages /\ msg[g].session \in Nat
      /\ NoMessage.session = 0 /\ NoMessage \in Messages
  BY Bounds, MessageFields DEF TypeOK, SessionIDs, Sessions
<1>1. CASE beginGatewayGeneration
  BY <1>1 DEF beginGatewayGeneration, data, discord, history
<1>2. CASE ReadSequence
  BY <1>2 DEF ReadSequence, data, listeners, discord, history
<1>3. CASE ReadSession
  BY <1>3 DEF ReadSession, data, listeners, discord, history
<1>4. CASE authenticateGatewayGeneration
  BY <1>0, <1>4 DEF authenticateGatewayGeneration, data, listeners, history
<1>20. ASSUME NEW g \in Gens, NEW clears \in BOOLEAN, Ends(g, clears)
       PROVE  /\ UNCHANGED <<sessionID, sessions>> /\ serves' <= sessions /\ readSession' <= sessions
  BY <1>0, <1>20 DEF Ends, data, openers
<1>22. current # 0 => current \in Gens
  BY Bounds DEF TypeOK, Gens
<1>5. CASE finishGatewayGeneration
  BY <1>5, <1>20, <1>22 DEF finishGatewayGeneration, listeners, history
<1>6. CASE HelloReadFails
  <2>1. \E clears \in BOOLEAN : Ends(current, clears)
    BY <1>6, HelloEnds
  <2> QED BY <1>6, <1>20, <1>22, <2>1 DEF HelloReadFails, listeners
<1>7. CASE CloseWithCode
  <2>1. CASE current # 0
    BY <1>7, <1>20, <1>22, <2>1 DEF CloseWithCode, listeners
  <2>2. CASE current = 0
    BY <1>7, <2>2 DEF CloseWithCode, data, listeners, openers, discord
  <2> QED BY <2>1, <2>2
<1>8. ASSUME NEW g \in Gens, ReadDispatch(g) PROVE Started'
  <2>1. serves \in SessionIDs /\ position + 1 \in 0 .. MaxSeq
    BY <1>8, Bounds DEF ReadDispatch, TypeOK
  <2>2. /\ Dispatch(serves, position + 1) \in Messages
        /\ Dispatch(serves, position + 1).session = serves
    BY <2>1, DispatchOf
  <2>3. /\ msg'[g] = Dispatch(serves, position + 1)
        /\ \A h \in Gens : h # g => msg'[h] = msg[h]
    BY <1>8, <2>2, Processes DEF ReadDispatch
  <2> QED BY <1>8, <2>2, <2>3 DEF ReadDispatch, data, openers, history
<1>9. ASSUME NEW g \in Gens, ReadLoss(g) PROVE Started'
  <2>1. PICK r \in Recoveries : Process(g, AfterLoss(r), Loss(serves, r))
    BY <1>9 DEF ReadLoss
  <2>2. Loss(serves, r) \in Messages /\ Loss(serves, r).session = serves
    BY LossOf DEF TypeOK
  <2>3. /\ msg'[g] = Loss(serves, r)
        /\ \A h \in Gens : h # g => msg'[h] = msg[h]
    BY <2>1, <2>2 DEF Process, TypeOK
  <2> QED BY <1>9, <2>2, <2>3 DEF ReadLoss, data, openers
<1>10. ASSUME NEW g \in Gens, onEvent(g) PROVE Started'
  <2>1. \A h \in Gens : msg'[h] \in {msg[h], NoMessage}
    BY <1>10 DEF onEvent, Process, TypeOK
  <2>2. \A h \in Gens : msg'[h].session <= sessions
    BY <1>0, <2>1
  <2>3. \A s \in Sessions : stored'[s] # 0 => s = msg[g].session \/ stored[s] # 0
    BY <1>10 DEF onEvent, TypeOK
  <2> QED BY <1>10, <2>2, <2>3 DEF onEvent, openers, discord
<1>11. ASSUME NEW g \in Gens, onReady(g) PROVE Started'
  <2>1. \A h \in Gens : msg'[h] \in {msg[h], NoMessage}
    BY <1>11 DEF onReady, Process, TypeOK
  <2>2. \A h \in Gens : msg'[h].session <= sessions
    BY <1>0, <2>1
  <2> QED BY <1>11, <2>2 DEF onReady, openers, discord
<1>12. ASSUME NEW g \in Gens, ListenerClears(g) PROVE Started'
  BY <1>0, <1>12 DEF ListenerClears, openers, discord, ClearSession, ClearedSession, ZeroSequence
<1>13. ASSUME NEW g \in Gens, ListenerFinishes(g) PROVE Started'
  <2>1. \A h \in Gens : msg'[h] \in {msg[h], NoMessage}
    BY <1>13 DEF ListenerFinishes, Process, TypeOK
  <2>2. \A h \in Gens : msg'[h].session <= sessions
    BY <1>0, <2>1
  <2>3. \E clears \in BOOLEAN : Ends(g, clears)
    BY <1>13, ListenerEnds
  <2> QED BY <1>13, <1>20, <2>2, <2>3 DEF ListenerFinishes, history
<1>14. ASSUME NEW g \in Gens, invalidateGatewaySession(g) PROVE Started'
  BY <1>0, <1>14 DEF invalidateGatewaySession, openers, listeners, discord, ClearSession, ClearedSession, ZeroSequence
<1>15. CASE UNCHANGED vars
  BY <1>15 DEF vars, data, openers, listeners, discord, history
<1> QED BY <1>1, <1>2, <1>3, <1>4, <1>5, <1>6, <1>7, <1>8, <1>9, <1>10, <1>11, <1>12, <1>13, <1>14, <1>15 DEF Next

(* Once a write came late, or one on behalf of an earlier generation waits *)
(* to, that stays so.                                                      *)
LEMMA InTime ==
    ASSUME TypeOK, ~late', NEW g
    PROVE  /\ ListenerWrites(g) => ~late /\ g = current
           /\ EnderWrites(g) => ~late /\ g = gens
<1>1. late' = (late \/ g # current) => ~late /\ g = current
  BY Zenon
<1>2. late' = (late \/ g # gens) => ~late /\ g = gens
  BY Zenon
<1> QED BY <1>1, <1>2 DEF ListenerWrites, EnderWrites

LEMMA QuietBefore == ASSUME TypeOK, Shape, [Next]_vars, Quiet' PROVE Quiet
<1> USE DEF Quiet, Shape, TypeOK
<1>0. /\ current \in Nat /\ gens \in Nat /\ gens <= MaxGen /\ MaxGen \in Nat
      /\ \A g \in Gens : g \in Nat
      /\ gens # 0 => gens \in Gens
  BY Bounds DEF Gens
<1>1. CASE beginGatewayGeneration
  BY <1>0, <1>1 DEF beginGatewayGeneration, history, Gens
<1>2. CASE ReadSequence \/ ReadSession \/ authenticateGatewayGeneration
  BY <1>2 DEF ReadSequence, ReadSession, authenticateGatewayGeneration, listeners, history
<1>20. ASSUME NEW g \in Gens, NEW clears \in BOOLEAN, Ends(g, clears)
       PROVE  /\ UNCHANGED gens /\ \A h \in Gens : h < gens => clearing'[h] = clearing[h]
  BY <1>0, <1>20 DEF Ends
<1>5. CASE finishGatewayGeneration
  BY <1>0, <1>5, <1>20 DEF finishGatewayGeneration, listeners, history
<1>6. CASE HelloReadFails
  <2>1. \E clears \in BOOLEAN : Ends(current, clears)
    BY <1>6, HelloEnds
  <2> QED BY <1>0, <1>6, <1>20, <2>1 DEF HelloReadFails, listeners
<1>7. CASE CloseWithCode
  <2>1. CASE current # 0
    BY <1>0, <1>7, <1>20, <2>1 DEF CloseWithCode, listeners
  <2>2. CASE current = 0
    BY <1>0, <1>7, <2>2 DEF CloseWithCode, listeners
  <2> QED BY <2>1, <2>2
<1>8. ASSUME NEW g \in Gens, ReadDispatch(g) \/ ReadLoss(g) PROVE Quiet
  BY <1>0, <1>8 DEF ReadDispatch, ReadLoss, Reading, Process, history
<1>10. ASSUME NEW g \in Gens, onEvent(g) \/ onReady(g) PROVE Quiet
  <2>1. ~late /\ g = current
    BY <1>10, InTime DEF onEvent, onReady
  <2> QED BY <1>0, <1>10, <2>1 DEF onEvent, onReady, Process
<1>12. ASSUME NEW g \in Gens, ListenerClears(g) PROVE Quiet
  <2>1. ~late /\ g = current
    BY <1>12, InTime DEF ListenerClears
  <2> QED BY <1>0, <1>12, <2>1 DEF ListenerClears
<1>13. ASSUME NEW g \in Gens, ListenerFinishes(g) PROVE Quiet
  <2>1. \E clears \in BOOLEAN : Ends(g, clears)
    BY <1>13, ListenerEnds
  <2> QED BY <1>0, <1>13, <1>20, <2>1 DEF ListenerFinishes, Process, history
<1>14. ASSUME NEW g \in Gens, invalidateGatewaySession(g) PROVE Quiet
  <2>1. ~late /\ g = gens
    BY <1>14, InTime DEF invalidateGatewaySession
  <2> QED BY <1>0, <1>14, <2>1 DEF invalidateGatewaySession, listeners
<1>15. CASE UNCHANGED vars
  BY <1>15 DEF vars, listeners, history
<1> QED BY <1>1, <1>2, <1>5, <1>6, <1>7, <1>8, <1>10, <1>12, <1>13, <1>14, <1>15 DEF Next

-----------------------------------------------------------------------------
Datum == Kept /\ Opening /\ \A g \in Gens : g = current => Listens(g)

LEMMA GensOf ==
    ASSUME TypeOK, Shape
    PROVE  /\ gens \in Nat /\ gens <= MaxGen /\ MaxGen \in Nat
           /\ \A g \in Gens : g \in Nat /\ g # 0
           /\ gens # 0 => gens \in Gens
           /\ current # 0 => current = gens /\ current \in Gens
           /\ 0 \notin givenUp /\ 0 \notin Sessions
           /\ \A s \in Sessions : stored[s] \in Nat
           /\ sessionID # 0 => sessionID \in Sessions
           /\ serves # 0 => serves \in Sessions
           /\ readSession # 0 => readSession \in Sessions
BY Bounds DEF TypeOK, Shape, Gens, Sessions, SessionIDs

(* The opener's steps.                                                     *)
LEMMA OpenerKeepsData ==
    ASSUME TypeOK, Shape, Started, Datum, Quiet',
           \/ beginGatewayGeneration \/ ReadSequence \/ ReadSession
           \/ authenticateGatewayGeneration
    PROVE  Datum'
<1> USE DEF Datum, Shape
<1>0. /\ gens \in Nat /\ gens <= MaxGen /\ MaxGen \in Nat
      /\ \A g \in Gens : g \in Nat /\ g # 0
      /\ gens # 0 => gens \in Gens
      /\ current # 0 => current = gens /\ current \in Gens
      /\ 0 \notin givenUp
  BY GensOf
<1>1. CASE beginGatewayGeneration
  <2>8. gens + 1 \in Gens
    BY <1>0, <1>1 DEF beginGatewayGeneration, Gens
  <2>9. PICK h \in Gens : h = gens + 1
    BY <2>8
  <2>1. /\ current' = h /\ gens' = h /\ opener' = "auth" /\ listener'[h] = "read"
        /\ \A g \in Gens : g # h => listener'[g] = listener[g]
        /\ UNCHANGED <<sessionID, sequence, msg, clearing, serves, position, stored, givenUp, unheeded>>
        /\ current = 0
    BY <1>0, <1>1, <2>9 DEF beginGatewayGeneration, TypeOK, data, discord, history, Gens
  <2>2. \A g \in Gens : g = gens => listener[g] \in Idle /\ clearing[g] = "none"
    BY <1>0, <2>1, <2>9 DEF Quiet, Idle
  <2>3. Exact
    BY <2>2 DEF Kept
  <2>4. Exact' /\ clearing'[h] = "none"
    BY <1>0, <2>1, <2>3, <2>9 DEF Exact
  <2>5. Kept'
    BY <2>1, <2>4 DEF Kept
  <2>6. serves' = 0 /\ serves' \notin Heeded'
    BY <1>0, <2>1
  <2>7. Listens(h)'
    BY <2>1, <2>6 DEF Listens, Reads, Clears
  <2> QED BY <2>1, <2>5, <2>7 DEF Opening
<1>2. CASE ReadSequence \/ ReadSession
  <2>1. /\ current # 0 /\ opener # "sent" /\ opener' # "sent"
        /\ UNCHANGED <<sessionID, sequence, current, gens, listener, msg, clearing, serves,
                       position, stored, givenUp, unheeded>>
    BY <1>2 DEF ReadSequence, ReadSession, data, listeners, discord, history
  <2>2. Kept'
    BY <2>1 DEF Kept, Exact, AllEnded
  <2>3. Opening'
    BY <1>2 DEF ReadSequence, ReadSession, data, Opening
  <2>4. \A g \in Gens : g = current => Listens(g)'
    BY <2>1 DEF Listens, Reads, Clears
  <2> QED BY <2>1, <2>2, <2>3, <2>4
<1>3. CASE authenticateGatewayGeneration
  <2>1. /\ current # 0 /\ opener = "send" /\ opener' = "sent"
        /\ UNCHANGED <<sessionID, sequence, current, gens, listener, msg, clearing, stored,
                       givenUp, unheeded, readSession>>
    BY <1>3 DEF authenticateGatewayGeneration, data, listeners, history
  <2>2. /\ current = gens /\ current \in Gens /\ listener[current] = "read"
        /\ clearing[current] = "none" /\ serves = 0 /\ position = 0
    BY <1>0, <2>1
  <2>3. Exact /\ readSession = sessionID /\ readSequence = sequence
    BY <2>1, <2>2 DEF Kept, Opening, Idle
  <2>4. Reads'
    <3>1. CASE /\ readSession = 0 /\ sessions < MaxSession /\ serves' = sessions + 1
               /\ UNCHANGED position
      <4>1. serves' \in Sessions /\ ~(serves' <= sessions) /\ sessions \in Nat
        BY <3>1, Bounds DEF TypeOK, SessionIDs, Sessions
      <4>2. stored[serves'] = 0 /\ serves' \notin Heeded
        BY <4>1 DEF Started
      <4> QED BY <2>1, <2>2, <2>3, <3>1, <4>1, <4>2 DEF Reads
    <3>2. CASE readSession # 0 /\ serves' = readSession /\ position' = readSequence[2]
      BY <2>1, <2>3, <3>2 DEF Exact, Reads
    <3>3. CASE UNCHANGED <<serves, position>>
      BY <1>0, <2>1, <2>2, <2>3, <3>3 DEF Reads
    <3> QED BY <1>3, <3>1, <3>2, <3>3 DEF authenticateGatewayGeneration
  <2>5. Listens(current)'
    BY <2>1, <2>2, <2>4 DEF Listens, Clears
  <2>6. Exact' /\ Kept'
    BY <2>1, <2>2, <2>3 DEF Exact, Kept
  <2> QED BY <2>1, <2>5, <2>6 DEF Opening
<1> QED BY <1>1, <1>2, <1>3

(* The end of a generation, and what its ender gives up.                   *)
LEMMA EndKeepsData ==
    ASSUME TypeOK, Shape, Started, Datum,
           finishGatewayGeneration \/ HelloReadFails \/ CloseWithCode
    PROVE  Datum'
<1> USE DEF Datum, Shape
<1>0. /\ gens \in Nat /\ \A g \in Gens : g \in Nat /\ g # 0
      /\ gens # 0 => gens \in Gens
      /\ current # 0 => current = gens /\ current \in Gens
      /\ sessionID # 0 => sessionID \in Sessions
      /\ 0 \notin Sessions
  BY GensOf
<1>1. ASSUME NEW clears \in BOOLEAN, current # 0, Ends(current, clears), UNCHANGED <<listener, stored>>,
             ~clears => sessionID \notin Heeded' \/ UNCHANGED <<givenUp, unheeded>>,
             clears => sessionID \in givenUp' \/ sessionID = 0,
             givenUp \subseteq givenUp'
      PROVE  Datum'
  <2>1. /\ current' = 0 /\ opener' = "none" /\ gens' = gens
        /\ clearing'[gens] = IF clears THEN "clear" ELSE "none"
        /\ UNCHANGED <<sessionID, sequence>>
    BY <1>0, <1>1 DEF Ends, TypeOK, data
  <2>2. gens \in Gens /\ clearing[gens] = "none"
    BY <1>0, <1>1
  <2>3. listener[gens] \in Idle => Exact
    BY <2>2 DEF Kept
  <2>4. CASE ~clears
    BY <1>0, <1>1, <2>1, <2>2, <2>3, <2>4 DEF Kept, Exact, Opening
  <2>5. CASE clears
    <3>1. listener'[gens] \in Idle => AllEnded'
      BY <1>0, <1>1, <2>3, <2>5 DEF Exact, AllEnded
    <3>2. Kept'
      BY <2>1, <2>2, <2>5, <3>1 DEF Kept
    <3> QED BY <1>0, <2>1, <3>2 DEF Opening
  <2> QED BY <2>4, <2>5
<1>2. CASE finishGatewayGeneration
  BY <1>1, <1>2 DEF finishGatewayGeneration, listeners, history
<1>3. CASE HelloReadFails
  <2>1. PICK clears \in BOOLEAN :
            Ends(current, clears) /\ (~clears => sessionID \notin Heeded')
    BY <1>3, HelloEnds
  <2>2. current # 0 /\ UNCHANGED <<listener, stored>>
    BY <1>3 DEF HelloReadFails, listeners
  <2>3. (sessionID \in givenUp' \/ sessionID = 0) /\ givenUp \subseteq givenUp'
    BY <1>3, HelloEnds
  <2> QED BY <1>1, <2>1, <2>2, <2>3
<1>4. CASE CloseWithCode
  <2>1. givenUp' = givenUp \cup ({sessionID, serves, readSession} \ {0})
        /\ UNCHANGED <<listener, stored>>
    BY <1>4 DEF CloseWithCode, listeners
  <2>2. (sessionID \in givenUp' \/ sessionID = 0) /\ givenUp \subseteq givenUp'
    BY <2>1
  <2>3. CASE current # 0
    <3>1. Ends(current, TRUE)
      BY <1>4, <2>3 DEF CloseWithCode
    <3> QED BY <1>1, <2>1, <2>2, <2>3, <3>1
  <2>4. CASE current = 0
    <3>1. /\ gens \in Gens /\ clearing[gens] = "none" /\ clearing'[gens] = "clear"
          /\ UNCHANGED <<sessionID, sequence, current, gens, opener, readSequence, readSession>>
      BY <1>0, <1>4, <2>4 DEF CloseWithCode, TypeOK, data, openers
    <3>2. listener'[gens] \in Idle => AllEnded'
      BY <1>0, <2>1, <2>2, <3>1 DEF Exact, AllEnded, Kept
    <3>3. Kept'
      BY <3>1, <3>2 DEF Kept
    <3> QED BY <1>0, <2>4, <3>1, <3>3 DEF Opening
  <2> QED BY <2>3, <2>4
<1> QED BY <1>2, <1>3, <1>4

(* The listener of the current generation reads, stores and clears.        *)
LEMMA ReadingKeepsData ==
    ASSUME TypeOK, Shape, Started, Datum, NEW g \in Gens, ReadDispatch(g) \/ ReadLoss(g)
    PROVE  Datum'
<1> USE DEF Datum, Shape
<1>0. /\ \A h \in Gens : h \in Nat /\ h # 0
      /\ current # 0 => current = gens /\ current \in Gens
      /\ 0 \notin Sessions
      /\ sessionID # 0 => sessionID \in Sessions
  BY GensOf
<1>1. g = current /\ g = gens /\ listener[g] = "read" /\ opener = "sent" /\ clearing[g] = "none"
  BY <1>0 DEF ReadDispatch, ReadLoss, Reading
<1>2. Exact /\ Reads
  BY <1>1 DEF Kept, Listens, Idle
<1>3. CASE ReadDispatch(g)
  <2>1. /\ serves # 0 /\ position + 1 \in 0 .. MaxSeq /\ serves \in SessionIDs
        /\ Process(g, "store", Dispatch(serves, position + 1)) /\ position' = position + 1
        /\ UNCHANGED <<sessionID, sequence, current, gens, opener, serves, stored, givenUp, unheeded, clearing>>
    BY <1>3, Bounds DEF ReadDispatch, data, openers, history, TypeOK
  <2>2. PICK m \in Messages : m = Dispatch(serves, position + 1)
    BY <2>1, DispatchOf
  <2>3. m.session = serves /\ m.seq = position + 1
    BY <2>1, <2>2, DispatchOf
  <2>4. listener'[g] = "store" /\ msg'[g] = m
    BY <2>1, <2>2 DEF Process, TypeOK
  <2>5. Exact'
    BY <1>2, <2>1 DEF Exact
  <2>6. Stores(m)'
    BY <1>2, <2>1, <2>3, <2>5 DEF Stores, Reads
  <2>7. Listens(g)'
    BY <2>4, <2>6 DEF Listens, Clears
  <2> QED BY <1>1, <2>1, <2>4, <2>5, <2>7 DEF Kept, Opening
<1>4. CASE ReadLoss(g)
  <2>1. UNCHANGED <<sessionID, sequence, current, gens, opener, serves, position, stored, clearing>>
    BY <1>4 DEF ReadLoss, data, openers
  <2>2. PICK r \in Recoveries :
           /\ Process(g, AfterLoss(r), Loss(serves, r))
           /\ IF r = "Resume" THEN UNCHANGED <<givenUp, unheeded>>
              ELSE givenUp' = givenUp \cup ({serves, readSession} \ {0})
    BY <1>4 DEF ReadLoss
  <2>3. listener'[g] = AfterLoss(r) /\ msg'[g].recovery = r
    BY <2>2, LossOf DEF Process, TypeOK
  <2>4. CASE r = "Resume"
    <3>1. listener'[g] = "finish" /\ Exact' /\ UNCHANGED <<givenUp, unheeded>>
      BY <1>2, <2>1, <2>2, <2>3, <2>4 DEF AfterLoss, Exact
    <3>2. Listens(g)'
      BY <2>3, <2>4, <3>1 DEF Listens, Clears
    <3> QED BY <1>1, <2>1, <3>1, <3>2 DEF Kept, Opening
  <2>5. CASE r # "Resume"
    <3>1. listener'[g] = "clear"
      BY <2>3, <2>5 DEF AfterLoss
    <3>2. sessionID # 0 => sessionID \in {serves, readSession}
      BY <1>1, <1>2 DEF Reads
    <3>3. AllEnded'
      BY <1>0, <1>2, <2>1, <2>2, <2>5, <3>2 DEF Exact, AllEnded
    <3>4. Listens(g)'
      BY <3>1, <3>3 DEF Listens, Clears
    <3> QED BY <1>1, <2>1, <3>1, <3>4 DEF Kept, Opening, Idle
  <2> QED BY <2>4, <2>5
<1> QED BY <1>3, <1>4

LEMMA StoringKeepsData ==
    ASSUME TypeOK, Shape, Started, Datum, ~late', NEW g \in Gens,
           onEvent(g) \/ onReady(g) \/ ListenerClears(g)
    PROVE  Datum'
<1> USE DEF Datum, Shape
<1>0. /\ \A h \in Gens : h \in Nat /\ h # 0
      /\ 0 \notin Sessions
      /\ sessionID # 0 => sessionID \in Sessions
      /\ serves # 0 => serves \in Sessions
      /\ current # 0 => current = gens
      /\ \A s \in Sessions : stored[s] \in Nat
  BY GensOf
<1>1. g = current
  BY InTime DEF onEvent, onReady, ListenerClears
<1>2. /\ g = gens /\ opener = "sent" /\ clearing[g] = "none" /\ Listens(g)
  BY <1>0, <1>1 DEF onEvent, onReady, ListenerClears
<1>3. CASE onEvent(g)
  <2>1. Stores(msg[g])
    BY <1>2, <1>3 DEF onEvent, Listens
  <2>2. /\ sequence' = <<serves, position>>
        /\ stored' = [stored EXCEPT ![serves] = IF position > @ THEN position ELSE @]
        /\ UNCHANGED <<sessionID, current, gens, opener, serves, position, givenUp, unheeded, clearing>>
        /\ IF position = 1
           THEN listener' = [listener EXCEPT ![g] = "ready"] /\ UNCHANGED msg
           ELSE Process(g, "read", NoMessage)
    BY <1>3, <2>1 DEF onEvent, Stores, openers, discord
  <2>3. serves \in Sessions /\ stored[serves] \in Nat /\ position = stored[serves] + 1
    BY <1>0, <2>1 DEF Stores
  <2>4. stored'[serves] = position /\ \A s \in Sessions : s # serves => stored'[s] = stored[s]
    BY <2>2, <2>3 DEF TypeOK
  <2>5. \A s \in Sessions : stored[s] # 0 => s = sessionID \/ s \in givenUp
    BY <2>1 DEF Stores, Exact
  <2>6. CASE position = 1
    <3>1. sessionID = 0
      BY <2>1, <2>3, <2>6 DEF Stores, Exact
    <3>2. listener'[g] = "ready" /\ msg'[g] = msg[g]
      BY <2>2, <2>6 DEF TypeOK
    <3>3. \A s \in Sessions : stored'[s] # 0 => s = serves \/ s \in givenUp
      BY <1>0, <2>4, <2>5, <3>1
    <3>4. Readies(msg[g])'
      BY <2>1, <2>2, <2>4, <2>6, <3>1, <3>2, <3>3 DEF Readies, Stores
    <3>5. Listens(g)'
      BY <3>2, <3>4 DEF Listens, Clears
    <3> QED BY <1>1, <1>2, <2>2, <3>2, <3>5 DEF Kept, Opening, Idle
  <2>7. CASE position # 1
    <3>1. listener'[g] = "read" /\ sessionID = serves
      BY <2>1, <2>2, <2>7 DEF Process, TypeOK, Stores
    <3>2. Exact'
      BY <2>1, <2>2, <2>3, <2>4, <2>5, <3>1 DEF Exact, Stores
    <3>3. Reads'
      BY <2>1, <2>2, <2>3, <2>4, <3>1 DEF Reads, Stores
    <3>4. Listens(g)'
      BY <3>1, <3>3 DEF Listens, Clears
    <3> QED BY <1>1, <1>2, <2>2, <3>2, <3>4 DEF Kept, Opening
  <2> QED BY <2>6, <2>7
<1>4. CASE onReady(g)
  <2>1. Readies(msg[g])
    BY <1>2, <1>4 DEF onReady, Listens
  <2>2. /\ sessionID' = serves /\ listener'[g] = "read"
        /\ UNCHANGED <<sequence, current, gens, opener, serves, position, stored, givenUp, unheeded, clearing>>
    BY <1>4, <2>1 DEF onReady, Readies, openers, discord, Process, TypeOK
  <2>3. Exact' /\ Reads'
    BY <2>1, <2>2 DEF Readies, Exact, Reads
  <2>4. Listens(g)'
    BY <2>2, <2>3 DEF Listens, Clears
  <2> QED BY <1>1, <1>2, <2>2, <2>3, <2>4 DEF Kept, Opening
<1>5. CASE ListenerClears(g)
  <2>1. /\ UNCHANGED <<current, gens, opener, stored, givenUp, unheeded, clearing>> /\ AllEnded
    BY <1>2, <1>5 DEF ListenerClears, Listens, Clears, openers
  <2>2. AllEnded'
    BY <2>1 DEF AllEnded
  <2>3. CASE listener[g] = "clear"
    <3>1. listener'[g] = "zero" /\ sessionID' = 0
      BY <1>5, <2>3 DEF ListenerClears, ClearSession, ClearedSession, TypeOK
    <3>2. Listens(g)'
      BY <2>2, <3>1 DEF Listens, Clears
    <3> QED BY <1>1, <1>2, <2>1, <3>1, <3>2 DEF Kept, Opening, Idle
  <2>4. CASE listener[g] = "zero"
    <3>1. listener'[g] = "finish" /\ sessionID' = 0
      BY <1>2, <1>5, <2>4 DEF ListenerClears, ZeroSequence, Listens, Clears, TypeOK
    <3>2. Exact'
      BY <2>2, <3>1 DEF Exact, AllEnded
    <3>3. Listens(g)'
      BY <2>2, <3>1 DEF Listens, Clears
    <3> QED BY <1>1, <1>2, <2>1, <3>2, <3>3 DEF Kept, Opening
  <2> QED BY <1>5, <2>3, <2>4 DEF ListenerClears
<1> QED BY <1>3, <1>4, <1>5

(* The listener finishes its generation, and whoever ended it clears.      *)
LEMMA FinishingKeepsData ==
    ASSUME TypeOK, Shape, Started, Datum, NEW g \in Gens, ListenerFinishes(g)
    PROVE  Datum'
<1> USE DEF Datum, Shape
<1>0. /\ \A h \in Gens : h \in Nat /\ h # 0
      /\ current # 0 => current = gens /\ current \in Gens
  BY GensOf
<1>4. PICK clears \in BOOLEAN : Ends(g, clears) /\ (clears => msg[g].recovery = "Identify")
  BY ListenerEnds
<1>1. /\ listener[g] = "finish" /\ listener'[g] = "none" /\ Ends(g, clears)
      /\ \A h \in Gens : h # g => listener'[h] = listener[h] /\ msg'[h] = msg[h]
      /\ UNCHANGED <<sessionID, sequence, gens, stored, givenUp, unheeded>>
  BY <1>4 DEF ListenerFinishes, Ends, Process, TypeOK, data, history
<1>2. CASE current = g
  <2>1. /\ current' = 0 /\ opener' = "none" /\ clearing[g] = "none"
        /\ clearing'[g] = IF clears THEN "clear" ELSE "none"
    BY <1>1, <1>2 DEF Ends, TypeOK
  <2>2. g = gens /\ Exact
    BY <1>0, <1>1, <1>2, <2>1 DEF Kept, Idle
  <2>3. clears => AllEnded
    BY <1>1, <1>2, <1>4 DEF Listens, Clears
  <2>4. Kept'
    BY <1>1, <2>1, <2>2, <2>3 DEF Kept, Exact, AllEnded
  <2> QED BY <1>0, <2>1, <2>4 DEF Opening
<1>3. CASE current # g
  <2>1. UNCHANGED <<current, opener, readSequence, readSession, serves, position, clearing>>
    BY <1>1, <1>3 DEF Ends, openers
  <2>2. Kept'
    BY <1>1, <2>1 DEF Kept, Exact, AllEnded, Idle
  <2>3. ASSUME NEW h \in Gens, h = current' PROVE Listens(h)'
    <3>1. h # g /\ h = current /\ Listens(h)
      BY <1>3, <2>1, <2>3
    <3> QED BY <1>1, <2>1, <3>1 DEF Listens, Reads, Stores, Exact, Readies, Clears, AllEnded
  <2> QED BY <1>1, <2>1, <2>2, <2>3 DEF Opening
<1> QED BY <1>2, <1>3

LEMMA ClearingKeepsData ==
    ASSUME TypeOK, Shape, Started, Datum, ~late', NEW g \in Gens, invalidateGatewaySession(g)
    PROVE  Datum'
<1> USE DEF Datum, Shape
<1>0. /\ \A h \in Gens : h \in Nat /\ h # 0
      /\ current # 0 => current = gens /\ current \in Gens
  BY GensOf
<1>1. g = gens
  BY InTime DEF invalidateGatewaySession
<1>2. /\ current = 0 /\ clearing[g] \in {"clear", "zero"} /\ opener = "none"
      /\ UNCHANGED <<current, gens, opener, listener, stored, givenUp, unheeded>>
  BY <1>0, <1>1 DEF invalidateGatewaySession, openers, listeners
<1>3. listener[g] \in Idle => AllEnded /\ (clearing[g] = "zero" => sessionID = 0)
  BY <1>1, <1>2 DEF Kept
<1>4. \/ clearing[g] = "clear" /\ sessionID' = 0 /\ clearing'[g] = "zero"
      \/ clearing[g] = "zero" /\ sessionID' = sessionID /\ clearing'[g] = "none"
  BY DEF invalidateGatewaySession, ClearSession, ClearedSession, ZeroSequence, TypeOK
<1>5. listener'[g] \in Idle => sessionID' = 0 /\ AllEnded'
  BY <1>2, <1>3, <1>4 DEF AllEnded
<1>6. Kept'
  BY <1>1, <1>2, <1>5 DEF Kept, Exact, AllEnded
<1> QED BY <1>0, <1>2, <1>6 DEF Opening

LEMMA DataKept == ASSUME TypeOK, Shape, Started, Data, [Next]_vars PROVE Data'
<1> SUFFICES ASSUME Quiet' PROVE Datum'
  BY DEF Data, Datum
<1>1. Datum
  BY QuietBefore DEF Data, Datum
<1>2. ~late'
  BY DEF Quiet
<1>3. CASE UNCHANGED vars
  BY <1>1, <1>3 DEF vars, data, openers, listeners, discord, history, Datum, Kept, Opening, Listens,
                    Reads, Stores, Readies, Clears, Exact, AllEnded
<1> QED BY <1>1, <1>2, <1>3, OpenerKeepsData, EndKeepsData, ReadingKeepsData, StoringKeepsData,
           FinishingKeepsData, ClearingKeepsData DEF Next

-----------------------------------------------------------------------------
LEMMA InitIInv == Init => IInv
<1> SUFFICES ASSUME Init PROVE IInv
  OBVIOUS
<1>1. TypeOK
  <2>1. 0 \in 0 .. MaxGen /\ 0 \in SessionIDs /\ 0 \in 0 .. MaxSeq
    BY Bounds DEF SessionIDs
  <2>2. /\ listener \in [Gens -> {"none", "read", "store", "ready", "clear", "zero", "finish"}]
        /\ msg \in [Gens -> Messages] /\ clearing \in [Gens -> {"none", "clear", "zero"}]
        /\ sent \in [Sessions -> 0 .. MaxSeq] /\ stored \in [Sessions -> 0 .. MaxSeq]
    BY <2>1, Bounds DEF Init
  <2> QED BY <2>1, <2>2, Bounds DEF Init, TypeOK
<1>2. Shape
  BY DEF Init, Shape, Gens
<1>4. Started
  <2>1. \A g \in Gens : msg[g].session = 0
    BY Bounds DEF Init
  <2> QED BY <2>1 DEF Init, Started
<1>3. Datum
  BY DEF Init, Datum, Kept, Exact, Opening, Gens
<1> QED BY <1>1, <1>2, <1>3, <1>4 DEF IInv, Data, Datum

LEMMA NextIInv == IInv /\ [Next]_vars => IInv'
BY TypesKept, ShapeKept, StartedKept, DataKept DEF IInv

(* An opener about to authenticate in time has read the data that are kept.*)
LEMMA ReadsExact ==
    ASSUME IInv, Authenticates, Quiet
    PROVE  /\ Exact /\ readSession = sessionID /\ readSequence = sequence
           /\ 0 \notin givenUp /\ 0 \notin Sessions
<1>1. current = gens /\ listener[current] = "read" /\ clearing[current] = "none" /\ current \in Gens
  BY GensOf DEF IInv, Shape, Authenticates
<1>2. Exact
  BY <1>1 DEF IInv, Data, Kept, Idle
<1> QED BY <1>2, GensOf DEF IInv, Data, Opening, Authenticates

-----------------------------------------------------------------------------
(* What is stored for a resume, and what the goroutines have read of it,   *)
(* keeps its type.                                                         *)
THEOREM TypeCorrect == Spec => []TypeOK
<1>1. IInv => TypeOK
  BY DEF IInv
<1> QED BY <1>1, InitIInv, NextIInv, PTL DEF Spec

(* Unless a write came late, a Resume asks for exactly the dispatches that *)
(* were not processed.                                                     *)
THEOREM ResumesAreExact == Spec => []ResumeExact
<1>1. IInv => ResumeExact
  BY ReadsExact DEF ResumeExact, Exact
<1> QED BY <1>1, InitIInv, NextIInv, PTL DEF Spec

(* Unless a write came late, a session that Discord or the user has ended  *)
(* is not resumed, but for one whose end was told in place of HELLO while  *)
(* the lifetime was being cancelled.                                       *)
THEOREM EndedIsNotResumed == Spec => []EndedNotResumed
<1>1. IInv => EndedNotResumed
  BY ReadsExact DEF EndedNotResumed, Exact
<1> QED BY <1>1, InitIInv, NextIInv, PTL DEF Spec

(* Unless a write came late, no Identify is sent while a session that was  *)
(* not ended could be resumed.                                             *)
THEOREM IdentifiesWhenEnded == Spec => []IdentifyOnlyWhenEnded
<1>1. IInv => IdentifyOnlyWhenEnded
  BY ReadsExact DEF IdentifyOnlyWhenEnded, Exact
<1> QED BY <1>1, InitIInv, NextIInv, PTL DEF Spec
=============================================================================
