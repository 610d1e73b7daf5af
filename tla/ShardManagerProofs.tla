------------------------- MODULE ShardManagerProofs -------------------------
(***************************************************************************)
(* Proofs about ShardManager for any callers, shards and number of Opens:  *)
(* type correctness, that the shards are where the manager's state says,   *)
(* and that its calls take turns.                                          *)
(***************************************************************************)
EXTENDS ShardManager, TLAPS

-----------------------------------------------------------------------------
(* The inductive invariant.                                                *)

(* A call of Open, or of a Close that found the manager not closed, is     *)
(* under way.                                                              *)
Opens(c) == pc[c] \in {"opening", "opened", "cleanup"}
Closes(c) == pc[c] \in {"cancel", "awaitOpen", "decide", "closeCleanup"}

(* One Open and one Close may be under way together; then the Close waits  *)
(* for the channel of that Open, and has not touched the shards.           *)
Turns ==
    /\ \A c, d \in Callers : Opens(c) /\ Opens(d) => c = d
    /\ \A c, d \in Callers : Closes(c) /\ Closes(d) => c = d
    /\ \A c \in Callers : Opens(c) => state \in {"opening", "closing"}
    /\ \A c \in Callers : Closes(c) => state = "closing"
    /\ \A c, d \in Callers : Closes(c) /\ Opens(d) =>
           pc[c] \in {"cancel", "awaitOpen"} /\ awaits[c] = opens

(* The fields and the channels belong to the last Open.                    *)
Lifetimes ==
    /\ state # "closed" => opens # 0
    /\ \A c \in Callers : Opens(c) \/ Closes(c) => cycle[c] = opens
    /\ \A c \in Callers : Opens(c) => openDone = opens /\ opens \notin openEnded
    /\ state \in {"opening", "open"} => cancel = opens
    /\ state = "closing" => closeDone = opens
    /\ \A c \in Callers : pc[c] = "awaitClose" => awaits[c] <= opens
    /\ \A l \in openEnded \cup closeEnded : l <= opens
    /\ opens \in closeEnded => state = "closed"

(* Who cleans up has closed the shards its goroutines are done with, and   *)
(* nobody opens one again before the next Open.                            *)
Cleaning ==
    /\ OpenShardsAreCurrent
    /\ state = "closed" => \A s \in Shards : session[s] = 0
    /\ state \in {"opening", "open"} => ~cleanupCompleted
    /\ \A c \in Callers : Opens(c) => ~cleanupCompleted
    /\ state = "closing" /\ cleanupCompleted => \A s \in Shards : session[s] = 0
    /\ \A c \in Callers : pc[c] \in {"cleanup", "closeCleanup"} =>
           \A s \in Shards :
               worker[c][s] = "running" \/ (worker[c][s] = "done" /\ session[s] = 0)
    /\ \A c \in Callers : pc[c] \notin {"opening", "cleanup", "closeCleanup"} => ~Working(c)

IInv == TypeOK /\ Turns /\ Lifetimes /\ Cleaning

-----------------------------------------------------------------------------
(* Type correctness.                                                       *)
FieldTypes ==
    /\ state \in States
    /\ cancel \in 0 .. MaxOpens /\ openDone \in 0 .. MaxOpens
    /\ closeDone \in 0 .. MaxOpens /\ opens \in 0 .. MaxOpens
    /\ cleanupCompleted \in BOOLEAN
    /\ openEnded \in SUBSET Cycles /\ closeEnded \in SUBSET Cycles
    /\ cancelled \in SUBSET Cycles
    /\ session \in [Shards -> 0 .. MaxOpens]

CallTypes ==
    /\ pc \in [Callers -> CallerStates]
    /\ cycle \in [Callers -> 0 .. MaxOpens]
    /\ awaits \in [Callers -> 0 .. MaxOpens]
    /\ failed \in [Callers -> BOOLEAN]

WorkerTypes == worker \in [Callers -> [Shards -> {"none", "running", "done", "failed"}]]

LEMMA InParts ==
    /\ TypeOK <=> FieldTypes /\ CallTypes /\ WorkerTypes
    /\ TypeOK' <=> FieldTypes' /\ CallTypes' /\ WorkerTypes'
BY DEF TypeOK, FieldTypes, CallTypes, WorkerTypes

(* What a goroutine reports, and a new set of goroutines for a call.       *)
LEMMA ReportTyped ==
    ASSUME WorkerTypes, NEW c \in Callers, NEW s \in Shards,
           NEW outcome \in {"done", "failed"}, Reports(c, s, outcome)
    PROVE  WorkerTypes'
<1>1. [worker[c] EXCEPT ![s] = outcome] \in [Shards -> {"none", "running", "done", "failed"}]
  BY DEF WorkerTypes
<1> QED BY <1>1 DEF WorkerTypes, Reports

LEMMA WorkersTyped ==
    ASSUME WorkerTypes, NEW c \in Callers, NEW w \in {"none", "running", "done"},
           worker' = [worker EXCEPT ![c] = [s \in Shards |-> w]]
    PROVE  WorkerTypes'
<1>1. [s \in Shards |-> w] \in [Shards -> {"none", "running", "done", "failed"}]
  OBVIOUS
<1> QED BY <1>1 DEF WorkerTypes

(* A call that is under way works for a lifetime that was begun.           *)
LEMMA CycleBegun ==
    ASSUME IInv, NEW c \in Callers, Opens(c) \/ Closes(c) PROVE cycle[c] \in Cycles
<1>1. state # "closed"
  BY DEF IInv, Turns
<1>2. cycle[c] = opens /\ opens # 0 /\ opens \in 0 .. MaxOpens
  BY <1>1 DEF IInv, Lifetimes, TypeOK
<1> QED BY <1>2, MaxOpensAssumption DEF Cycles

(* A call that moves or returns.                                           *)
LEMMA Moves ==
    ASSUME TypeOK, NEW c \in Callers, NEW label \in CallerStates, Goto(c, label)
    PROVE  /\ pc'[c] = label
           /\ \A d \in Callers : d # c => pc'[d] = pc[d]
BY DEF TypeOK, Goto

LEMMA Returns ==
    ASSUME TypeOK, NEW c \in Callers, Return(c)
    PROVE  /\ pc'[c] = "idle"
           /\ \A d \in Callers : d # c => /\ pc'[d] = pc[d] /\ cycle'[d] = cycle[d]
                                          /\ awaits'[d] = awaits[d]
           /\ \A s \in Shards : worker'[c][s] = "none"
           /\ \A d \in Callers : d # c => worker'[d] = worker[d]
<1>1. pc'[c] = "idle" /\ \A d \in Callers : d # c => pc'[d] = pc[d]
  BY DEF TypeOK, Return, Goto
<1>2. \A d \in Callers : d # c => cycle'[d] = cycle[d] /\ awaits'[d] = awaits[d]
  BY DEF TypeOK, Return
<1>3. worker'[c] = [s \in Shards |-> "none"] /\ \A d \in Callers : d # c => worker'[d] = worker[d]
  BY DEF TypeOK, Return
<1> QED BY <1>1, <1>2, <1>3

LEMMA TypesKept == ASSUME IInv, [Next]_vars PROVE TypeOK'
<1>1. FieldTypes /\ CallTypes /\ WorkerTypes
  BY InParts DEF IInv
<1> USE MaxOpensAssumption
<1>2. ASSUME NEW c \in Callers, Open(c) PROVE TypeOK'
  <2>1. opens + 1 \in 0 .. MaxOpens
    BY <1>1, <1>2 DEF Open, FieldTypes
  <2>2. FieldTypes'
    BY <1>1, <1>2, <2>1 DEF FieldTypes, Open, CleanupAtOpen, States, channels
  <2>3. CallTypes'
    BY <1>1, <1>2, <2>1 DEF CallTypes, Open, Goto, CallerStates
  <2>4. WorkerTypes'
    BY <1>1, <1>2, WorkersTyped DEF Open, Start
  <2> QED BY <2>2, <2>3, <2>4, InParts
<1>3. ASSUME NEW c \in Callers, NEW s \in Shards, openSession(c, s) \/ closeSession(c, s)
      PROVE  TypeOK'
  <2>1. openSession(c, s) => cycle[c] \in Cycles
    BY CycleBegun DEF openSession, Opens
  <2>2. FieldTypes'
    <3>1. UNCHANGED <<manager, opens, channels>>
      BY <1>3 DEF openSession, closeSession
    <3>2. session' \in [Shards -> 0 .. MaxOpens]
      BY <1>1, <1>3 DEF FieldTypes, CallTypes, openSession, closeSession
    <3>3. cancelled' \in SUBSET Cycles
      BY <1>1, <1>3, <2>1 DEF FieldTypes, openSession, closeSession
    <3> QED BY <1>1, <3>1, <3>2, <3>3 DEF FieldTypes, manager, channels
  <2>3. CallTypes'
    BY <1>1, <1>3 DEF CallTypes, openSession, closeSession
  <2>4. WorkerTypes'
    BY <1>1, <1>3, ReportTyped DEF openSession, closeSession
  <2> QED BY <2>2, <2>3, <2>4, InParts
<1>4. ASSUME NEW c \in Callers, OpenSucceeds(c) \/ OpenCleanedUp(c) \/ CloseCleanedUp(c)
      PROVE  TypeOK'
  <2>1. cycle[c] \in Cycles
    BY <1>4, CycleBegun DEF OpenSucceeds, OpenCleanedUp, CloseCleanedUp, Opens, Closes
  <2>2. FieldTypes'
    <3>1. CASE OpenSucceeds(c)
      BY <1>1, <2>1, <3>1 DEF FieldTypes, OpenSucceeds, States, OpenEnds
    <3>2. CASE OpenCleanedUp(c)
      BY <1>1, <2>1, <3>2 DEF FieldTypes, OpenCleanedUp, States, OpenEnds
    <3>3. CASE CloseCleanedUp(c)
      BY <1>1, <2>1, <3>3 DEF FieldTypes, CloseCleanedUp, States
    <3> QED BY <1>4, <3>1, <3>2, <3>3
  <2>3. Return(c)
    BY <1>4 DEF OpenSucceeds, OpenCleanedUp, CloseCleanedUp
  <2>4. CallTypes'
    BY <1>1, <2>3 DEF CallTypes, Return, Goto, CallerStates
  <2>5. WorkerTypes'
    BY <1>1, <2>3, WorkersTyped DEF Return
  <2> QED BY <2>2, <2>4, <2>5, InParts
<1>5. ASSUME NEW c \in Callers, OpenFails(c) \/ DecideCleanup(c) \/ AwaitClose(c)
      PROVE  TypeOK'
  <2>1. FieldTypes'
    BY <1>1, <1>5 DEF FieldTypes, OpenFails, DecideCleanup, AwaitClose, manager, channels
  <2>2. CallTypes'
    <3>1. CASE OpenFails(c) \/ DecideCleanup(c)
      BY <1>1, <3>1 DEF CallTypes, OpenFails, DecideCleanup, Goto, CallerStates
    <3>2. CASE AwaitClose(c)
      BY <1>1, <3>2 DEF CallTypes, AwaitClose, Return, Goto, CallerStates
    <3> QED BY <1>5, <3>1, <3>2
  <2>3. \E w \in {"none", "running", "done"} :
            worker' = [worker EXCEPT ![c] = [s \in Shards |-> w]]
    <3>1. CASE OpenFails(c) \/ AwaitClose(c)
      BY <3>1 DEF OpenFails, Start, AwaitClose, Return
    <3>2. CASE DecideCleanup(c) /\ cleanupCompleted
      BY <3>2 DEF DecideCleanup
    <3>3. CASE DecideCleanup(c) /\ ~cleanupCompleted
      BY <3>3 DEF DecideCleanup
    <3> QED BY <1>5, <3>1, <3>2, <3>3
  <2> QED BY <1>1, <2>1, <2>2, <2>3, WorkersTyped, InParts
<1>6. ASSUME NEW c \in Callers, Close(c) PROVE TypeOK'
  <2>1. FieldTypes'
    BY <1>1, <1>6 DEF FieldTypes, Close, States, channels
  <2>2. CallTypes'
    BY <1>1, <1>6 DEF FieldTypes, CallTypes, Close, Goto, CallerStates
  <2>3. WorkerTypes'
    BY <1>1, <1>6 DEF WorkerTypes, Close
  <2> QED BY <2>1, <2>2, <2>3, InParts
<1>7. ASSUME NEW c \in Callers, CollectErrors(c) \/ CancelLifetime(c) \/ AwaitOpen(c)
      PROVE  TypeOK'
  <2>1. CancelLifetime(c) => cycle[c] \in Cycles
    BY CycleBegun DEF CancelLifetime, Closes
  <2>2. FieldTypes'
    BY <1>1, <1>7, <2>1
       DEF FieldTypes, CollectErrors, CancelLifetime, AwaitOpen, manager, channels
  <2>3. CallTypes'
    BY <1>1, <1>7 DEF CallTypes, CollectErrors, CancelLifetime, AwaitOpen, Goto, CallerStates
  <2>4. WorkerTypes'
    BY <1>1, <1>7 DEF WorkerTypes, CollectErrors, CancelLifetime, AwaitOpen
  <2> QED BY <2>2, <2>3, <2>4, InParts
<1>8. CASE \/ \E s \in Shards : SessionEnds(s)
           \/ \E l \in Cycles : CancelContext(l)
           \/ UNCHANGED vars
  BY <1>1, <1>8, InParts DEF FieldTypes, CallTypes, WorkerTypes, SessionEnds, CancelContext,
     vars, manager, channels, callers
<1> QED BY <1>2, <1>3, <1>4, <1>5, <1>6, <1>7, <1>8 DEF Next, Continue

-----------------------------------------------------------------------------
(* One Open and one Close at a time.                                       *)
LEMMA TurnsKept == ASSUME IInv, [Next]_vars PROVE Turns'
<1>1. ASSUME NEW c \in Callers, Open(c) PROVE Turns'
  BY <1>1 DEF IInv, TypeOK, Turns, Opens, Closes, Open, Goto
<1>2. ASSUME NEW c \in Callers, CollectErrors(c) \/ OpenFails(c) PROVE Turns'
  BY <1>2 DEF IInv, TypeOK, Turns, Opens, Closes, CollectErrors, OpenFails, Goto, manager
<1>3. ASSUME NEW c \in Callers, OpenSucceeds(c) \/ OpenCleanedUp(c) PROVE Turns'
  <2>1. Return(c) /\ Opens(c) /\ UNCHANGED opens
    BY <1>3 DEF OpenSucceeds, OpenCleanedUp, Opens
  <2>2. /\ \A d \in Callers : ~(Opens(d))'
        /\ \A d \in Callers : (Closes(d))' => Closes(d) /\ d # c
    BY <2>1, Returns DEF IInv, Turns, Opens, Closes
  <2>3. state = "closing" => state' = "closing"
    BY <1>3 DEF OpenSucceeds, Succeeds, OpenCleanedUp
  <2> QED BY <2>2, <2>3 DEF IInv, Turns
<1>4. ASSUME NEW c \in Callers, Close(c) PROVE Turns'
  <2>1. CASE pc' = [pc EXCEPT ![c] = "awaitClose"] /\ state = "closing"
             /\ awaits' = [awaits EXCEPT ![c] = closeDone] /\ UNCHANGED <<opens, state>>
    BY <1>4, <2>1 DEF IInv, TypeOK, Turns, Opens, Closes, Close
  <2>2. CASE pc' = [pc EXCEPT ![c] = "cancel"] /\ state # "closing" /\ state' = "closing"
             /\ awaits' = [awaits EXCEPT ![c] = openDone] /\ UNCHANGED opens
    <3>1. \A d \in Callers : ~Closes(d) /\ (Opens(d) => openDone = opens)
      BY <2>2 DEF IInv, Turns, Lifetimes
    <3>2. \A d \in Callers : /\ (Opens(d))' => Opens(d)
                             /\ (Closes(d))' => d = c
      BY <1>4, <2>2, <3>1 DEF IInv, TypeOK, Opens, Closes, Close
    <3>3. pc'[c] = "cancel" /\ awaits'[c] = openDone
      BY <2>2 DEF IInv, TypeOK
    <3> QED BY <2>2, <3>1, <3>2, <3>3 DEF IInv, Turns
  <2> QED BY <1>4, <2>1, <2>2 DEF Close, Goto
<1>5. ASSUME NEW c \in Callers, CancelLifetime(c) PROVE Turns'
  BY <1>5 DEF IInv, TypeOK, Turns, Opens, Closes, CancelLifetime, Goto, manager
<1>6. ASSUME NEW c \in Callers, AwaitOpen(c) PROVE Turns'
  <2>1. Closes(c) /\ Awaited(c)
    BY <1>6 DEF AwaitOpen, Closes
  <2>2. \A d \in Callers : ~Opens(d)
    BY <2>1 DEF IInv, Turns, Lifetimes, Awaited
  <2> QED BY <1>6, <2>2 DEF IInv, TypeOK, Turns, Opens, Closes, AwaitOpen, Goto, manager
<1>7. ASSUME NEW c \in Callers, DecideCleanup(c) PROVE Turns'
  BY <1>7 DEF IInv, TypeOK, Turns, Opens, Closes, DecideCleanup, Goto, manager
<1>8. ASSUME NEW c \in Callers, CloseCleanedUp(c) \/ AwaitClose(c) PROVE Turns'
  <2>1. Return(c) /\ UNCHANGED opens
    BY <1>8 DEF CloseCleanedUp, AwaitClose
  <2>2. \A d \in Callers : /\ (Opens(d))' => Opens(d) /\ d # c
                           /\ (Closes(d))' => Closes(d) /\ d # c /\ UNCHANGED <<pc[d], awaits[d]>>
    BY <2>1, Returns DEF IInv, Opens, Closes
  <2>3. CASE CloseCleanedUp(c)
    <3>1. \A d \in Callers : ~(Opens(d))' /\ ~(Closes(d))'
      BY <2>2, <2>3 DEF IInv, Turns, CloseCleanedUp, Closes
    <3> QED BY <3>1 DEF Turns
  <2>4. CASE AwaitClose(c)
    BY <2>1, <2>2, <2>4 DEF IInv, Turns, AwaitClose, manager
  <2> QED BY <1>8, <2>3, <2>4
<1>9. CASE \/ \E c \in Callers, s \in Shards : openSession(c, s) \/ closeSession(c, s)
           \/ \E s \in Shards : SessionEnds(s)
           \/ \E l \in Cycles : CancelContext(l)
           \/ UNCHANGED vars
  <2>1. UNCHANGED <<pc, awaits, state, opens>>
    BY <1>9 DEF openSession, closeSession, SessionEnds, CancelContext, vars, manager, callers
  <2> QED BY <2>1 DEF IInv, Turns, Opens, Closes
<1> QED BY <1>1, <1>2, <1>3, <1>4, <1>5, <1>6, <1>7, <1>8, <1>9 DEF Next, Continue

-----------------------------------------------------------------------------
(* Fields, channels and lifetimes.                                         *)
LEMMA LifetimesKept == ASSUME IInv, [Next]_vars PROVE Lifetimes'
<1>1. ASSUME NEW c \in Callers, Open(c) \/ Close(c) PROVE Lifetimes'
  <2>1. CASE Open(c)
    BY <2>1 DEF IInv, TypeOK, Turns, Lifetimes, Cycles, Opens, Closes, Open, Goto, channels
  <2>2. CASE Close(c)
    <3>1. CASE state = "closing"
      BY <2>2, <3>1 DEF IInv, TypeOK, Turns, Lifetimes, Opens, Closes, Close, Goto, channels
    <3>2. CASE state # "closing"
      BY <2>2, <3>2 DEF IInv, TypeOK, Turns, Lifetimes, Opens, Closes, Close, Goto, channels
    <3> QED BY <3>1, <3>2
  <2> QED BY <1>1, <2>1, <2>2
<1>2. ASSUME NEW c \in Callers,
             \/ CollectErrors(c) \/ OpenFails(c) \/ CancelLifetime(c) \/ AwaitOpen(c)
             \/ DecideCleanup(c) \/ AwaitClose(c)
      PROVE  Lifetimes'
  <2>1. UNCHANGED <<manager, opens, channels>>
    BY <1>2 DEF CollectErrors, OpenFails, CancelLifetime, AwaitOpen, DecideCleanup, AwaitClose
  <2>2. CASE AwaitClose(c)
    BY <2>1, <2>2, Returns DEF IInv, Lifetimes, Opens, Closes, AwaitClose, manager, channels
  <2>3. CASE ~AwaitClose(c)
    <3>1. UNCHANGED <<cycle, awaits>>
      BY <1>2, <2>3 DEF CollectErrors, OpenFails, CancelLifetime, AwaitOpen, DecideCleanup
    <3>2. \A d \in Callers : /\ (Opens(d))' <=> Opens(d)
                             /\ (Closes(d))' <=> Closes(d)
                             /\ pc'[d] = "awaitClose" <=> pc[d] = "awaitClose"
      BY <1>2, <2>3 DEF IInv, TypeOK, Opens, Closes, CollectErrors, OpenFails, CancelLifetime,
         AwaitOpen, DecideCleanup, Goto
    <3> QED BY <2>1, <3>1, <3>2 DEF IInv, Lifetimes, manager, channels
  <2> QED BY <2>2, <2>3
<1>3. ASSUME NEW c \in Callers, OpenSucceeds(c) PROVE Lifetimes'
  BY <1>3 DEF IInv, TypeOK, Turns, Lifetimes, Cycles, Opens, Closes, OpenSucceeds, Succeeds,
     OpenEnds, Return, Goto
<1>4. ASSUME NEW c \in Callers, OpenCleanedUp(c) PROVE Lifetimes'
  BY <1>4 DEF IInv, TypeOK, Turns, Lifetimes, Cycles, Opens, Closes, OpenCleanedUp, OpenEnds,
     Return, Goto
<1>5. ASSUME NEW c \in Callers, CloseCleanedUp(c) PROVE Lifetimes'
  BY <1>5 DEF IInv, TypeOK, Turns, Lifetimes, Cycles, Opens, Closes, CloseCleanedUp, Return,
     Goto
<1>6. CASE \/ \E c \in Callers, s \in Shards : openSession(c, s) \/ closeSession(c, s)
           \/ \E s \in Shards : SessionEnds(s)
           \/ \E l \in Cycles : CancelContext(l)
           \/ UNCHANGED vars
  <2>1. UNCHANGED <<manager, opens, channels, pc, cycle, awaits>>
    BY <1>6 DEF openSession, closeSession, SessionEnds, CancelContext, vars, callers
  <2> QED BY <2>1 DEF IInv, Lifetimes, Opens, Closes, manager, channels
<1> QED BY <1>1, <1>2, <1>3, <1>4, <1>5, <1>6 DEF Next, Continue

-----------------------------------------------------------------------------
(* The shards and who closes them.                                         *)
LEMMA CleaningKept == ASSUME IInv, [Next]_vars PROVE Cleaning'
<1> USE DEF IInv, TypeOK, Turns, Cleaning, Opens, Closes, Working, OpenShardsAreCurrent
<1>1. ASSUME NEW c \in Callers, Open(c) \/ Close(c) PROVE Cleaning'
  <2>1. CASE Open(c)
    <3>1. \A d \in Callers : ~Opens(d) /\ pc[d] # "closeCleanup"
      BY <2>1 DEF Open
    <3>2. \A d \in Callers : d # c => pc'[d] = pc[d] /\ worker'[d] = worker[d]
      BY <2>1 DEF Open, Goto, Start
    <3>3. pc'[c] = "opening"
      BY <2>1 DEF Open, Goto
    <3> QED BY <2>1, <3>1, <3>2, <3>3 DEF Open, CleanupAtOpen
  <2>2. CASE Close(c)
    <3>1. ~Opens(c) /\ ~(Opens(c))' /\ ~Working(c)
      BY <2>2 DEF Close, Goto
    <3>2. \A d \in Callers : d # c => pc'[d] = pc[d]
      BY <2>2 DEF Close, Goto
    <3>3. pc'[c] \in {"awaitClose", "cancel"}
      BY <2>2 DEF Close, Goto
    <3>4. state' = state \/ (state \in {"opening", "open"} /\ state' = "closing")
      BY <2>2 DEF Close
    <3> QED BY <2>2, <3>1, <3>2, <3>3, <3>4 DEF Close
  <2> QED BY <1>1, <2>1, <2>2
<1>2. ASSUME NEW c \in Callers, NEW s \in Shards, openSession(c, s) PROVE Cleaning'
  <2>1. pc[c] = "opening" /\ cycle[c] = opens /\ UNCHANGED <<manager, opens, pc>>
    BY <1>2 DEF openSession, Lifetimes
  <2>2. state \in {"opening", "closing"} /\ ~cleanupCompleted
    BY <2>1
  <2>3. \A d \in Callers : d # c => worker'[d] = worker[d]
    BY <1>2 DEF openSession, Reports
  <2>4. \A d \in Callers : pc[d] \notin {"cleanup", "closeCleanup"}
    BY <2>1
  <2>5. \A t \in Shards : session'[t] \in {session[t], opens}
    BY <1>2, <2>1 DEF openSession
  <2> QED BY <2>1, <2>2, <2>3, <2>4, <2>5 DEF manager
<1>3. ASSUME NEW c \in Callers, NEW s \in Shards, closeSession(c, s) PROVE Cleaning'
  BY <1>3 DEF closeSession, Reports, manager
<1>4. ASSUME NEW c \in Callers, CollectErrors(c) \/ OpenFails(c) \/ OpenSucceeds(c)
      PROVE  Cleaning'
  <2>1. CASE CollectErrors(c)
    BY <2>1 DEF CollectErrors, AllReturned, Goto, manager
  <2>2. CASE OpenFails(c)
    <3>1. pc'[c] = "cleanup" /\ \A s \in Shards : worker'[c][s] = "running"
      BY <2>2 DEF OpenFails, Start, Goto
    <3>2. \A d \in Callers : d # c => pc'[d] = pc[d] /\ worker'[d] = worker[d]
      BY <2>2 DEF OpenFails, Start, Goto
    <3>3. UNCHANGED <<state, cleanupCompleted, session, opens>> /\ Opens(c)
      BY <2>2 DEF OpenFails, manager
    <3> QED BY <3>1, <3>2, <3>3
  <2>3. CASE OpenSucceeds(c)
    BY <2>3, Returns DEF OpenSucceeds, Succeeds
  <2> QED BY <1>4, <2>1, <2>2, <2>3
<1>5. ASSUME NEW c \in Callers, OpenCleanedUp(c) PROVE Cleaning'
  BY <1>5 DEF OpenCleanedUp, AllReturned, Return, Goto
<1>6. ASSUME NEW c \in Callers, CancelLifetime(c) \/ AwaitOpen(c) \/ AwaitClose(c)
      PROVE  Cleaning'
  BY <1>6 DEF CancelLifetime, AwaitOpen, AwaitClose, Return, Goto, manager
<1>7. ASSUME NEW c \in Callers, DecideCleanup(c) PROVE Cleaning'
  BY <1>7 DEF DecideCleanup, Goto, manager
<1>8. ASSUME NEW c \in Callers, CloseCleanedUp(c) PROVE Cleaning'
  BY <1>8 DEF CloseCleanedUp, AllReturned, Return, Goto
<1>9. CASE \/ \E s \in Shards : SessionEnds(s)
           \/ \E l \in Cycles : CancelContext(l)
           \/ UNCHANGED vars
  BY <1>9 DEF SessionEnds, CancelContext, vars, manager, callers
<1> QED BY <1>1, <1>2, <1>3, <1>4, <1>5, <1>6, <1>7, <1>8, <1>9 DEF Next, Continue

-----------------------------------------------------------------------------
LEMMA InitIInv == Init => IInv
<1> SUFFICES ASSUME Init PROVE IInv
  OBVIOUS
<1>1. TypeOK
  <2>1. 0 \in 0 .. MaxOpens
    BY MaxOpensAssumption
  <2>2. FieldTypes
    BY <2>1 DEF Init, FieldTypes, States
  <2>3. CallTypes
    BY <2>1 DEF Init, CallTypes, CallerStates
  <2>4. WorkerTypes
    BY Zenon DEF Init, WorkerTypes
  <2> QED BY <2>2, <2>3, <2>4, InParts
<1>2. Turns /\ Lifetimes
  BY DEF Init, Turns, Lifetimes, Opens, Closes
<1>3. Cleaning
  BY DEF Init, Cleaning, Opens, Working, OpenShardsAreCurrent
<1> QED BY <1>1, <1>2, <1>3 DEF IInv

LEMMA NextIInv == IInv /\ [Next]_vars => IInv'
BY TypesKept, TurnsKept, LifetimesKept, CleaningKept DEF IInv

(* The shards are where the state says, and a Close that waited for another*)
(* returns when those of its lifetime are closed.                          *)
LEMMA IInvShards == IInv => ShardsMatchState
<1> SUFFICES ASSUME IInv PROVE ShardsMatchState
  OBVIOUS
<1>1. ClosedMeansNoShard
  BY DEF IInv, Cleaning, Turns, Opens, Closes, ClosedMeansNoShard
<1>2. AwaitedCloseIsDone
  <2> SUFFICES ASSUME NEW c \in Callers, pc[c] = "awaitClose", awaits[c] \in closeEnded,
                      NEW s \in Shards, session[s] # 0
               PROVE  session[s] > awaits[c]
    BY DEF AwaitedCloseIsDone
  <2>1. session[s] = opens /\ state # "closed"
    BY DEF IInv, Cleaning, OpenShardsAreCurrent
  <2>2. awaits[c] # opens /\ awaits[c] <= opens
    BY <2>1 DEF IInv, Lifetimes
  <2> QED BY <2>1, <2>2 DEF IInv, TypeOK
<1>3. OpenShardsAreCurrent
  BY DEF IInv, Cleaning
<1> QED BY <1>1, <1>2, <1>3 DEF ShardsMatchState

LEMMA IInvTurns == IInv => CallsInTurn
<1> SUFFICES ASSUME IInv PROVE CallsInTurn
  OBVIOUS
<1>1. \A c \in Callers : Working(c) => pc[c] \in {"opening", "cleanup", "closeCleanup"}
  BY DEF IInv, Cleaning
<1> QED BY <1>1 DEF IInv, Turns, Opens, Closes, CallsInTurn, OneCallWorks, CloseKeepsClosing

-----------------------------------------------------------------------------
(* The manager's fields and its callers' variables keep their types: a call*)
(* works for a lifetime that was begun, and the channels that were closed  *)
(* are those of lifetimes.                                                 *)
THEOREM TypeCorrect == Spec => []TypeOK
<1>1. IInv => TypeOK
  BY DEF IInv
<1> QED BY <1>1, InitIInv, NextIInv, PTL DEF Spec

(* For any number of callers: a closed manager has no open shard and nobody*)
(* who would open one, a Close that waited for another finds its shards    *)
(* closed, and no shard outlives its lifetime.                             *)
THEOREM ShardsFollowState == Spec => []ShardsMatchState
BY InitIInv, NextIInv, IInvShards, PTL DEF Spec

(* One call at a time works on the shards, and an Open that a Close has    *)
(* interrupted leaves the manager closing.                                 *)
THEOREM CallsTakeTurns == Spec => []CallsInTurn
BY InitIInv, NextIInv, IInvTurns, PTL DEF Spec
=============================================================================
