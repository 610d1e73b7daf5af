---------------------------- MODULE ShardManager ----------------------------
(***************************************************************************)
(* ShardManager (sharding.go): one set of shard Sessions that user         *)
(* goroutines open and close together. Open starts one goroutine per shard;*)
(* the first failure cancels the shared lifetime, and a failed or cancelled*)
(* Open closes every shard itself. Close cancels the lifetime, waits for an*)
(* Open that is under way and closes the shards if Open did not.           *)
(*                                                                         *)
(* A Session is what GatewaySession shows of it: OpenWithContext opens it  *)
(* or fails, Close closes it, and it may end by itself. The lifetime and   *)
(* the channels openDone and closeDone are named after the Open call they  *)
(* belong to, counted from 1; 0 is nil.                                    *)
(***************************************************************************)
EXTENDS Naturals

CONSTANTS
    Callers,    \* goroutines of the program that uses the manager
    Shards,
    MaxOpens    \* bound: Open calls that find the manager closed

ASSUME MaxOpensAssumption == MaxOpens \in Nat \ {0}

Cycles == 1 .. MaxOpens

VARIABLES
    (* fields of ShardManager *)
    state, cancel, openDone, closeDone, cleanupCompleted,
    opens,                      \* Open calls so far
    openEnded, closeEnded,      \* channels that are closed
    cancelled,                  \* lifetimes whose context is done
    session,                    \* the lifetime a shard is open in
    (* callers: state, what Close read, resultErrors, and the goroutine per *)
    (* shard that Open or closeSessions started                             *)
    pc, cycle, awaits, failed, worker

manager == <<state, cancel, openDone, closeDone, cleanupCompleted>>
channels == <<openEnded, closeEnded>>
callers == <<pc, cycle, awaits, failed, worker>>
vars == <<manager, opens, channels, cancelled, session, callers>>

States == {"closed", "opening", "open", "closing"}
CallerStates == {"idle", "opening", "opened", "cleanup", "cancel", "awaitOpen",
                 "decide", "closeCleanup", "awaitClose"}

TypeOK ==
    /\ state \in States
    /\ cancel \in 0 .. MaxOpens /\ openDone \in 0 .. MaxOpens
    /\ closeDone \in 0 .. MaxOpens
    /\ cleanupCompleted \in BOOLEAN
    /\ opens \in 0 .. MaxOpens
    /\ openEnded \in SUBSET Cycles /\ closeEnded \in SUBSET Cycles
    /\ cancelled \in SUBSET Cycles
    /\ session \in [Shards -> 0 .. MaxOpens]
    /\ pc \in [Callers -> CallerStates]
    /\ cycle \in [Callers -> 0 .. MaxOpens]
    /\ awaits \in [Callers -> 0 .. MaxOpens]
    /\ failed \in [Callers -> BOOLEAN]
    /\ worker \in [Callers -> [Shards -> {"none", "running", "done", "failed"}]]

Init ==
    /\ state = "closed" /\ cancel = 0 /\ openDone = 0 /\ closeDone = 0
    /\ cleanupCompleted = FALSE
    /\ opens = 0 /\ openEnded = {} /\ closeEnded = {} /\ cancelled = {}
    /\ session = [s \in Shards |-> 0]
    /\ pc = [c \in Callers |-> "idle"]
    /\ cycle = [c \in Callers |-> 0]
    /\ awaits = [c \in Callers |-> 0]
    /\ failed = [c \in Callers |-> FALSE]
    /\ worker = [c \in Callers |-> [s \in Shards |-> "none"]]

-----------------------------------------------------------------------------
Goto(c, label) == pc' = [pc EXCEPT ![c] = label]

(* Open and closeSessions start one goroutine per shard and wait for all.  *)
Start(c) == worker' = [worker EXCEPT ![c] = [s \in Shards |-> "running"]]
AllReturned(c) == \A s \in Shards : worker[c][s] \notin {"none", "running"}
Reports(c, s, outcome) == worker' = [worker EXCEPT ![c][s] = outcome]

Return(c) ==
    /\ Goto(c, "idle")
    /\ cycle' = [cycle EXCEPT ![c] = 0]
    /\ awaits' = [awaits EXCEPT ![c] = 0]
    /\ failed' = [failed EXCEPT ![c] = FALSE]
    /\ worker' = [worker EXCEPT ![c] = [s \in Shards |-> "none"]]

-----------------------------------------------------------------------------
(* Mutant: cleanupCompleted keeps what the cycle before left.              *)
CleanupAtOpenMutant == cleanupCompleted
CleanupAtOpen == FALSE

(* The ErrShardManagerAlreadyOpen return changes nothing.                  *)
Open(c) ==
    /\ pc[c] = "idle" /\ state = "closed" /\ opens < MaxOpens
    /\ opens' = opens + 1
    /\ state' = "opening"
    /\ cancel' = opens + 1 /\ openDone' = opens + 1
    /\ cleanupCompleted' = CleanupAtOpen
    /\ cycle' = [cycle EXCEPT ![c] = opens + 1]
    /\ Start(c) /\ Goto(c, "opening")
    /\ UNCHANGED <<closeDone, channels, cancelled, session, awaits, failed>>

(* One shard's OpenWithContext. In a cancelled lifetime it may report      *)
(* success although the Session is not open.                               *)
openSession(c, s) ==
    LET lifetime == cycle[c]
    IN  /\ pc[c] = "opening" /\ worker[c][s] = "running"
        /\ \/ /\ session[s] = 0 /\ lifetime \notin cancelled
              /\ session' = [session EXCEPT ![s] = lifetime]
              /\ Reports(c, s, "done")
              /\ UNCHANGED cancelled
           \/ /\ lifetime \in cancelled
              /\ Reports(c, s, "done")
              /\ UNCHANGED <<session, cancelled>>
           \/ /\ Reports(c, s, "failed")
              /\ cancelled' = cancelled \cup {lifetime}
              /\ UNCHANGED session
        /\ UNCHANGED <<manager, opens, channels, pc, cycle, awaits, failed>>

(* waitGroup.Wait, then lifetime.Err(), before the lock is taken again.    *)
CollectErrors(c) ==
    /\ pc[c] = "opening" /\ AllReturned(c)
    /\ failed' = [failed EXCEPT ![c] =
           (\E s \in Shards : worker[c][s] = "failed") \/ cycle[c] \in cancelled]
    /\ Goto(c, "opened")
    /\ UNCHANGED <<manager, opens, channels, cancelled, session, cycle, awaits,
                   worker>>

Succeeds(c) == ~failed[c] /\ state # "closing"

(* Mutant: the channel is dropped but not closed.                          *)
OpenEndsMutant(c) == openEnded
OpenEnds(c) == openEnded \cup {cycle[c]}

OpenSucceeds(c) ==
    /\ pc[c] = "opened" /\ Succeeds(c)
    /\ state' = "open" /\ openDone' = 0
    /\ openEnded' = OpenEnds(c)
    /\ Return(c)
    /\ UNCHANGED <<cancel, closeDone, cleanupCompleted, opens, closeEnded,
                   cancelled, session>>

OpenFails(c) ==
    /\ pc[c] = "opened" /\ ~Succeeds(c)
    /\ Start(c) /\ Goto(c, "cleanup")
    /\ UNCHANGED <<manager, opens, channels, cancelled, session, cycle, awaits,
                   failed>>

(* One shard's Close; an error it returns is only reported.                *)
closeSession(c, s) ==
    /\ pc[c] \in {"cleanup", "closeCleanup"} /\ worker[c][s] = "running"
    /\ session' = [session EXCEPT ![s] = 0]
    /\ Reports(c, s, "done")
    /\ UNCHANGED <<manager, opens, channels, cancelled, pc, cycle, awaits, failed>>

OpenCleanedUp(c) ==
    /\ pc[c] = "cleanup" /\ AllReturned(c)
    /\ cleanupCompleted' = TRUE /\ cancel' = 0 /\ openDone' = 0
    /\ state' = IF state = "opening" THEN "closed" ELSE state
    /\ openEnded' = OpenEnds(c)
    /\ Return(c)
    /\ UNCHANGED <<closeDone, opens, closeEnded, cancelled, session>>

-----------------------------------------------------------------------------
(* The return for a closed manager changes nothing.                        *)
Close(c) ==
    /\ pc[c] = "idle"
    /\ \/ /\ state = "closing"
          /\ awaits' = [awaits EXCEPT ![c] = closeDone]
          /\ Goto(c, "awaitClose")
          /\ UNCHANGED <<state, closeDone, cycle>>
       \/ /\ state \in {"opening", "open"}
          /\ state' = "closing" /\ closeDone' = opens
          /\ cycle' = [cycle EXCEPT ![c] = cancel]
          /\ awaits' = [awaits EXCEPT ![c] = openDone]
          /\ Goto(c, "cancel")
    /\ UNCHANGED <<cancel, openDone, cleanupCompleted, opens, channels, cancelled,
                   session, failed, worker>>

(* Mutant: an Open that is under way is not waited for.                    *)
AwaitedMutant(c) == TRUE
Awaited(c) == awaits[c] = 0 \/ awaits[c] \in openEnded

CancelLifetime(c) ==
    /\ pc[c] = "cancel"
    /\ cancelled' = cancelled \cup {cycle[c]}
    /\ Goto(c, "awaitOpen")
    /\ UNCHANGED <<manager, opens, channels, session, cycle, awaits, failed, worker>>

AwaitOpen(c) ==
    /\ pc[c] = "awaitOpen" /\ Awaited(c)
    /\ Goto(c, "decide")
    /\ UNCHANGED <<manager, opens, channels, cancelled, session, cycle, awaits,
                   failed, worker>>

(* Close closes the shards unless Open has done so.                        *)
DecideCleanup(c) ==
    /\ pc[c] = "decide"
    /\ worker' = [worker EXCEPT ![c] =
           [s \in Shards |-> IF cleanupCompleted THEN "done" ELSE "running"]]
    /\ Goto(c, "closeCleanup")
    /\ UNCHANGED <<manager, opens, channels, cancelled, session, cycle, awaits, failed>>

CloseCleanedUp(c) ==
    /\ pc[c] = "closeCleanup" /\ AllReturned(c)
    /\ state' = "closed" /\ cancel' = 0 /\ openDone' = 0 /\ closeDone' = 0
    /\ cleanupCompleted' = TRUE
    /\ closeEnded' = closeEnded \cup {cycle[c]}
    /\ Return(c)
    /\ UNCHANGED <<opens, openEnded, cancelled, session>>

AwaitClose(c) ==
    /\ pc[c] = "awaitClose" /\ awaits[c] \in closeEnded
    /\ Return(c)
    /\ UNCHANGED <<manager, opens, channels, cancelled, session>>

-----------------------------------------------------------------------------
(* A Session ends by itself: its lifetime is done, or Discord refuses it.  *)
SessionEnds(s) ==
    /\ session[s] # 0
    /\ session' = [session EXCEPT ![s] = 0]
    /\ UNCHANGED <<manager, opens, channels, cancelled, callers>>

(* The context given to Open is cancelled.                                 *)
CancelContext(l) ==
    /\ l <= opens /\ l \notin cancelled
    /\ cancelled' = cancelled \cup {l}
    /\ UNCHANGED <<manager, opens, channels, session, callers>>

(* A call goes on: what the manager's own goroutines do.                   *)
Continue(c) ==
    \/ CollectErrors(c) \/ OpenSucceeds(c) \/ OpenFails(c) \/ OpenCleanedUp(c)
    \/ CancelLifetime(c) \/ AwaitOpen(c) \/ DecideCleanup(c)
    \/ CloseCleanedUp(c) \/ AwaitClose(c)
    \/ \E s \in Shards : closeSession(c, s)

Next ==
    \/ \E c \in Callers : Open(c) \/ Close(c) \/ Continue(c)
    \/ \E c \in Callers, s \in Shards : openSession(c, s)
    \/ \E s \in Shards : SessionEnds(s)
    \/ \E l \in Cycles : CancelContext(l)

Spec == Init /\ [][Next]_vars

(* A shard may wait for Discord's HELLO or READY, or connect again, for as *)
(* long as its lifetime lasts: OpenWithContext has no timeout. When the    *)
(* lifetime is cancelled it returns.                                       *)
openCancelled(c) == cycle[c] \in cancelled /\ \E s \in Shards : openSession(c, s)

(* Goroutines run on, Close of a Session returns, and so does an           *)
(* OpenWithContext that is cancelled; no other need return.                *)
FairSpec ==
    Spec /\ \A c \in Callers : WF_vars(Continue(c)) /\ WF_vars(openCancelled(c))

-----------------------------------------------------------------------------
(* Properties.                                                             *)

Working(c) == \E s \in Shards : worker[c][s] = "running"

(* A closed manager has no open shard and no goroutine that would open or  *)
(* close one, whichever of Open and Close did the cleaning up.             *)
ClosedMeansNoShard ==
    state = "closed" => /\ \A s \in Shards : session[s] = 0
                        /\ \A c \in Callers : ~Working(c)

(* The shards are opened, or closed, by one call at a time: OpenWithContext*)
(* and Close of one Session are never run side by side by the manager.     *)
OneCallWorks == \A c, d \in Callers : Working(c) /\ Working(d) => c = d

(* An Open that a Close has interrupted does not leave the manager open:   *)
(* from the first lock of a Close to its last the state is Closing.        *)
CloseKeepsClosing ==
    \A c \in Callers :
        pc[c] \in {"cancel", "awaitOpen", "decide", "closeCleanup"} => state = "closing"

(* A Close that waited for another Close returns when the shards are       *)
(* closed: none is still open in the lifetime it wanted closed.            *)
AwaitedCloseIsDone ==
    \A c \in Callers : pc[c] = "awaitClose" /\ awaits[c] \in closeEnded =>
        \A s \in Shards : session[s] = 0 \/ session[s] > awaits[c]

(* A shard is only ever open in the current lifetime: no shard survives the*)
(* Close, or the failed Open, of the lifetime it was opened in.            *)
OpenShardsAreCurrent ==
    \A s \in Shards : session[s] # 0 => session[s] = opens

(* The shards are where the manager's state, or the return of a Close, says*)
(* they are, and its calls take turns as the state says.                   *)
ShardsMatchState == ClosedMeansNoShard /\ AwaitedCloseIsDone /\ OpenShardsAreCurrent
CallsInTurn == OneCallWorks /\ CloseKeepsClosing

(* What must end: a Close, and an Open whose shards have returned or whose *)
(* lifetime is cancelled, be it by a Close, by a shard that failed or by   *)
(* the context it was given.                                               *)
MustReturn(c) ==
    pc[c] # "idle" /\ (pc[c] = "opening" => AllReturned(c) \/ cycle[c] \in cancelled)

(* Every Close returns, and every Open that is cancelled or has seen its   *)
(* shards return: neither waits for a channel that the other will not      *)
(* close.                                                                  *)
CallsReturn == \A c \in Callers : MustReturn(c) ~> pc[c] = "idle"
=============================================================================
