-------------------------- MODULE GatewayWriteQueue --------------------------
(***************************************************************************)
(* gatewayWriteQueue (gateway_write.go), the writer goroutine of one       *)
(* Gateway websocket, with its rate window; and the path around it for the *)
(* heartbeats Discord asks for, writeGatewayPriorityCurrent (wsapi.go).    *)
(*                                                                         *)
(* Each call of enqueue is named after the packet it submits. Every caller *)
(* passes the context of the generation, which is the queue's own. Time is *)
(* counted in units of which Window is a few; a write takes any time.      *)
(***************************************************************************)
EXTENDS Naturals, Sequences

CONSTANTS
    Packets,            \* calls of enqueue
    Limit,              \* gatewaySendLimit
    Window,             \* gatewaySendWindow
    MaxPriority,        \* bound: heartbeats Discord asks for
    MaxTime             \* bound on time

ASSUME LimitAssumption == Limit \in Nat \ {0}
ASSUME WindowAssumption == Window \in Nat \ {0}
ASSUME BoundsAssumption == MaxPriority \in Nat /\ MaxTime \in Nat

gatewayWriteQueueSize == Limit + 1

VARIABLES
    now,
    ctxDone,            \* conn.ctx is done
    (* gatewayWriteQueue *)
    requests, done,
    mu,                 \* s.wsMutex
    (* enqueue: the state of each call, and its result channel *)
    call, result,
    (* run: state, the request in hand, the end of its wait, and sentAt *)
    writer, request, wakeAt, sentAt,
    (* writeGatewayPriorityCurrent *)
    priority, priorities,
    wire                \* history: the queue's packets, as <<packet, time>>

calls == <<call, result>>
running == <<writer, request, wakeAt, sentAt>>
prioritized == <<priority, priorities>>
vars == <<now, ctxDone, requests, done, mu, calls, running, prioritized, wire>>

NoRequest == "none"
Outcomes == {"none", "ok", "err"}

TypeOK ==
    /\ now \in Nat /\ ctxDone \in BOOLEAN
    /\ requests \in Seq(Packets) /\ Len(requests) <= gatewayWriteQueueSize
    /\ done \in BOOLEAN
    /\ mu \in {"free", "queue", "priority"}
    /\ call \in [Packets -> {"new", "offer", "await", "sent", "failed"}]
    /\ result \in [Packets -> Outcomes]
    /\ writer \in {"select", "slot", "wait", "lock", "write", "record",
                   "failPending", "ended"}
    /\ request \in Packets \cup {NoRequest}
    /\ wakeAt \in Nat
    /\ sentAt \in Seq(Nat) /\ Len(sentAt) <= Limit
    /\ priority \in {"idle", "lock", "write"}
    /\ priorities \in 0 .. MaxPriority
    /\ wire \in Seq(Packets \X Nat)

Init ==
    /\ now = 0 /\ ctxDone = FALSE
    /\ requests = <<>> /\ done = FALSE /\ mu = "free"
    /\ call = [p \in Packets |-> "new"]
    /\ result = [p \in Packets |-> "none"]
    /\ writer = "select" /\ request = NoRequest /\ wakeAt = 0 /\ sentAt = <<>>
    /\ priority = "idle" /\ priorities = 0
    /\ wire = <<>>

-----------------------------------------------------------------------------
(* enqueue: the check of the context, and the two selects.                 *)
Outcome(p, state) == call' = [call EXCEPT ![p] = state]

enqueue(p) ==
    /\ call[p] = "new"
    /\ Outcome(p, IF ctxDone THEN "failed" ELSE "offer")
    /\ UNCHANGED <<now, ctxDone, requests, done, mu, result, running, prioritized,
                   wire>>

Submit(p) ==
    /\ call[p] = "offer" /\ Len(requests) < gatewayWriteQueueSize
    /\ requests' = Append(requests, p)
    /\ Outcome(p, "await")
    /\ UNCHANGED <<now, ctxDone, done, mu, result, running, prioritized, wire>>

TakeResult(p) ==
    /\ call[p] = "await" /\ result[p] # "none"
    /\ Outcome(p, IF result[p] = "ok" THEN "sent" ELSE "failed")
    /\ UNCHANGED <<now, ctxDone, requests, done, mu, result, running, prioritized,
                   wire>>

(* Mutant: only the queue's end is waited for in the second select.        *)
GivesUpMutant(p) == call[p] = "offer" /\ (done \/ ctxDone)
GivesUp(p) == call[p] \in {"offer", "await"} /\ (done \/ ctxDone)

Abandon(p) ==
    /\ GivesUp(p)
    /\ Outcome(p, "failed")
    /\ UNCHANGED <<now, ctxDone, requests, done, mu, result, running, prioritized,
                   wire>>

-----------------------------------------------------------------------------
(* run.                                                                    *)
Answer(p, outcome) == result' = [result EXCEPT ![p] = outcome]

(* Mutant: the head stays in the queue.                                    *)
RemainingRequestsMutant == requests
RemainingRequests == Tail(requests)

Receive ==
    LET p == Head(requests)
    IN  /\ writer = "select" /\ requests # <<>>
        /\ requests' = RemainingRequests
        /\ IF ctxDone
           THEN Answer(p, "err") /\ UNCHANGED <<writer, request>>
           ELSE writer' = "slot" /\ request' = p /\ UNCHANGED result
        /\ UNCHANGED <<now, ctxDone, done, mu, call, wakeAt, sentAt, prioritized,
                       wire>>

StopRunning ==
    /\ writer = "select" /\ ctxDone
    /\ writer' = "failPending"
    /\ UNCHANGED <<now, ctxDone, requests, done, mu, calls, request, wakeAt, sentAt,
                   prioritized, wire>>

(* failPending, and the deferred close of done.                            *)
failPending ==
    /\ writer = "failPending"
    /\ \/ /\ requests # <<>>
          /\ Answer(Head(requests), "err")
          /\ requests' = Tail(requests)
          /\ UNCHANGED <<writer, done>>
       \/ /\ requests = <<>>
          /\ writer' = "ended" /\ done' = TRUE
          /\ UNCHANGED <<requests, result>>
    /\ UNCHANGED <<now, ctxDone, mu, call, request, wakeAt, sentAt, prioritized, wire>>

(* waitForSlot drops the leading times that are Window or more ago.        *)
Expired(i) == sentAt[i] + Window <= now
firstActive ==
    CHOOSE i \in 1 .. Len(sentAt) + 1 :
        /\ \A j \in 1 .. i - 1 : Expired(j)
        /\ i <= Len(sentAt) => ~Expired(i)
Active == SubSeq(sentAt, firstActive, Len(sentAt))

HasSlot == Len(Active) < Limit

waitForSlot ==
    /\ writer = "slot"
    /\ sentAt' = Active
    /\ IF HasSlot
       THEN writer' = "lock" /\ UNCHANGED wakeAt
       ELSE writer' = "wait" /\ wakeAt' = Active[1] + Window
    /\ UNCHANGED <<now, ctxDone, requests, done, mu, calls, request, prioritized, wire>>

waitGatewayWrite ==
    /\ writer = "wait"
    /\ \/ now >= wakeAt /\ writer' = "slot" /\ UNCHANGED <<request, result>>
       \/ /\ ctxDone
          /\ writer' = "select" /\ request' = NoRequest
          /\ Answer(request, "err")
    /\ UNCHANGED <<now, ctxDone, requests, done, mu, call, wakeAt, sentAt, prioritized,
                   wire>>

LockForWrite ==
    /\ writer = "lock" /\ mu = "free"
    /\ mu' = "queue" /\ writer' = "write"
    /\ UNCHANGED <<now, ctxDone, requests, done, calls, request, wakeAt, sentAt,
                   prioritized, wire>>

WriteJSON ==
    /\ writer = "write"
    /\ mu' = "free"
    /\ \/ /\ writer' = "record"
          /\ wire' = Append(wire, <<request, now>>)
          /\ UNCHANGED <<request, result>>
       \/ /\ writer' = "select" /\ request' = NoRequest
          /\ Answer(request, "err")
          /\ UNCHANGED wire
    /\ UNCHANGED <<now, ctxDone, requests, done, call, wakeAt, sentAt, prioritized>>

(* Mutant: the time is the one read before the write began.                *)
SendTimeMutant == wakeAt
SendTime == now

RecordSent ==
    /\ writer = "record"
    /\ sentAt' = Append(sentAt, SendTime)
    /\ Answer(request, "ok")
    /\ writer' = "select" /\ request' = NoRequest
    /\ UNCHANGED <<now, ctxDone, requests, done, mu, call, wakeAt, prioritized, wire>>

run ==
    \/ Receive \/ StopRunning \/ failPending \/ waitForSlot \/ waitGatewayWrite
    \/ LockForWrite \/ WriteJSON \/ RecordSent

-----------------------------------------------------------------------------
(* onEvent answers a heartbeat request: the listener writes past the queue.*)
writeGatewayPriorityCurrent ==
    /\ priority = "idle" /\ ~ctxDone /\ priorities < MaxPriority
    /\ priority' = "lock" /\ priorities' = priorities + 1
    /\ UNCHANGED <<now, ctxDone, requests, done, mu, calls, running, wire>>

PriorityLock ==
    /\ priority = "lock" /\ mu = "free"
    /\ IF ctxDone THEN priority' = "idle" /\ UNCHANGED mu
                  ELSE priority' = "write" /\ mu' = "priority"
    /\ UNCHANGED <<now, ctxDone, requests, done, calls, running, priorities, wire>>

PriorityWrite ==
    /\ priority = "write"
    /\ priority' = "idle" /\ mu' = "free"
    /\ UNCHANGED <<now, ctxDone, requests, done, calls, running, priorities, wire>>

-----------------------------------------------------------------------------
(* The generation ends; time passes.                                       *)
CancelGeneration ==
    /\ ~ctxDone /\ ctxDone' = TRUE
    /\ UNCHANGED <<now, requests, done, mu, calls, running, prioritized, wire>>

Tick ==
    /\ now < MaxTime /\ now' = now + 1
    /\ UNCHANGED <<ctxDone, requests, done, mu, calls, running, prioritized, wire>>

Return(p) == TakeResult(p) \/ Abandon(p)

Next ==
    \/ \E p \in Packets : enqueue(p) \/ Submit(p) \/ Return(p)
    \/ run
    \/ writeGatewayPriorityCurrent \/ PriorityLock \/ PriorityWrite
    \/ CancelGeneration \/ Tick

Spec == Init /\ [][Next]_vars

(* Goroutines run, and a write on the websocket ends: finishing the        *)
(* generation closes it.                                                   *)
FairSpec ==
    /\ Spec
    /\ WF_vars(run) /\ WF_vars(PriorityLock \/ PriorityWrite)
    /\ \A p \in Packets : WF_vars(Return(p))

-----------------------------------------------------------------------------
(* Properties.                                                             *)

(* Of any Limit + 1 packets the queue sends in a row, the last leaves at   *)
(* least Window after the first, although writes take time and the times   *)
(* are recorded after them.                                                *)
WindowRespected ==
    \A i \in 1 .. Len(wire) - Limit : wire[i + Limit][2] - wire[i][2] >= Window

(* A packet is sent at most once, and enqueue returns nil only for a packet*)
(* that was, whatever cut its wait short.                                  *)
NilMeansSent ==
    /\ \A i, j \in 1 .. Len(wire) : wire[i][1] = wire[j][1] => i = j
    /\ \A p \in Packets : call[p] = "sent" =>
           \E i \in 1 .. Len(wire) : wire[i][1] = p

(* When the generation ends the writer ends too, and every call of enqueue *)
(* returns, wherever its request is then.                                  *)
CancelReleases ==
    ctxDone ~> writer = "ended" /\ \A p \in Packets : call[p] \notin {"offer", "await"}
=============================================================================
