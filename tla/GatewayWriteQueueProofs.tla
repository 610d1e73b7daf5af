----------------------- MODULE GatewayWriteQueueProofs -----------------------
(***************************************************************************)
(* Proofs about GatewayWriteQueue for any packets, limit, window and bounds*)
(* on heartbeats and time: type correctness, the rate window, and what a   *)
(* nil of enqueue means.                                                   *)
(***************************************************************************)
EXTENDS GatewayWriteQueue, WellFoundedInduction, SequenceTheorems, TLAPS

-----------------------------------------------------------------------------
(* The inductive invariant.                                                *)
Busy == {"slot", "wait", "lock", "write", "record"}

(* The writer has a request in hand exactly while it works on it.          *)
InHand == writer \in Busy => request \in Packets

(* How many of the packets on the wire have their time in sentAt, or had it*)
(* there: all but the one that is about to be recorded.                    *)
Recorded == IF writer = "record" THEN Len(wire) - 1 ELSE Len(wire)
Dropped == Recorded - Len(sentAt)

(* sentAt holds a time for each of the last recorded packets that is not   *)
(* before the packet left, and the packets before them left Window or more *)
(* ago: that is why it is enough to wait for the first time in sentAt.     *)
Bookkeeping ==
    /\ writer = "record" => wire # <<>>
    /\ Dropped >= 0
    /\ \A i \in 1 .. Len(wire) : wire[i][2] <= now
    /\ \A i \in 1 .. Dropped : wire[i][2] + Window <= now
    /\ \A i \in 1 .. Len(sentAt) : wire[i + Dropped][2] <= sentAt[i]
    /\ writer \in {"lock", "write", "record"} => Len(sentAt) < Limit

(* The way of a packet: submitted once, it is in the queue, in hand or     *)
(* past both, and on the wire before its call can learn of a success.      *)
Fresh(p) == call[p] \in {"new", "offer"}
Queued(p) == \E i \in 1 .. Len(requests) : requests[i] = p
Held(p) == writer \in Busy /\ request = p
OnWire(p) == \E i \in 1 .. Len(wire) : wire[i][1] = p

Passage ==
    /\ \A p \in Packets : Fresh(p) => ~Queued(p) /\ ~Held(p) /\ ~OnWire(p)
    /\ \A p \in Packets : Queued(p) => ~Held(p) /\ ~OnWire(p)
    /\ \A p \in Packets : Held(p) /\ OnWire(p) => writer = "record"
    /\ \A i, j \in 1 .. Len(requests) : requests[i] = requests[j] => i = j
    /\ \A i, j \in 1 .. Len(wire) : wire[i][1] = wire[j][1] => i = j
    /\ writer = "record" => OnWire(request)
    /\ \A p \in Packets : result[p] = "ok" \/ call[p] = "sent" => OnWire(p)

IInv == TypeOK /\ InHand /\ Bookkeeping /\ WindowRespected /\ Passage

-----------------------------------------------------------------------------
(* Sequences of the model.                                                 *)
LEMMA WireGrows ==
    ASSUME TypeOK, request \in Packets, wire' = Append(wire, <<request, now>>)
    PROVE  /\ wire' \in Seq(Packets \X Nat)
           /\ Len(wire') = Len(wire) + 1 /\ Len(wire) \in Nat
           /\ \A i \in 1 .. Len(wire) : wire'[i] = wire[i]
           /\ wire'[Len(wire) + 1][1] = request /\ wire'[Len(wire) + 1][2] = now
<1>1. <<request, now>> \in Packets \X Nat /\ wire \in Seq(Packets \X Nat)
  BY DEF TypeOK
<1>2. Len(wire) \in Nat
  BY <1>1, LenProperties
<1> QED BY <1>1, <1>2, AppendProperties

LEMMA WireTypes ==
    ASSUME TypeOK
    PROVE  /\ Len(wire) \in Nat /\ Len(sentAt) \in Nat /\ now \in Nat
           /\ \A i \in 1 .. Len(wire) : wire[i][1] \in Packets /\ wire[i][2] \in Nat
           /\ \A i \in 1 .. Len(sentAt) : sentAt[i] \in Nat
<1>1. wire \in Seq(Packets \X Nat) /\ sentAt \in Seq(Nat) /\ now \in Nat
  BY DEF TypeOK
<1>2. Len(wire) \in Nat /\ Len(sentAt) \in Nat
  BY <1>1, LenProperties
<1>3. \A i \in 1 .. Len(wire) : wire[i] \in Packets \X Nat
  BY <1>1, ElementOfSeq
<1>4. \A i \in 1 .. Len(sentAt) : sentAt[i] \in Nat
  BY <1>1, ElementOfSeq
<1> QED BY <1>1, <1>2, <1>3, <1>4

LEMMA RequestsGrow ==
    ASSUME TypeOK, NEW p \in Packets, requests' = Append(requests, p)
    PROVE  /\ requests' \in Seq(Packets)
           /\ Len(requests') = Len(requests) + 1 /\ Len(requests) \in Nat
           /\ \A i \in 1 .. Len(requests) : requests'[i] = requests[i]
           /\ requests'[Len(requests) + 1] = p
<1>1. requests \in Seq(Packets) /\ Len(requests) \in Nat
  BY LenProperties DEF TypeOK
<1> QED BY <1>1, AppendProperties

LEMMA RequestsShrink ==
    ASSUME TypeOK, requests # <<>>, requests' = Tail(requests)
    PROVE  /\ requests' \in Seq(Packets)
           /\ Len(requests) \in Nat \ {0} /\ Len(requests') = Len(requests) - 1
           /\ Head(requests) \in Packets /\ Head(requests) = requests[1]
           /\ \A i \in 1 .. Len(requests') : requests'[i] = requests[i + 1]
<1>1. requests \in Seq(Packets)
  BY DEF TypeOK
<1>2. Len(requests) \in Nat \ {0}
  BY <1>1, EmptySeq
<1>3. Head(requests) = requests[1]
  BY <1>1
<1> QED BY <1>1, <1>2, <1>3, HeadTailProperties

(* A set of natural numbers has a least member.                            *)
LEMMA Least ==
    ASSUME NEW S \in SUBSET Nat, S # {}
    PROVE  \E m \in S : \A k \in S : m <= k
<1> DEFINE Less == OpToRel(<, Nat)
<1>1. \A k, m \in Nat : k < m => <<k, m>> \in Less
  BY DEF OpToRel
<1>2. IsWellFoundedOn(Less, Nat)
  BY NatLessThanWellFounded
<1> HIDE DEF Less
<1>3. \E m \in S : \A k \in S : <<k, m>> \notin Less
  BY <1>2, WFMin
<1>4. \A k, m \in S : ~(k < m) => m <= k
  OBVIOUS
<1> QED BY <1>1, <1>3, <1>4

(* waitForSlot drops a prefix of sentAt, all of it Window or more ago.     *)
LEMMA ActiveProperties ==
    ASSUME TypeOK
    PROVE  \E d \in 0 .. Len(sentAt) :
              /\ Active \in Seq(Nat) /\ Len(Active) = Len(sentAt) - d
              /\ \A i \in 1 .. Len(Active) : Active[i] = sentAt[i + d]
              /\ \A i \in 1 .. d : sentAt[i] + Window <= now
<1> DEFINE n == Len(sentAt)
           Alive == {i \in 1 .. n : ~Expired(i)}
           First(i) == /\ i \in 1 .. n + 1
                       /\ \A j \in 1 .. i - 1 : Expired(j)
                       /\ i <= n => ~Expired(i)
<1>1. n \in Nat
  BY WireTypes
<1>2. \E i \in 1 .. n + 1 : First(i)
  <2>1. CASE Alive = {}
    BY <1>1, <2>1
  <2>2. CASE Alive # {}
    <3>1. PICK m \in Alive : \A k \in Alive : m <= k
      <4>1. Alive \in SUBSET Nat
        BY <1>1
      <4> HIDE DEF Alive
      <4> QED BY <4>1, <2>2, Least
    <3>2. \A j \in 1 .. m - 1 : Expired(j)
      BY <1>1, <3>1
    <3> QED BY <1>1, <3>1, <3>2
  <2> QED BY <2>1, <2>2
<1>3. First(firstActive)
  <2> HIDE DEF n
  <2>1. firstActive = CHOOSE i \in 1 .. n + 1 : First(i)
    BY DEF firstActive, n
  <2> QED BY <1>2, <2>1
<1> DEFINE d == firstActive - 1
<1>4. d \in 0 .. n /\ firstActive \in Int
  BY <1>1, <1>3
<1>5. \A i \in firstActive .. n : sentAt[i] \in Nat
  BY <1>1, <1>3, WireTypes
<1>6. /\ Active \in Seq(Nat)
      /\ Len(Active) = IF firstActive <= n THEN n - firstActive + 1 ELSE 0
      /\ \A i \in 1 .. n - firstActive + 1 : Active[i] = sentAt[firstActive + i - 1]
  BY <1>1, <1>4, <1>5, SubSeqProperties DEF Active
<1>7. \A i \in 1 .. d : sentAt[i] + Window <= now
  BY <1>3 DEF Expired
<1> HIDE DEF n, First
<1>8. Len(Active) = n - d /\ \A i \in 1 .. Len(Active) : Active[i] = sentAt[i + d]
  BY <1>1, <1>4, <1>6
<1> QED BY <1>4, <1>6, <1>7, <1>8 DEF n
-----------------------------------------------------------------------------
(* Types.                                                                  *)
LEMMA InitTypeOK == Init => TypeOK
<1> SUFFICES ASSUME Init PROVE TypeOK
  OBVIOUS
<1>1. /\ requests \in Seq(Packets) /\ sentAt \in Seq(Nat) /\ wire \in Seq(Packets \X Nat)
      /\ Len(requests) = 0 /\ Len(sentAt) = 0
  BY EmptySeq DEF Init
<1>2. Len(requests) <= gatewayWriteQueueSize /\ Len(sentAt) <= Limit
  BY <1>1, LimitAssumption DEF gatewayWriteQueueSize
<1>3. now \in Nat /\ wakeAt \in Nat /\ priorities \in 0 .. MaxPriority
  BY BoundsAssumption DEF Init
<1>4. /\ call \in [Packets -> {"new", "offer", "await", "sent", "failed"}]
      /\ result \in [Packets -> Outcomes]
  BY DEF Init, Outcomes
<1> QED BY <1>1, <1>2, <1>3, <1>4 DEF Init, TypeOK, NoRequest

(* The steps of a call, one kind of field at a time.                       *)
LEMMA CallTypes ==
    ASSUME TypeOK, NEW p \in Packets, enqueue(p) \/ Submit(p) \/ Return(p)
    PROVE  TypeOK'
<1>1. call' \in [Packets -> {"new", "offer", "await", "sent", "failed"}]
  BY DEF TypeOK, enqueue, Submit, Return, TakeResult, Abandon, Outcome
<1>2. requests' \in Seq(Packets) /\ Len(requests') <= gatewayWriteQueueSize
  <2>1. CASE Submit(p)
    BY <2>1, RequestsGrow, LimitAssumption DEF Submit, gatewayWriteQueueSize
  <2>2. CASE enqueue(p) \/ Return(p)
    BY <2>2 DEF TypeOK, enqueue, Return, TakeResult, Abandon
  <2> QED BY <2>1, <2>2
<1>3. UNCHANGED <<now, ctxDone, done, mu, result, running, prioritized, wire>>
  BY DEF enqueue, Submit, Return, TakeResult, Abandon
<1> QED BY <1>1, <1>2, <1>3 DEF TypeOK, running, prioritized

LEMMA WriterTypes == ASSUME TypeOK, InHand, Bookkeeping, run PROVE TypeOK' /\ InHand'
<1>1. CASE Receive
  <2>1. Head(requests) \in Packets /\ requests' \in Seq(Packets)
        /\ Len(requests') <= gatewayWriteQueueSize
    BY <1>1, RequestsShrink, LimitAssumption
       DEF Receive, RemainingRequests, TypeOK, gatewayWriteQueueSize
  <2>2. result' \in [Packets -> Outcomes]
    BY <1>1 DEF Receive, Answer, TypeOK, Outcomes
  <2>3. writer' \in {"select", "slot"} /\ request' \in Packets \cup {NoRequest}
        /\ InHand'
    BY <1>1, <2>1 DEF Receive, TypeOK, InHand, Busy
  <2> QED BY <1>1, <2>1, <2>2, <2>3 DEF Receive, TypeOK, prioritized
<1>2. CASE StopRunning
  BY <1>2 DEF StopRunning, TypeOK, InHand, Busy, calls, prioritized
<1>3. CASE failPending
  <2>1. CASE requests # <<>> /\ Answer(Head(requests), "err")
             /\ requests' = Tail(requests) /\ UNCHANGED <<writer, done>>
    <3>1. requests' \in Seq(Packets) /\ Len(requests') <= gatewayWriteQueueSize
      BY <2>1, RequestsShrink, LimitAssumption DEF TypeOK, gatewayWriteQueueSize
    <3>2. result' \in [Packets -> Outcomes]
      BY <2>1 DEF Answer, TypeOK, Outcomes
    <3> QED BY <1>3, <2>1, <3>1, <3>2 DEF failPending, TypeOK, InHand, Busy, prioritized
  <2>2. CASE writer' = "ended" /\ done' = TRUE /\ UNCHANGED <<requests, result>>
    BY <1>3, <2>2 DEF failPending, TypeOK, InHand, Busy, prioritized
  <2> QED BY <1>3, <2>1, <2>2 DEF failPending
<1>4. CASE waitForSlot
  <2>1. PICK d \in 0 .. Len(sentAt) :
           Active \in Seq(Nat) /\ Len(Active) = Len(sentAt) - d
    BY ActiveProperties
  <2>2. Len(Active) \in Nat /\ Len(Active) <= Limit
    BY <2>1, WireTypes, LimitAssumption DEF TypeOK
  <2>3. wakeAt' \in Nat
    <3>1. CASE HasSlot
      BY <1>4, <3>1 DEF waitForSlot, TypeOK
    <3>2. CASE ~HasSlot
      <4>1. 1 \in 1 .. Len(Active)
        BY <2>2, <3>2, LimitAssumption DEF HasSlot
      <4>2. Active[1] \in Nat
        BY <2>1, <4>1, ElementOfSeq
      <4> QED BY <1>4, <3>2, <4>2, WindowAssumption DEF waitForSlot
    <3> QED BY <3>1, <3>2
  <2> QED BY <1>4, <2>1, <2>2, <2>3
          DEF waitForSlot, TypeOK, InHand, Busy, calls, prioritized
<1>5. CASE waitGatewayWrite
  <2>1. result' \in [Packets -> Outcomes]
    BY <1>5 DEF waitGatewayWrite, Answer, TypeOK, Outcomes
  <2> QED BY <1>5, <2>1 DEF waitGatewayWrite, TypeOK, InHand, Busy, prioritized, NoRequest
<1>6. CASE LockForWrite
  BY <1>6 DEF LockForWrite, TypeOK, InHand, Busy, calls, prioritized
<1>7. CASE WriteJSON
  <2>1. wire' \in Seq(Packets \X Nat)
    BY <1>7, WireGrows DEF WriteJSON, TypeOK, InHand, Busy
  <2>2. result' \in [Packets -> Outcomes]
    BY <1>7 DEF WriteJSON, Answer, TypeOK, Outcomes
  <2> QED BY <1>7, <2>1, <2>2 DEF WriteJSON, TypeOK, InHand, Busy, prioritized, NoRequest
<1>8. CASE RecordSent
  <2>1. sentAt' \in Seq(Nat) /\ Len(sentAt') = Len(sentAt) + 1
    <3>1. sentAt \in Seq(Nat) /\ now \in Nat
      BY DEF TypeOK
    <3> QED BY <1>8, <3>1, AppendProperties DEF RecordSent, SendTime
  <2>2. Len(sentAt') <= Limit
    BY <1>8, <2>1, WireTypes, LimitAssumption DEF RecordSent, Bookkeeping
  <2>3. result' \in [Packets -> Outcomes]
    BY <1>8 DEF RecordSent, Answer, TypeOK, Outcomes
  <2> QED BY <1>8, <2>1, <2>2, <2>3
          DEF RecordSent, TypeOK, InHand, Busy, prioritized, NoRequest
<1> QED BY <1>1, <1>2, <1>3, <1>4, <1>5, <1>6, <1>7, <1>8 DEF run
-----------------------------------------------------------------------------
(* The rate window.                                                        *)
Rating == Bookkeeping /\ WindowRespected

(* Waiting does no harm: nothing is recorded or put on the wire.           *)
LEMMA WaitingKeepsRate ==
    ASSUME TypeOK, Rating, UNCHANGED <<now, sentAt, wire>>,
           \/ writer' = writer
           \/ writer # "record" /\ writer' \notin {"lock", "write", "record"}
           \/ writer = "lock" /\ writer' = "write"
    PROVE  Rating'
BY DEF Rating, Bookkeeping, WindowRespected, Dropped, Recorded

(* The dropped times are those of packets that left Window or more ago.    *)
LEMMA waitForSlotKeepsRate == ASSUME TypeOK, Rating, waitForSlot PROVE Rating'
<1>1. PICK d \in 0 .. Len(sentAt) :
         /\ Active \in Seq(Nat) /\ Len(Active) = Len(sentAt) - d
         /\ \A i \in 1 .. Len(Active) : Active[i] = sentAt[i + d]
         /\ \A i \in 1 .. d : sentAt[i] + Window <= now
  BY ActiveProperties
<1>2. sentAt' = Active /\ UNCHANGED <<now, wire>> /\ writer = "slot"
  BY DEF waitForSlot
<1>3. Recorded = Len(wire) /\ Recorded' = Len(wire) /\ Dropped' = Dropped + d
  BY <1>1, <1>2, WireTypes DEF waitForSlot, Recorded, Dropped
<1>4. ASSUME NEW i \in 1 .. Dropped' PROVE wire[i][2] + Window <= now
  <2>1. CASE i <= Dropped
    BY <1>1, <1>3, <2>1, WireTypes DEF Rating, Bookkeeping, Dropped, Recorded
  <2>2. CASE i > Dropped
    <3> DEFINE j == i - Dropped
    <3>1. j \in 1 .. d /\ j \in 1 .. Len(sentAt) /\ i = j + Dropped /\ i \in 1 .. Len(wire)
      BY <1>1, <1>3, <2>2, WireTypes DEF Rating, Bookkeeping, Dropped
    <3>2. wire[i][2] <= sentAt[j] /\ sentAt[j] + Window <= now
      BY <1>1, <3>1 DEF Rating, Bookkeeping
    <3> QED BY <3>1, <3>2, WireTypes, WindowAssumption
  <2> QED BY <2>1, <2>2, <1>1, <1>3, WireTypes DEF Dropped
<1>5. ASSUME NEW i \in 1 .. Len(Active) PROVE wire[i + Dropped'][2] <= Active[i]
  <2>1. i + d \in 1 .. Len(sentAt) /\ i + Dropped' = (i + d) + Dropped
    <3>1. Dropped \in Int
      BY <1>3, WireTypes DEF Dropped
    <3> QED BY <1>1, <1>3, <3>1, WireTypes
  <2> QED BY <1>1, <2>1 DEF Rating, Bookkeeping
<1>6. writer' = "lock" => Len(Active) < Limit
  BY DEF waitForSlot, HasSlot
<1>7. writer' \in {"lock", "wait"} /\ Dropped' >= 0
  BY <1>1, <1>3, WireTypes DEF waitForSlot, Rating, Bookkeeping, Dropped
<1>8. Bookkeeping'
  BY <1>2, <1>4, <1>5, <1>6, <1>7 DEF Rating, Bookkeeping
<1> QED BY <1>2, <1>8 DEF Rating, WindowRespected

(* The packet that goes out is Window after the Limit-th before it: fewer  *)
(* than Limit times are kept, so that one is among the dropped.            *)
LEMMA WriteJSONKeepsRate == ASSUME TypeOK, InHand, Rating, WriteJSON PROVE Rating'
<1>1. CASE UNCHANGED wire /\ writer' = "select"
  BY <1>1, WaitingKeepsRate DEF WriteJSON
<1>2. CASE writer' = "record" /\ wire' = Append(wire, <<request, now>>)
  <2> DEFINE n == Len(wire)
  <2>1. /\ Len(wire') = n + 1 /\ n \in Nat
        /\ \A i \in 1 .. n : wire'[i] = wire[i]
        /\ wire'[n + 1][2] = now
    BY <1>2, WireGrows DEF WriteJSON, InHand, Busy
  <2>2. UNCHANGED <<now, sentAt>> /\ writer = "write"
    BY DEF WriteJSON
  <2>3. /\ Recorded = n /\ Recorded' = n /\ Dropped' = Dropped
        /\ Dropped >= 0 /\ Dropped = n - Len(sentAt)
    BY <1>2, <2>1, <2>2 DEF Recorded, Dropped, Rating, Bookkeeping
  <2>4. Len(sentAt) < Limit
    BY <2>2 DEF Rating, Bookkeeping
  <2>5. Bookkeeping'
    <3>1. wire' # <<>>
      BY <2>1, EmptySeq
    <3>2. \A i \in 1 .. Len(wire') : wire'[i][2] <= now
      BY <2>1, WireTypes DEF Rating, Bookkeeping
    <3>3. \A i \in 1 .. Dropped : wire'[i][2] + Window <= now
      BY <2>1, <2>3, WireTypes DEF Rating, Bookkeeping
    <3>4. \A i \in 1 .. Len(sentAt) : wire'[i + Dropped][2] <= sentAt[i]
      BY <2>1, <2>3, WireTypes DEF Rating, Bookkeeping
    <3> QED BY <1>2, <2>2, <2>3, <2>4, <3>1, <3>2, <3>3, <3>4 DEF Bookkeeping
  <2>6. ASSUME NEW i \in 1 .. Len(wire') - Limit
        PROVE  wire'[i + Limit][2] - wire'[i][2] >= Window
    <3>1. CASE i + Limit <= n
      BY <2>1, <3>1, LimitAssumption DEF Rating, WindowRespected
    <3>2. CASE i + Limit = n + 1
      <4>1. i \in 1 .. Dropped /\ i \in 1 .. n
        BY <2>1, <2>3, <2>4, <3>2, WireTypes, LimitAssumption
      <4>2. wire[i][2] + Window <= now /\ wire[i][2] \in Nat /\ now \in Nat
        BY <4>1, WireTypes DEF Rating, Bookkeeping
      <4> QED BY <2>1, <3>2, <4>1, <4>2, WindowAssumption
    <3> QED BY <2>1, <3>1, <3>2, LimitAssumption
  <2> QED BY <2>5, <2>6 DEF Rating, WindowRespected
<1> QED BY <1>1, <1>2 DEF WriteJSON

LEMMA RecordSentKeepsRate == ASSUME TypeOK, Rating, RecordSent PROVE Rating'
<1> DEFINE n == Len(wire)
           k == Len(sentAt)
<1>1. UNCHANGED <<now, wire>> /\ writer = "record" /\ writer' = "select"
  BY DEF RecordSent
<1>2. /\ Len(sentAt') = k + 1 /\ k \in Nat /\ n \in Nat /\ now \in Nat
      /\ \A i \in 1 .. k : sentAt'[i] = sentAt[i]
      /\ sentAt'[k + 1] = now
  <2>1. sentAt \in Seq(Nat) /\ now \in Nat
    BY DEF TypeOK
  <2> QED BY <2>1, AppendProperties, WireTypes DEF RecordSent, SendTime
<1>3. Recorded = n - 1 /\ Recorded' = n /\ Dropped = n - 1 - k /\ Dropped' = Dropped
  BY <1>1, <1>2 DEF Recorded, Dropped
<1>4. ASSUME NEW i \in 1 .. k + 1 PROVE wire[i + Dropped][2] <= sentAt'[i]
  <2>1. CASE i \in 1 .. k
    BY <1>2, <2>1 DEF Rating, Bookkeeping
  <2>2. CASE i = k + 1
    <3>1. i + Dropped = n /\ n \in 1 .. Len(wire)
      BY <1>1, <1>2, <1>3, <2>2, EmptySeq DEF TypeOK, Rating, Bookkeeping
    <3> QED BY <1>2, <2>2, <3>1 DEF Rating, Bookkeeping
  <2> QED BY <1>2, <2>1, <2>2
<1>5. Bookkeeping'
  BY <1>1, <1>2, <1>3, <1>4 DEF Rating, Bookkeeping
<1> QED BY <1>1, <1>5 DEF Rating, WindowRespected

LEMMA TickKeepsRate == ASSUME TypeOK, Rating, Tick PROVE Rating'
<1>1. now' = now + 1 /\ UNCHANGED <<writer, sentAt, wire>>
  BY DEF Tick, running
<1>2. Recorded' = Recorded /\ Dropped' = Dropped /\ Dropped \in Int
  BY <1>1, WireTypes DEF Recorded, Dropped
<1>3. \A i \in 1 .. Len(wire) : wire[i][2] <= now'
  BY <1>1, WireTypes DEF Rating, Bookkeeping
<1>4. \A i \in 1 .. Dropped : wire[i][2] + Window <= now'
  <2>1. \A i \in 1 .. Dropped : i \in 1 .. Len(wire)
    BY WireTypes DEF Dropped, Recorded
  <2> QED BY <1>1, <2>1, WireTypes, WindowAssumption DEF Rating, Bookkeeping
<1> QED BY <1>1, <1>2, <1>3, <1>4 DEF Rating, Bookkeeping, WindowRespected
LEMMA RateKept == ASSUME TypeOK, InHand, Rating, [Next]_vars PROVE Rating'
<1>1. CASE \/ \E p \in Packets : enqueue(p) \/ Submit(p) \/ Return(p)
           \/ writeGatewayPriorityCurrent \/ PriorityLock \/ PriorityWrite
           \/ CancelGeneration \/ UNCHANGED vars
  <2>1. UNCHANGED <<now, writer, sentAt, wire>>
    BY <1>1 DEF enqueue, Submit, Return, TakeResult, Abandon, writeGatewayPriorityCurrent,
       PriorityLock, PriorityWrite, CancelGeneration, vars, running
  <2> QED BY <2>1, WaitingKeepsRate
<1>2. CASE Receive \/ StopRunning \/ failPending \/ waitGatewayWrite \/ LockForWrite
  <2>1. /\ UNCHANGED <<now, sentAt, wire>>
        /\ \/ writer' = writer
           \/ writer # "record" /\ writer' \notin {"lock", "write", "record"}
           \/ writer = "lock" /\ writer' = "write"
    BY <1>2 DEF Receive, StopRunning, failPending, waitGatewayWrite, LockForWrite
  <2> QED BY <2>1, WaitingKeepsRate
<1> QED BY <1>1, <1>2, waitForSlotKeepsRate, WriteJSONKeepsRate, RecordSentKeepsRate,
           TickKeepsRate DEF Next, run

-----------------------------------------------------------------------------
(* The way of a packet.                                                    *)

(* Nothing moves, calls may give up or take an answer that is there.       *)
LEMMA CallsKeepPassage ==
    ASSUME TypeOK, InHand, Passage, NEW p \in Packets, enqueue(p) \/ Return(p)
    PROVE  Passage'
<1>1. UNCHANGED <<requests, result, writer, request, wire>>
  BY DEF enqueue, Return, TakeResult, Abandon, running
<1>2. \A q \in Packets : /\ (Fresh(q))' => Fresh(q)
                         /\ call'[q] = "sent" => call[q] = "sent" \/ result[q] = "ok"
  BY DEF enqueue, Return, TakeResult, Abandon, Outcome, Fresh, TypeOK, Outcomes
<1> QED BY <1>1, <1>2 DEF Passage, Queued, Held, OnWire

(* A fresh packet is nowhere yet: it enters the queue once.                *)
LEMMA SubmitKeepsPassage ==
    ASSUME TypeOK, InHand, Passage, NEW p \in Packets, Submit(p) PROVE Passage'
<1> DEFINE n == Len(requests)
<1>1. /\ Len(requests') = n + 1 /\ n \in Nat
      /\ \A i \in 1 .. n : requests'[i] = requests[i]
      /\ requests'[n + 1] = p
  BY RequestsGrow DEF Submit
<1>2. UNCHANGED <<result, writer, request, wire>>
  BY DEF Submit, running
<1>3. Fresh(p) /\ ~Queued(p) /\ ~Held(p) /\ ~OnWire(p)
  BY DEF Submit, Fresh, Passage
<1>4. \A q \in Packets : (Queued(q))' <=> Queued(q) \/ q = p
  BY <1>1 DEF Queued
<1>5. \A q \in Packets : /\ (Fresh(q))' => Fresh(q) /\ q # p
                         /\ call'[q] = "sent" => call[q] = "sent"
  BY DEF Submit, Outcome, Fresh, TypeOK
<1>6. \A i, j \in 1 .. Len(requests') : requests'[i] = requests'[j] => i = j
  BY <1>1, <1>3 DEF Passage, Queued
<1>7. \A q \in Packets : (Held(q))' = Held(q) /\ (OnWire(q))' = OnWire(q)
  BY <1>2 DEF Held, OnWire
<1>8. writer' = "record" => (OnWire(request))'
  BY <1>2 DEF Passage, OnWire
<1> QED BY <1>2, <1>3, <1>4, <1>5, <1>6, <1>7, <1>8 DEF Passage

(* The head leaves the queue, for the writer's hand or with an error.      *)
LEMMA HeadLeaves ==
    ASSUME TypeOK, InHand, Passage, requests # <<>>, requests' = Tail(requests)
    PROVE  /\ \A q \in Packets : (Queued(q))' <=> Queued(q) /\ q # Head(requests)
           /\ \A i, j \in 1 .. Len(requests') : requests'[i] = requests'[j] => i = j
           /\ Head(requests) \in Packets /\ Queued(Head(requests))
<1> DEFINE n == Len(requests)
<1>1. /\ n \in Nat \ {0} /\ Len(requests') = n - 1
      /\ Head(requests) \in Packets /\ Head(requests) = requests[1]
      /\ \A i \in 1 .. n - 1 : requests'[i] = requests[i + 1]
  BY RequestsShrink
<1>2. \A i, j \in 1 .. n : requests[i] = requests[j] => i = j
  BY DEF Passage
<1>3. ASSUME NEW q \in Packets PROVE (Queued(q))' <=> Queued(q) /\ q # Head(requests)
  <2>1. ASSUME (Queued(q))' PROVE Queued(q) /\ q # Head(requests)
    <3>1. PICK i \in 1 .. n - 1 : requests'[i] = q
      BY <1>1, <2>1 DEF Queued
    <3>2. i + 1 \in 1 .. n /\ requests[i + 1] = q /\ i + 1 # 1 /\ 1 \in 1 .. n
      BY <1>1, <3>1
    <3> QED BY <1>1, <1>2, <3>2 DEF Queued
  <2>2. ASSUME Queued(q), q # Head(requests) PROVE (Queued(q))'
    <3>1. PICK i \in 1 .. n : requests[i] = q
      BY <2>2 DEF Queued
    <3>2. i - 1 \in 1 .. n - 1 /\ requests'[i - 1] = q
      BY <1>1, <2>2, <3>1
    <3> QED BY <1>1, <3>2 DEF Queued
  <2> QED BY <2>1, <2>2
<1>4. \A i, j \in 1 .. n - 1 : requests'[i] = requests'[j] => i = j
  <2> SUFFICES ASSUME NEW i \in 1 .. n - 1, NEW j \in 1 .. n - 1, requests'[i] = requests'[j]
               PROVE  i = j
    OBVIOUS
  <2>1. requests[i + 1] = requests[j + 1] /\ i + 1 \in 1 .. n /\ j + 1 \in 1 .. n
    BY <1>1
  <2>2. i + 1 = j + 1
    BY <1>2, <2>1
  <2> QED BY <1>1, <2>2
<1>5. Queued(Head(requests))
  BY <1>1 DEF Queued
<1> QED BY <1>1, <1>3, <1>4, <1>5

LEMMA TakingKeepsPassage ==
    ASSUME TypeOK, InHand, Passage, Receive \/ failPending PROVE Passage'
<1>1. CASE UNCHANGED <<requests, result>> /\ writer' = "ended" /\ writer = "failPending"
           /\ UNCHANGED <<call, request, wire>>
  BY <1>1 DEF Passage, Queued, Held, OnWire, Fresh, Busy
<1>2. CASE requests # <<>> /\ requests' = Tail(requests)
  <2> DEFINE p == Head(requests)
  <2>1. /\ \A q \in Packets : (Queued(q))' <=> Queued(q) /\ q # p
        /\ \A i, j \in 1 .. Len(requests') : requests'[i] = requests'[j] => i = j
        /\ p \in Packets /\ Queued(p)
    BY <1>2, HeadLeaves
  <2>2. UNCHANGED <<call, wire>> /\ writer \notin Busy /\ writer' # "record"
        /\ (writer' \in Busy => request' = p)
    BY <1>2 DEF Receive, failPending, Busy
  <2>3. \A q \in Packets : result'[q] = "ok" => result[q] = "ok"
    BY DEF Receive, failPending, Answer, TypeOK
  <2> HIDE DEF p
  <2>4. \A q \in Packets : (Held(q))' => q = p
    BY <2>2 DEF Held
  <2>5. \A q \in Packets : (OnWire(q))' = OnWire(q) /\ (Fresh(q))' = Fresh(q)
    BY <2>2 DEF OnWire, Fresh
  <2> QED BY <2>1, <2>2, <2>3, <2>4, <2>5 DEF Passage
<1> QED BY <1>1, <1>2 DEF Receive, RemainingRequests, failPending

(* The writer keeps its request, or drops it with an error, or, when it is *)
(* on the wire and recorded, with a success.                               *)
LEMMA HandKeepsPassage ==
    ASSUME TypeOK, InHand, Passage, UNCHANGED <<call, requests, wire>>,
           \/ writer' \in Busy /\ request' = request /\ writer \in Busy /\ writer # "record"
              /\ writer' # "record" /\ UNCHANGED result
           \/ writer' \notin Busy /\ \/ UNCHANGED result
                                     \/ Answer(request, "err")
                                     \/ writer = "record" /\ Answer(request, "ok")
    PROVE  Passage'
<1>1. \A q \in Packets : (Held(q))' => Held(q) /\ writer # "record"
  BY DEF Held
<1>2. \A q \in Packets : result'[q] = "ok" => result[q] = "ok" \/ OnWire(q)
  BY DEF Answer, TypeOK, Passage, InHand, Busy
<1>3. \A q \in Packets : /\ (OnWire(q))' = OnWire(q) /\ (Fresh(q))' = Fresh(q)
                         /\ (Queued(q))' = Queued(q)
  BY DEF OnWire, Fresh, Queued
<1>4. writer' # "record"
  BY DEF Busy
<1>5. \A i, j \in 1 .. Len(requests') : requests'[i] = requests'[j] => i = j
  BY DEF Passage
<1>6. \A i, j \in 1 .. Len(wire') : wire'[i][1] = wire'[j][1] => i = j
  BY DEF Passage
<1> QED BY <1>1, <1>2, <1>3, <1>4, <1>5, <1>6 DEF Passage

(* The request in hand goes on the wire, where it was not.                 *)
LEMMA WriteJSONKeepsPassage ==
    ASSUME TypeOK, InHand, Passage, WriteJSON PROVE Passage'
<1>1. CASE UNCHANGED wire /\ writer' = "select" /\ Answer(request, "err")
  BY <1>1, HandKeepsPassage DEF WriteJSON, Busy
<1>2. CASE writer' = "record" /\ wire' = Append(wire, <<request, now>>)
           /\ UNCHANGED <<request, result>>
  <2> DEFINE n == Len(wire)
  <2>1. /\ Len(wire') = n + 1 /\ n \in Nat
        /\ \A i \in 1 .. n : wire'[i] = wire[i]
        /\ wire'[n + 1][1] = request /\ request \in Packets
    BY <1>2, WireGrows DEF WriteJSON, InHand, Busy
  <2>2. Held(request) /\ ~OnWire(request) /\ UNCHANGED <<call, requests>>
    BY <2>1 DEF WriteJSON, Held, Busy, Passage
  <2>3. \A q \in Packets : (OnWire(q))' <=> OnWire(q) \/ q = request
    BY <2>1 DEF OnWire
  <2>4. \A i, j \in 1 .. Len(wire') : wire'[i][1] = wire'[j][1] => i = j
    BY <2>1, <2>2 DEF Passage, OnWire
  <2>5. \A q \in Packets : /\ (Fresh(q))' = Fresh(q) /\ (Queued(q))' = Queued(q)
                           /\ (Held(q))' <=> q = request
    BY <1>2, <2>2 DEF Fresh, Queued, Held, Busy
  <2>6. \A q \in Packets : Held(q) <=> q = request
    BY DEF Held, WriteJSON, Busy
  <2>7. (OnWire(request))'
    BY <1>2, <2>1 DEF OnWire
  <2>8. \A i, j \in 1 .. Len(requests') : requests'[i] = requests'[j] => i = j
    BY <2>2 DEF Passage
  <2> QED BY <1>2, <2>1, <2>2, <2>3, <2>4, <2>5, <2>6, <2>7, <2>8 DEF Passage
<1> QED BY <1>1, <1>2 DEF WriteJSON

LEMMA PassageKept ==
    ASSUME TypeOK, InHand, Bookkeeping, Passage, [Next]_vars PROVE Passage'
<1>1. CASE waitForSlot \/ waitGatewayWrite \/ LockForWrite \/ RecordSent
  BY <1>1, HandKeepsPassage DEF waitForSlot, waitGatewayWrite, LockForWrite, RecordSent, calls,
     Busy
<1>2. CASE \/ writeGatewayPriorityCurrent \/ PriorityLock \/ PriorityWrite
           \/ CancelGeneration \/ Tick \/ UNCHANGED vars \/ StopRunning
  <2>1. UNCHANGED <<call, result, requests, request, wire>>
        /\ (writer' = writer \/ writer' \notin Busy)
    BY <1>2 DEF writeGatewayPriorityCurrent, PriorityLock, PriorityWrite, CancelGeneration, Tick,
       vars, StopRunning, running, calls, Busy
  <2> QED BY <2>1 DEF Passage, Fresh, Queued, Held, OnWire, Busy
<1> QED BY <1>1, <1>2, CallsKeepPassage, SubmitKeepsPassage, TakingKeepsPassage,
           WriteJSONKeepsPassage DEF Next, run

-----------------------------------------------------------------------------
LEMMA InitIInv == Init => IInv
<1> SUFFICES ASSUME Init PROVE IInv
  OBVIOUS
<1>1. Len(wire) = 0 /\ Len(sentAt) = 0 /\ Len(requests) = 0 /\ writer = "select"
  BY EmptySeq DEF Init
<1>2. InHand /\ Bookkeeping /\ WindowRespected
  BY <1>1, LimitAssumption
     DEF InHand, Busy, Bookkeeping, Dropped, Recorded, WindowRespected
<1>3. Passage
  BY <1>1 DEF Init, Passage, Queued, Held, OnWire, Busy
<1> QED BY <1>2, <1>3, InitTypeOK DEF IInv

LEMMA NextIInv == IInv /\ [Next]_vars => IInv'
<1> SUFFICES ASSUME IInv, [Next]_vars PROVE IInv'
  OBVIOUS
<1>1. TypeOK' /\ InHand'
  <2>1. CASE \/ writeGatewayPriorityCurrent \/ PriorityLock \/ PriorityWrite
             \/ CancelGeneration \/ Tick \/ UNCHANGED vars
    <3>1. UNCHANGED <<requests, done, call, result, writer, request, wakeAt, sentAt, wire>>
      BY <2>1 DEF writeGatewayPriorityCurrent, PriorityLock, PriorityWrite,
         CancelGeneration, Tick, vars, calls, running
    <3>2. now' \in Nat /\ ctxDone' \in BOOLEAN
      <4>1. now \in Nat /\ ctxDone \in BOOLEAN
        BY DEF IInv, TypeOK
      <4>2. CASE Tick
        BY <4>1, <4>2 DEF Tick
      <4>3. CASE ~Tick
        <5>1. now' = now
          BY <2>1, <4>3 DEF writeGatewayPriorityCurrent, PriorityLock, PriorityWrite,
             CancelGeneration, vars
        <5>2. ctxDone' = ctxDone \/ ctxDone' = TRUE
          BY <2>1, <4>3 DEF writeGatewayPriorityCurrent, PriorityLock, PriorityWrite,
             CancelGeneration, vars
        <5> QED BY <4>1, <5>1, <5>2
      <4> QED BY <4>2, <4>3
    <3>3. /\ mu' \in {"free", "queue", "priority"} /\ priority' \in {"idle", "lock", "write"}
          /\ priorities' \in 0 .. MaxPriority
      BY <2>1, BoundsAssumption
         DEF IInv, TypeOK, writeGatewayPriorityCurrent, PriorityLock, PriorityWrite,
             CancelGeneration, Tick, vars, prioritized
    <3> QED BY <3>1, <3>2, <3>3 DEF IInv, TypeOK, InHand
  <2>2. ASSUME NEW p \in Packets, enqueue(p) \/ Submit(p) \/ Return(p)
        PROVE  TypeOK' /\ InHand'
    <3>1. UNCHANGED <<writer, request>>
      BY <2>2 DEF enqueue, Submit, Return, TakeResult, Abandon, running
    <3> QED BY <2>2, <3>1, CallTypes DEF IInv, InHand
  <2> QED BY <2>1, <2>2, WriterTypes DEF IInv, Next
<1>2. Bookkeeping' /\ WindowRespected'
  BY RateKept DEF IInv, Rating
<1>3. Passage'
  BY PassageKept DEF IInv
<1> QED BY <1>1, <1>2, <1>3 DEF IInv

-----------------------------------------------------------------------------
(* The writer's fields keep their types; in particular the queue and the   *)
(* times it keeps stay within their limits.                                *)
THEOREM TypeCorrect == Spec => []TypeOK
<1>1. IInv => TypeOK
  BY DEF IInv
<1> QED BY <1>1, InitIInv, NextIInv, PTL DEF Spec

(* Of any Limit + 1 packets in a row the last leaves at least Window after *)
(* the first, however long writes take.                                    *)
THEOREM RateRespected == Spec => []WindowRespected
<1>1. IInv => WindowRespected
  BY DEF IInv
<1> QED BY <1>1, InitIInv, NextIInv, PTL DEF Spec

(* A packet is sent at most once, and enqueue returns nil only for a packet*)
(* that was.                                                               *)
THEOREM NilIsTruthful == Spec => []NilMeansSent
<1>1. IInv => NilMeansSent
  BY DEF IInv, Passage, OnWire, NilMeansSent
<1> QED BY <1>1, InitIInv, NextIInv, PTL DEF Spec
=============================================================================
