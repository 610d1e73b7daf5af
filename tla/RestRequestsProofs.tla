-------------------------- MODULE RestRequestsProofs --------------------------
(***************************************************************************)
(* Proofs about RestRequests for any requests, routes, hashes, limits and  *)
(* windows, and any number of pauses: the proactive window keeps the budget*)
(* of RateWindow, an unsafe request takes effect once, pauses are waited   *)
(* for, the cache of buckets stays consistent, a Bucket is locked by the   *)
(* one request that works with it, and the window of invalid responses     *)
(* exceeds its limit by no more than the requests under way.               *)
(***************************************************************************)
EXTENDS RestRequests, FiniteSetTheorems, SequenceTheorems, WellFoundedInduction, TLAPS

-----------------------------------------------------------------------------
(* Types of what a request carries.                                        *)
Responses ==
    {NoResponse}
    \cup [kind : {"ok", "failed", "invalid", "limited"}, remaining : {0, 1}, after : Nat,
          hash : Hashes]
    \cup [kind : {"paused"}, via : {"header", "body"}, after : Nat, until : Nat]
Attempts == [response : Responses, retries : Nat, totalWait : Nat]
Labels == Holding \cup {"start", "ended", "lock", "record", "backoff"}

Typed ==
    /\ now \in Nat /\ global \in Nat /\ learned \in Nat /\ pausedUntil \in Nat
    /\ route \in [Requests -> RouteKeys]
    /\ hash \in [RouteKeys -> Hashes]
    /\ pc \in [Requests -> Labels]
    /\ attempt \in [Requests -> Attempts]
    /\ executed \in [Unsafe -> Nat]

(* An unsafe request took effect at most once, and one that did is past the*)
(* attempt: it is over or its response, which allows no retry, is handled. *)
Handling == {"release", "canonical", "record"}
Once ==
    \A p \in Unsafe :
        \/ executed[p] = 0
        \/ /\ executed[p] = 1
           /\ \/ pc[p] = "ended"
              \/ pc[p] \in Handling /\ attempt[p].response.kind \in {"ok", "failed"}

(* The limiter's pause covers what it was told, and each response that is  *)
(* yet to be processed will set it no earlier than the end it told.        *)
PauseCovered ==
    /\ learned <= global
    /\ \A p \in Requests :
           LET r == attempt[p].response IN r.kind = "paused" => r.until <= now + r.after

-----------------------------------------------------------------------------
LEMMA MaxOf == 
    ASSUME NEW S \in SUBSET Int, NEW m \in S, \A x \in S : m >= x
    PROVE  Max(S) \in S /\ \A x \in S : Max(S) >= x
BY DEF Max

LEMMA MaxOfTwo ==
    ASSUME NEW a \in Nat, NEW b \in Nat
    PROVE  /\ Max({a, b}) \in Nat
           /\ Max({a, b}) >= a /\ Max({a, b}) >= b
<1>1. CASE a >= b
  BY <1>1, MaxOf, a \in {a, b}, {a, b} \in SUBSET Int
<1>2. CASE b >= a
  BY <1>2, MaxOf, b \in {a, b}, {a, b} \in SUBSET Int
<1> QED BY <1>1, <1>2

LEMMA MaxIsOne ==
    ASSUME NEW a \in Nat, NEW b \in Nat PROVE Max({a, b}) \in {a, b}
<1>1. CASE a >= b
  BY <1>1, MaxOf, a \in {a, b}, {a, b} \in SUBSET Int
<1>2. CASE b >= a
  BY <1>2, MaxOf, b \in {a, b}, {a, b} \in SUBSET Int
<1> QED BY <1>1, <1>2

-----------------------------------------------------------------------------
(* What the steps do to the labels, the attempts and the effects.          *)

(* A step of p that keeps the response it has, or drops it.                *)
Keeps(p) ==
    /\ attempt' \in [Requests -> Attempts]
    /\ \A q \in Requests : q # p => attempt'[q] = attempt[q]
    /\ attempt'[p].response \in {attempt[p].response, NoResponse}

LEMMA AttemptParts ==
    ASSUME Typed, NEW p \in Requests, NEW r \in Responses, NEW n \in Nat, NEW m \in Nat
    PROVE  /\ [attempt[p] EXCEPT !.response = r] \in Attempts
           /\ [attempt[p] EXCEPT !.retries = n] \in Attempts
           /\ [attempt[p] EXCEPT !.totalWait = m, !.response = r] \in Attempts
           /\ attempt[p].response \in Responses
           /\ attempt[p].retries \in Nat /\ attempt[p].totalWait \in Nat
BY DEF Typed, Attempts

LEMMA NoAttemptTyped == NoResponse \in Responses /\ NoAttempt \in Attempts
BY DEF NoAttempt, Attempts, Responses

LEMMA AttemptSet ==
    ASSUME Typed, NEW p \in Requests, NEW a \in Attempts, attempt' = [attempt EXCEPT ![p] = a]
    PROVE  /\ attempt' \in [Requests -> Attempts]
           /\ attempt'[p] = a
           /\ \A q \in Requests : q # p => attempt'[q] = attempt[q]
BY DEF Typed

LEMMA LabelSet ==
    ASSUME Typed, NEW p \in Requests, NEW label \in Labels, Go(p, label)
    PROVE  /\ pc' \in [Requests -> Labels]
           /\ pc'[p] = label
           /\ \A q \in Requests : q # p => pc'[q] = pc[q]
BY DEF Typed, Go

LEMMA Ends ==
    ASSUME Typed, NEW p \in Requests, End(p)
    PROVE  Keeps(p) /\ Go(p, "ended")
BY NoAttemptTyped, AttemptSet DEF End, Keeps, NoAttempt

LEMMA LooksUp ==
    ASSUME Typed, NEW p \in Requests, NEW n \in Nat, LookUp(p, n)
    PROVE  Keeps(p) /\ \E label \in {"lock", "ended"} : Go(p, label)
<1>1. CASE PassesBreaker(p)
  <2>1. attempt' = [attempt EXCEPT ![p] = [attempt[p] EXCEPT !.retries = n]] /\ Go(p, "lock")
    BY <1>1 DEF LookUp
  <2>2. [attempt[p] EXCEPT !.retries = n] \in Attempts
    BY AttemptParts, NoAttemptTyped
  <2>3. [attempt[p] EXCEPT !.retries = n].response = attempt[p].response
    BY DEF Typed, Attempts
  <2> QED BY <2>1, <2>2, <2>3, AttemptSet DEF Keeps
<1>2. CASE ~PassesBreaker(p)
  BY <1>2, Ends DEF LookUp
<1> QED BY <1>1, <1>2

LEMMA LookUpKeepsRoute ==
    ASSUME NEW p \in Requests, NEW n \in Nat, LookUp(p, n) PROVE UNCHANGED route
BY DEF LookUp, getBucket, keys

LEMMA RetriesOrFails ==
    ASSUME Typed, NEW p \in Requests, NEW may \in BOOLEAN, NEW delay \in Nat,
           RetryOrFail(p, may, delay)
    PROVE  /\ Keeps(p)
           /\ \/ Go(p, "ended")
              \/ may /\ Go(p, "backoff")
<1>1. CASE End(p)
  BY <1>1, Ends
<1>2. CASE /\ attempt' = [attempt EXCEPT ![p].totalWait = @ + delay,
                                         ![p].response = NoResponse]
           /\ Go(p, "backoff") /\ may
  <2> DEFINE m == attempt[p].totalWait + delay
             a == [attempt[p] EXCEPT !.totalWait = m, !.response = NoResponse]
  <2>1. m \in Nat
    BY DEF Typed, Attempts
  <2>2. a \in Attempts
    BY <2>1, AttemptParts, NoAttemptTyped
  <2>3. attempt' = [attempt EXCEPT ![p] = a] /\ a.response = NoResponse
    BY <1>2 DEF Typed, Attempts
  <2> QED BY <1>2, <2>2, <2>3, AttemptSet DEF Keeps
<1> QED BY <1>1, <1>2 DEF RetryOrFail

(* The steps of a request outside Do and the processing of its response.   *)
Waits(p) ==
    \/ LockBucketRoute(p) \/ Locking(p) \/ Cancelled(p) \/ CheckInvalidRequestLimit(p)
    \/ Retry(p)

LEMMA WaitsShape ==
    ASSUME Typed, NEW p \in Requests, Waits(p)
    PROVE  /\ Keeps(p)
           /\ UNCHANGED <<route, now, global, discord, learned>>
           /\ pc[p] \notin Handling \cup {"send", "ended"}
           /\ \E label \in {"lock", "reserve", "sleep", "breaker", "send", "ended"} :
                  Go(p, label)
<1> USE DEF Handling, keys
<1>0. UNCHANGED attempt => Keeps(p)
  BY DEF Typed, Keeps
<1>1. CASE LockBucketRoute(p)
  BY <1>1, LooksUp, LookUpKeepsRoute, 0 \in Nat DEF LockBucketRoute
<1>2. CASE Locking(p)
  BY <1>0, <1>2 DEF Locking, GetWaitTime, reserveGlobalRequest
<1>3. CASE Cancelled(p)
  BY <1>3, Ends DEF Cancelled, ReleaseAndFail
<1>4. CASE CheckInvalidRequestLimit(p)
  BY <1>0, <1>4, Ends DEF CheckInvalidRequestLimit, ReleaseAndFail
<1>5. CASE Retry(p)
  <2>1. attempt[p].retries + 1 \in Nat
    BY DEF Typed, Attempts
  <2> QED BY <1>5, <2>1, LooksUp, LookUpKeepsRoute, Ends DEF Retry, keys
<1> QED BY <1>1, <1>2, <1>3, <1>4, <1>5 DEF Waits

LEMMA DoFailsShape ==
    ASSUME Typed, RetryAssumption, NEW p \in Requests, DoFails(p)
    PROVE  /\ Keeps(p)
           /\ UNCHANGED <<keys, now, global, hash, pausedUntil, learned>>
           /\ pc[p] = "send"
           /\ \E n \in {0, 1} : Effects(p, n)
           /\ Go(p, "ended") \/ (Go(p, "backoff") /\ p \notin Unsafe)
<1>1. RetryDelay \in Nat /\ canRetryRESTMethod(p) \in BOOLEAN
  BY DEF RetryAssumption, canRetryRESTMethod
<1>2. CASE End(p)
  BY <1>2, Ends DEF DoFails
<1>3. CASE RetryOrFail(p, canRetryRESTMethod(p), RetryDelay)
  BY <1>1, <1>3, RetriesOrFails DEF DoFails, canRetryRESTMethod
<1>4. \E n \in {0, 1} : Effects(p, n)
  BY DEF DoFails
<1> QED BY <1>2, <1>3, <1>4 DEF DoFails

LEMMA DoReturnsShape ==
    ASSUME Typed, RetryAssumption, NEW p \in Requests, DoReturns(p)
    PROVE  /\ attempt' \in [Requests -> Attempts]
           /\ \A q \in Requests : q # p => attempt'[q] = attempt[q]
           /\ UNCHANGED <<keys, now, global, hash, learned>>
           /\ pc[p] = "send" /\ Go(p, "release")
           /\ pausedUntil' \in Nat
           /\ \/ UNCHANGED executed
              \/ Effects(p, 0)
              \/ Effects(p, 1) /\ attempt'[p].response.kind \in {"ok", "failed"}
           /\ attempt'[p].response.kind = "paused" =>
                  attempt'[p].response.until = now + attempt'[p].response.after
<1>1. \A r \in Responses : [attempt[p] EXCEPT !.response = r] \in Attempts
  BY DEF Typed, Attempts
<1>2. ASSUME NEW r \in Responses, attempt' = [attempt EXCEPT ![p].response = r]
      PROVE  /\ attempt' \in [Requests -> Attempts]
             /\ \A q \in Requests : q # p => attempt'[q] = attempt[q]
             /\ attempt'[p].response = r
  <2>1. attempt' = [attempt EXCEPT ![p] = [attempt[p] EXCEPT !.response = r]]
    BY <1>2
  <2>2. [attempt[p] EXCEPT !.response = r].response = r
    BY DEF Typed, Attempts
  <2> QED BY <1>1, <2>1, <2>2, AttemptSet
<1>3. CASE Answer(p)
  <2>1. PICK kind \in DOMAIN EffectsOf, after \in ResetAfters :
          /\ attempt' = [attempt EXCEPT ![p].response =
                [kind |-> kind, remaining |-> IF kind = "ok" THEN 1 ELSE 0, after |-> after,
                 hash |-> hash[route[p]]]]
          /\ \E n \in EffectsOf[kind] : Effects(p, n)
    BY <1>3 DEF Answer
  <2> DEFINE r == [kind |-> kind, remaining |-> IF kind = "ok" THEN 1 ELSE 0, after |-> after,
                   hash |-> hash[route[p]]]
  <2>2. kind \in {"ok", "failed", "invalid", "limited"} /\ after \in Nat
    BY DEF EffectsOf, RetryAssumption
  <2>3. r \in Responses /\ r.kind = kind
    BY <2>2 DEF Typed, Responses
  <2>4. \/ Effects(p, 0)
        \/ Effects(p, 1) /\ kind \in {"ok", "failed"}
    BY <2>1, <2>2 DEF EffectsOf
  <2>5. /\ attempt' \in [Requests -> Attempts]
        /\ \A q \in Requests : q # p => attempt'[q] = attempt[q]
        /\ attempt'[p].response = r
    BY <1>2, <2>1, <2>3
  <2>6. UNCHANGED pausedUntil /\ pausedUntil \in Nat
    BY <1>3 DEF Answer, Typed
  <2>7. /\ UNCHANGED <<keys, now, global, hash, learned>>
        /\ pc[p] = "send" /\ Go(p, "release")
    BY DEF DoReturns, limiter
  <2> HIDE DEF r
  <2> QED BY <2>2, <2>3, <2>4, <2>5, <2>6, <2>7
<1>4. CASE AnswerPaused(p)
  <2>1. PICK after \in (IF Paused THEN {pausedUntil - now} ELSE ResetAfters),
             via \in {"header", "body"} :
          /\ attempt' = [attempt EXCEPT ![p].response =
                [kind |-> "paused", via |-> via, after |-> after, until |-> now + after]]
          /\ pausedUntil' = now + after
    BY <1>4 DEF AnswerPaused
  <2> DEFINE r == [kind |-> "paused", via |-> via, after |-> after, until |-> now + after]
  <2>2. after \in Nat /\ now + after \in Nat
    BY DEF Paused, Typed, RetryAssumption
  <2>3. r \in Responses /\ r.kind = "paused" /\ r.until = now + r.after
    BY <2>2 DEF Responses
  <2>5. /\ attempt' \in [Requests -> Attempts]
        /\ \A q \in Requests : q # p => attempt'[q] = attempt[q]
        /\ attempt'[p].response = r
    BY <1>2, <2>1, <2>3
  <2>6. UNCHANGED executed /\ pausedUntil' \in Nat
    BY <1>4, <2>1, <2>2 DEF AnswerPaused
  <2>7. /\ UNCHANGED <<keys, now, global, hash, learned>>
        /\ pc[p] = "send" /\ Go(p, "release")
    BY DEF DoReturns, limiter
  <2> HIDE DEF r
  <2> QED BY <2>3, <2>5, <2>6, <2>7
<1> QED BY <1>3, <1>4 DEF DoReturns

(* Release, with its headers and its pause; then the canonical Bucket.     *)
LEMMA ReleasesShape ==
    ASSUME Typed, NEW p \in Requests, ReleaseHeaders(p) \/ UpdateCanonical(p)
    PROVE  /\ UNCHANGED <<keys, now, attempt, discord>>
           /\ pc[p] \in Handling
           /\ \E label \in {"canonical", "record"} : Go(p, label)
           /\ LET r == attempt[p].response
              IN  \/ UNCHANGED <<global, learned>>
                  \/ r.kind = "paused" /\ global' = now + r.after /\ learned' = r.until
<1>1. CASE ReleaseHeaders(p)
  <2>1. \E label \in {"canonical", "record"} : Go(p, label)
    BY <1>1 DEF ReleaseHeaders
  <2> QED BY <1>1, <2>1 DEF ReleaseHeaders, PausesBot, Handling
<1>2. CASE UpdateCanonical(p)
  BY <1>2 DEF UpdateCanonical, Handling
<1> QED BY <1>1, <1>2

LEMMA HandlesShape ==
    ASSUME Typed, RetryAssumption, NEW p \in Requests, HandleResponse(p)
    PROVE  /\ Keeps(p)
           /\ UNCHANGED <<keys, now, discord>>
           /\ pc[p] = "record"
           /\ LET r == attempt[p].response
              IN  /\ \/ UNCHANGED <<global, learned>>
                     \/ /\ r.kind = "paused"
                        /\ global' = Max({global, now + r.after})
                        /\ learned' = Max({learned, r.until})
                  /\ \/ Go(p, "ended")
                     \/ Go(p, "backoff") /\ (r.kind \in {"ok", "failed"} => p \notin Unsafe)
<1> DEFINE r == attempt[p].response
<1>1. RetryDelay \in Nat /\ canRetryRESTMethod(p) \in BOOLEAN
  BY DEF RetryAssumption, canRetryRESTMethod
<1>2. r \in Responses
  BY DEF Typed, Attempts
<1>3. /\ Keeps(p)
      /\ \/ Go(p, "ended")
         \/ Go(p, "backoff") /\ (r.kind \in {"ok", "failed"} => p \notin Unsafe)
  <2>1. CASE r.kind \in {"limited", "paused"}
    <3>1. RetryOrFail(p, MayRetryRateLimit(p), r.after)
      BY <2>1 DEF HandleResponse
    <3>2. r.after \in Nat /\ MayRetryRateLimit(p) \in BOOLEAN
      BY <1>2, <2>1 DEF Responses, NoResponse, MayRetryRateLimit
    <3> QED BY <2>1, <3>1, <3>2, RetriesOrFails
  <2>2. CASE r.kind = "failed" /\ ~Blocked(invalid')
    <3>1. RetryOrFail(p, canRetryRESTMethod(p), RetryDelay)
      BY <2>2 DEF HandleResponse
    <3> QED BY <1>1, <3>1, RetriesOrFails DEF canRetryRESTMethod
  <2>3. CASE /\ r.kind \notin {"limited", "paused"}
             /\ ~(r.kind = "failed" /\ ~Blocked(invalid'))
    <3>1. End(p)
      BY <2>3 DEF HandleResponse
    <3> QED BY <3>1, Ends
  <2> QED BY <2>1, <2>2, <2>3
<1> QED BY <1>3 DEF HandleResponse

(* The steps of Next, as the proofs tell them apart.                       *)
LEMMA StepKinds ==
    ASSUME [Next]_vars
    PROVE  \/ \E p \in Requests :
                  \/ Waits(p) \/ DoFails(p) \/ DoReturns(p)
                  \/ ReleaseHeaders(p) \/ UpdateCanonical(p) \/ HandleResponse(p)
           \/ \E r \in Moving : Rehash(r)
           \/ Tick
           \/ UNCHANGED vars
BY DEF Next, Step, Waits

-----------------------------------------------------------------------------
LEMMA TypedKept ==
    ASSUME Typed, RetryAssumption, [Next]_vars PROVE Typed'
<1> DEFINE Calls == pc \in [Requests -> Labels] /\ attempt \in [Requests -> Attempts]
<1>1. ASSUME NEW p \in Requests, Waits(p) PROVE Typed'
  <2>1. Calls'
    BY <1>1, WaitsShape, LabelSet DEF Keeps, Labels, Holding
  <2> QED BY <1>1, <2>1, WaitsShape DEF Typed, keys, discord
<1>2. ASSUME NEW p \in Requests, NEW n \in {0, 1}, Effects(p, n)
      PROVE  executed' \in [Unsafe -> Nat]
  BY <1>2 DEF Effects, Typed
<1>3. ASSUME NEW p \in Requests, DoFails(p) PROVE Typed'
  <2>1. Calls'
    BY <1>3, DoFailsShape, LabelSet DEF Keeps, Labels
  <2> QED BY <1>2, <1>3, <2>1, DoFailsShape DEF Typed, keys
<1>4. ASSUME NEW p \in Requests, DoReturns(p) PROVE Typed'
  <2>1. Calls'
    BY <1>4, DoReturnsShape, LabelSet DEF Labels, Holding
  <2>2. executed' \in [Unsafe -> Nat]
    BY <1>2, <1>4, DoReturnsShape DEF Typed
  <2> QED BY <1>4, <2>1, <2>2, DoReturnsShape DEF Typed, keys
<1>5. ASSUME NEW p \in Requests, attempt[p].response.kind = "paused"
      PROVE  /\ attempt[p].response.after \in Nat /\ attempt[p].response.until \in Nat
             /\ now + attempt[p].response.after \in Nat
  <2>1. attempt[p].response \in Responses /\ now \in Nat
    BY DEF Typed, Attempts
  <2> QED BY <1>5, <2>1 DEF Responses, NoResponse
<1>6. ASSUME NEW p \in Requests, ReleaseHeaders(p) \/ UpdateCanonical(p) PROVE Typed'
  <2>1. pc' \in [Requests -> Labels]
    BY <1>6, ReleasesShape, LabelSet DEF Labels, Holding
  <2>2. global' \in Nat /\ learned' \in Nat
    BY <1>5, <1>6, ReleasesShape DEF Typed
  <2> QED BY <1>6, <2>1, <2>2, ReleasesShape DEF Typed, keys, discord
<1>7. ASSUME NEW p \in Requests, HandleResponse(p) PROVE Typed'
  <2>1. Calls'
    BY <1>7, HandlesShape, LabelSet DEF Keeps, Labels
  <2>2. global' \in Nat /\ learned' \in Nat
    BY <1>5, <1>7, HandlesShape, MaxOfTwo DEF Typed
  <2> QED BY <1>7, <2>1, <2>2, HandlesShape DEF Typed, keys, discord
<1>8. CASE \/ \E r \in Moving : Rehash(r)
           \/ Tick \/ UNCHANGED vars
  BY <1>8 DEF Typed, Rehash, Tick, vars, keys, limiter, discord
<1> QED BY <1>1, <1>3, <1>4, <1>6, <1>7, <1>8, StepKinds

-----------------------------------------------------------------------------
(* Unsafe requests.                                                        *)
LEMMA OnceKept ==
    ASSUME Typed, RetryAssumption, Once, [Next]_vars PROVE Once'
<1>1. ASSUME NEW p \in Requests, Waits(p) PROVE Once'
  <2>1. pc[p] \notin Handling \cup {"ended"} /\ UNCHANGED executed
    BY <1>1, WaitsShape DEF discord
  <2>2. \A q \in Requests : q # p => UNCHANGED <<pc[q], attempt[q]>>
    BY <1>1, WaitsShape, LabelSet DEF Keeps, Labels, Holding
  <2> QED BY <2>1, <2>2, RetryAssumption DEF Once, RetryAssumption
<1>2. ASSUME NEW p \in Requests, DoFails(p) PROVE Once'
  <2>1. PICK n \in {0, 1} : Effects(p, n)
    BY <1>2, DoFailsShape
  <2>2. p \in Unsafe => executed[p] = 0 /\ pc'[p] = "ended"
    BY <1>2, DoFailsShape, LabelSet DEF Once, Handling, Labels
  <2>3. \A q \in Requests : q # p => UNCHANGED <<pc[q], attempt[q]>>
    BY <1>2, DoFailsShape, LabelSet DEF Keeps, Labels
  <2>4. \A q \in Unsafe : executed'[q] = executed[q] + (IF q = p THEN n ELSE 0)
    BY <2>1 DEF Effects
  <2>5. \A q \in Unsafe : q # p => executed'[q] = executed[q]
    BY <2>4 DEF Typed
  <2>6. p \in Unsafe => executed'[p] = n
    BY <2>2, <2>4
  <2> QED BY <2>2, <2>3, <2>5, <2>6 DEF Once, RetryAssumption
<1>3. ASSUME NEW p \in Requests, DoReturns(p) PROVE Once'
  <2>1. p \in Unsafe => executed[p] = 0
    BY <1>3, DoReturnsShape DEF Once, Handling
  <2>2. pc'[p] = "release" /\ \A q \in Requests : q # p => UNCHANGED <<pc[q], attempt[q]>>
    BY <1>3, DoReturnsShape, LabelSet DEF Labels, Holding
  <2>3. /\ \A q \in Unsafe : q # p => executed'[q] = executed[q]
        /\ p \in Unsafe => \/ executed'[p] = 0
                           \/ executed'[p] = 1 /\ attempt'[p].response.kind \in {"ok", "failed"}
    <3>1. CASE UNCHANGED executed
      BY <2>1, <3>1
    <3>2. CASE Effects(p, 0)
      BY <2>1, <3>2 DEF Effects, Typed
    <3>3. CASE Effects(p, 1) /\ attempt'[p].response.kind \in {"ok", "failed"}
      BY <2>1, <3>3 DEF Effects, Typed
    <3> QED BY <1>3, <3>1, <3>2, <3>3, DoReturnsShape
  <2> QED BY <2>2, <2>3 DEF Once, Handling, RetryAssumption
<1>4. ASSUME NEW p \in Requests, ReleaseHeaders(p) \/ UpdateCanonical(p) PROVE Once'
  <2>1. pc[p] \in Handling /\ pc'[p] \in Handling /\ UNCHANGED <<attempt, executed>>
    BY <1>4, ReleasesShape, LabelSet DEF Labels, Holding, Handling, discord
  <2>2. \A q \in Requests : q # p => pc'[q] = pc[q]
    BY <1>4, ReleasesShape, LabelSet DEF Labels, Holding
  <2> QED BY <2>1, <2>2 DEF Once, Handling, RetryAssumption
<1>5. ASSUME NEW p \in Requests, HandleResponse(p) PROVE Once'
  <2>1. UNCHANGED executed /\ pc[p] = "record"
    BY <1>5, HandlesShape DEF discord
  <2>2. \/ pc'[p] = "ended"
        \/ p \notin Unsafe
        \/ attempt[p].response.kind \notin {"ok", "failed"}
    BY <1>5, HandlesShape, LabelSet DEF Labels
  <2>3. \A q \in Requests : q # p => UNCHANGED <<pc[q], attempt[q]>>
    BY <1>5, HandlesShape, LabelSet DEF Keeps, Labels
  <2> QED BY <2>1, <2>2, <2>3 DEF Once, RetryAssumption
<1>6. CASE \/ \E r \in Moving : Rehash(r)
           \/ Tick \/ UNCHANGED vars
  <2>1. UNCHANGED <<executed, pc, attempt>>
    BY <1>6 DEF Rehash, Tick, vars, discord
  <2> QED BY <2>1 DEF Once
<1> QED BY <1>1, <1>2, <1>3, <1>4, <1>5, <1>6, StepKinds

-----------------------------------------------------------------------------
(* Pauses of the bot.                                                      *)
LEMMA PauseKept ==
    ASSUME Typed, RetryAssumption, PauseCovered, [Next]_vars PROVE PauseCovered'
<1> DEFINE Covers(p) == LET r == attempt[p].response
                        IN  r.kind = "paused" => r.until <= now + r.after
<1>0. ASSUME NEW p \in Requests, attempt[p].response.kind = "paused"
      PROVE  attempt[p].response.after \in Nat /\ attempt[p].response.until \in Nat
  <2>1. attempt[p].response \in Responses
    BY DEF Typed, Attempts
  <2> QED BY <1>0, <2>1 DEF Responses, NoResponse
<1>1. NoResponse.kind # "paused" /\ now \in Nat /\ global \in Nat /\ learned \in Nat
  BY DEF NoResponse, Typed
<1>2. ASSUME NEW p \in Requests, Keeps(p), UNCHANGED now
      PROVE  \A q \in Requests : (Covers(q))'
  BY <1>1, <1>2 DEF Keeps, PauseCovered
<1>3. ASSUME NEW p \in Requests, Waits(p) \/ DoFails(p) PROVE PauseCovered'
  BY <1>2, <1>3, WaitsShape, DoFailsShape DEF PauseCovered
<1>4. ASSUME NEW p \in Requests, DoReturns(p) PROVE PauseCovered'
  <2>1. attempt'[p].response.kind = "paused" =>
            attempt'[p].response.until <= now + attempt'[p].response.after
    <3>1. attempt' \in [Requests -> Attempts]
      BY <1>4, DoReturnsShape
    <3>2. attempt'[p].response \in Responses
      BY <3>1 DEF Attempts
    <3>3. attempt'[p].response.kind = "paused" => attempt'[p].response.after \in Nat
      BY <3>2 DEF Responses, NoResponse
    <3> QED BY <1>1, <1>4, <3>3, DoReturnsShape
  <2> QED BY <1>4, <2>1, DoReturnsShape DEF PauseCovered
<1>5. ASSUME NEW p \in Requests, ReleaseHeaders(p) \/ UpdateCanonical(p) PROVE PauseCovered'
  <2>1. UNCHANGED <<now, attempt>>
    BY <1>5, ReleasesShape
  <2>2. learned' <= global'
    BY <1>0, <1>5, ReleasesShape DEF PauseCovered
  <2> QED BY <2>1, <2>2 DEF PauseCovered
<1>6. ASSUME NEW p \in Requests, HandleResponse(p) PROVE PauseCovered'
  <2> DEFINE r == attempt[p].response
  <2>1. Keeps(p) /\ UNCHANGED now
    BY <1>6, HandlesShape
  <2>2. ASSUME r.kind = "paused", global' = Max({global, now + r.after}),
               learned' = Max({learned, r.until})
        PROVE  learned' <= global'
    <3>1. r.after \in Nat /\ r.until \in Nat /\ now + r.after \in Nat
      BY <1>0, <1>1, <2>2
    <3>2. r.until <= now + r.after /\ learned <= global
      BY <2>2 DEF PauseCovered
    <3>3. learned' \in {learned, r.until}
      BY <1>1, <2>2, <3>1, MaxIsOne
    <3>4. global' \in Nat /\ global' >= global /\ global' >= now + r.after
      BY <1>1, <2>2, <3>1, MaxOfTwo
    <3> QED BY <1>1, <3>1, <3>2, <3>3, <3>4
  <2>3. learned' <= global'
    BY <1>6, <2>2, HandlesShape DEF PauseCovered
  <2> QED BY <1>2, <2>1, <2>3 DEF PauseCovered
<1>7. CASE Tick
  <2>1. now' = now + 1 /\ UNCHANGED <<global, learned, attempt>>
    BY <1>7 DEF Tick, limiter
  <2> QED BY <1>0, <1>1, <2>1 DEF PauseCovered
<1>8. CASE \/ \E r \in Moving : Rehash(r)
           \/ UNCHANGED vars
  <2>1. UNCHANGED <<now, global, learned, attempt>>
    BY <1>8 DEF Rehash, vars, limiter
  <2> QED BY <2>1 DEF PauseCovered
<1> QED BY <1>3, <1>4, <1>5, <1>6, <1>7, <1>8, StepKinds

-----------------------------------------------------------------------------
(* The cache and the Buckets it names.                                     *)
Mapping == [target : {"bucket"} \X Hashes \X MajorKeys, used : Nat]

(* A cache c over the Buckets B, within its bounds.                        *)
Bounded(c, B) ==
    /\ c = [buckets |-> c.buckets, hashes |-> c.hashes, cleaned |-> c.cleaned]
    /\ c.buckets \in [DOMAIN c.buckets -> B]
    /\ c.hashes \in [DOMAIN c.hashes -> Mapping]
    /\ IsFiniteSet(DOMAIN c.buckets) /\ Cardinality(DOMAIN c.buckets) <= MaxBuckets
    /\ IsFiniteSet(DOMAIN c.hashes) /\ Cardinality(DOMAIN c.hashes) <= MaxBucketMappings

(* Every mapping leads to a bucket.                                        *)
Resolved(c) == \A k \in DOMAIN c.hashes : c.hashes[k].target \in DOMAIN c.buckets

(* The heap holds every Bucket that the cache names or that a request works*)
(* with.                                                                   *)
Reachable ==
    /\ heap \in [DOMAIN heap -> Bucket]
    /\ bucket = [p \in Requests |-> bucket[p]] /\ canonical = [p \in Requests |-> canonical[p]]
    /\ \A p \in Requests : pc[p] \in Holding \cup {"lock"} => bucket[p] \in DOMAIN heap
    /\ \A p \in Requests : pc[p] = "canonical" => canonical[p] \in DOMAIN heap
    /\ Bounded(cache, DOMAIN heap) /\ Resolved(cache)

(* The keys by which requests lock.                                        *)
LocksByKeys ==
    routeKey \in [Requests -> RouteKeys] /\ majorKey \in [Requests -> MajorKeys]

LEMMA OnlyOf ==
    ASSUME NEW f, NEW T, NEW S, f \in [DOMAIN f -> T]
    PROVE  /\ DOMAIN Only(f, S) = DOMAIN f \cap S
           /\ Only(f, S) \in [DOMAIN f \cap S -> T]
           /\ \A x \in DOMAIN f \cap S : Only(f, S)[x] = f[x]
BY DEF Only

(* Dropping buckets and mappings keeps a cache within its bounds.          *)
LEMMA FewerBounded ==
    ASSUME NEW c, NEW B, Bounded(c, B), NEW S, NEW T, NEW t, NEW d,
           d = [buckets |-> Only(c.buckets, S), hashes |-> Only(c.hashes, T), cleaned |-> t]
    PROVE  /\ Bounded(d, B)
           /\ DOMAIN d.buckets = DOMAIN c.buckets \cap S
           /\ DOMAIN d.hashes = DOMAIN c.hashes \cap T
           /\ \A k \in DOMAIN d.buckets : d.buckets[k] = c.buckets[k]
           /\ \A k \in DOMAIN d.hashes : d.hashes[k] = c.hashes[k]
<1>0. d.buckets = Only(c.buckets, S) /\ d.hashes = Only(c.hashes, T)
  OBVIOUS
<1>6. d = [buckets |-> d.buckets, hashes |-> d.hashes, cleaned |-> d.cleaned]
  OBVIOUS
<1>1. /\ DOMAIN d.buckets = DOMAIN c.buckets \cap S
      /\ d.buckets \in [DOMAIN d.buckets -> B]
      /\ \A k \in DOMAIN d.buckets : d.buckets[k] = c.buckets[k]
  <2>1. c.buckets \in [DOMAIN c.buckets -> B]
    BY DEF Bounded
  <2>2. /\ DOMAIN Only(c.buckets, S) = DOMAIN c.buckets \cap S
        /\ Only(c.buckets, S) \in [DOMAIN c.buckets \cap S -> B]
        /\ \A k \in DOMAIN c.buckets \cap S : Only(c.buckets, S)[k] = c.buckets[k]
    BY <2>1, OnlyOf
  <2> QED BY <1>0, <2>2
<1>2. /\ DOMAIN d.hashes = DOMAIN c.hashes \cap T
      /\ d.hashes \in [DOMAIN d.hashes -> Mapping]
      /\ \A k \in DOMAIN d.hashes : d.hashes[k] = c.hashes[k]
  <2>1. c.hashes \in [DOMAIN c.hashes -> Mapping]
    BY DEF Bounded
  <2>2. /\ DOMAIN Only(c.hashes, T) = DOMAIN c.hashes \cap T
        /\ Only(c.hashes, T) \in [DOMAIN c.hashes \cap T -> Mapping]
        /\ \A k \in DOMAIN c.hashes \cap T : Only(c.hashes, T)[k] = c.hashes[k]
    BY <2>1, OnlyOf
  <2> QED BY <1>0, <2>2
<1>3. /\ IsFiniteSet(DOMAIN d.buckets)
      /\ Cardinality(DOMAIN d.buckets) <= Cardinality(DOMAIN c.buckets)
      /\ Cardinality(DOMAIN d.buckets) \in Nat /\ Cardinality(DOMAIN c.buckets) \in Nat
  BY <1>1, FS_Subset, FS_CardinalityType, DOMAIN d.buckets \in SUBSET DOMAIN c.buckets
     DEF Bounded
<1>4. /\ IsFiniteSet(DOMAIN d.hashes)
      /\ Cardinality(DOMAIN d.hashes) <= Cardinality(DOMAIN c.hashes)
      /\ Cardinality(DOMAIN d.hashes) \in Nat /\ Cardinality(DOMAIN c.hashes) \in Nat
  BY <1>2, FS_Subset, FS_CardinalityType, DOMAIN d.hashes \in SUBSET DOMAIN c.hashes
     DEF Bounded
<1>5. Cardinality(DOMAIN d.buckets) <= MaxBuckets
      /\ Cardinality(DOMAIN d.hashes) <= MaxBucketMappings
  BY <1>3, <1>4, LimitsAssumption DEF Bounded
<1>7. Bounded(d, B)
  BY <1>1, <1>2, <1>3, <1>4, <1>5, <1>6 DEF Bounded
<1> QED BY <1>1, <1>2, <1>7

LEMMA AllOf == ASSUME NEW f, NEW T, f \in [DOMAIN f -> T] PROVE Only(f, DOMAIN f) = f
BY DEF Only

LEMMA DanglingDropped ==
    ASSUME NEW c, NEW B, Bounded(c, B)
    PROVE  LET d == removeDanglingBucketHashes(c)
           IN  Bounded(d, B) /\ Resolved(d) /\ d.buckets = c.buckets
<1> DEFINE d == removeDanglingBucketHashes(c)
           T == {k \in DOMAIN c.hashes : c.hashes[k].target \in DOMAIN c.buckets}
           e == [buckets |-> Only(c.buckets, DOMAIN c.buckets), hashes |-> Only(c.hashes, T),
                 cleaned |-> c.cleaned]
<1>1. d = [c EXCEPT !.hashes = Only(c.hashes, T)]
  BY DEF removeDanglingBucketHashes
<1>2. Only(c.buckets, DOMAIN c.buckets) = c.buckets
  BY AllOf DEF Bounded
<1>3. c = [buckets |-> c.buckets, hashes |-> c.hashes, cleaned |-> c.cleaned]
  BY DEF Bounded
<1>4. d = e
  BY <1>1, <1>2, <1>3
<1>6. e.buckets = c.buckets
  BY <1>2
<1>0. e = [buckets |-> Only(c.buckets, DOMAIN c.buckets), hashes |-> Only(c.hashes, T),
           cleaned |-> c.cleaned]
  OBVIOUS
<1> HIDE DEF d, e
<1>5. /\ Bounded(e, B) /\ DOMAIN e.hashes = DOMAIN c.hashes \cap T
      /\ \A k \in DOMAIN e.hashes : e.hashes[k] = c.hashes[k]
  <2> DEFINE S == DOMAIN c.buckets
  <2>1. e = [buckets |-> Only(c.buckets, S), hashes |-> Only(c.hashes, T), cleaned |-> c.cleaned]
    BY <1>0
  <2> HIDE DEF S, T
  <2>2. Bounded(e, B)
    BY <2>1, FewerBounded
  <2>4. DOMAIN e.hashes = DOMAIN c.hashes \cap T
    <3>1. e.hashes = Only(c.hashes, T)
      BY <2>1
    <3> QED BY <3>1 DEF Only
  <2>3. \A k \in DOMAIN e.hashes : e.hashes[k] = c.hashes[k]
    BY <2>1, FewerBounded
  <2> QED BY <2>2, <2>3, <2>4
<1>7. Resolved(e)
  BY <1>5, <1>6 DEF Resolved
<1> QED BY <1>4, <1>5, <1>6, <1>7 DEF d

LEMMA Cleaned ==
    ASSUME NEW c, NEW B, Bounded(c, B), Resolved(c)
    PROVE  Bounded(cleanupBuckets(c), B) /\ Resolved(cleanupBuckets(c))
<1>1. CASE cleanupBuckets(c) = c
  BY <1>1
<1>2. CASE cleanupBuckets(c) # c
  <2> DEFINE S == {k \in DOMAIN c.buckets : heap[c.buckets[k]].lastUsed >= now - BucketTTL}
             T == {k \in DOMAIN c.hashes : c.hashes[k].used >= now - BucketTTL}
             e == [buckets |-> Only(c.buckets, S), hashes |-> Only(c.hashes, T),
                   cleaned |-> now]
  <2>1. cleanupBuckets(c) = removeDanglingBucketHashes(e)
    BY <1>2 DEF cleanupBuckets
  <2>0. e = [buckets |-> Only(c.buckets, S), hashes |-> Only(c.hashes, T), cleaned |-> now]
    OBVIOUS
  <2> HIDE DEF e, S, T
  <2>2. Bounded(e, B)
    BY <2>0, FewerBounded
  <2> QED BY <2>1, <2>2, DanglingDropped
<1> QED BY <1>1, <1>2

(* There is room for one more bucket.                                      *)
HasRoom(c) == Cardinality(DOMAIN c.buckets) + 1 <= MaxBuckets

(* Evicting what exceeds a limit makes room.                               *)
LEMMA Evicts ==
    ASSUME NEW S, IsFiniteSet(S), NEW E \in SUBSET S, NEW limit \in Nat \ {0},
           Cardinality(S) <= limit, Cardinality(E) = Excess(Cardinality(S) + 1, limit)
    PROVE  IsFiniteSet(S \ E) /\ Cardinality(S \ E) + 1 <= limit
<1>1. IsFiniteSet(E) /\ IsFiniteSet(S \ E) /\ S \ E \in SUBSET S
  BY FS_Subset
<1>2. /\ Cardinality(S) \in Nat /\ Cardinality(E) \in Nat /\ Cardinality(S \ E) \in Nat
  BY <1>1, FS_CardinalityType
<1>3. Cardinality(E \cup (S \ E)) = Cardinality(E) + Cardinality(S \ E) - Cardinality({})
  <2>1. E \cap (S \ E) = {}
    OBVIOUS
  <2> QED BY <1>1, <2>1, FS_Union
<1>4. E \cup (S \ E) = S
  OBVIOUS
<1>5. Cardinality(S) = Cardinality(E) + Cardinality(S \ E)
  <2>1. Cardinality({}) = 0
    BY FS_EmptySet
  <2>2. Cardinality(E \cup (S \ E)) = Cardinality(S)
    BY <1>4, Zenon
  <2> QED BY <1>2, <1>3, <2>1, <2>2
<1>6. CASE Cardinality(S) + 1 > limit
  <2>1. Cardinality(E) = Cardinality(S) + 1 - limit
    BY <1>2, <1>6 DEF Excess
  <2> QED BY <1>1, <1>2, <1>5, <2>1
<1>7. CASE ~(Cardinality(S) + 1 > limit)
  BY <1>1, <1>2, <1>5, <1>7
<1> QED BY <1>6, <1>7

LEMMA RoomMade ==
    ASSUME NEW c, NEW B, Bounded(c, B), NEW room \in makeBucketRoom(c)
    PROVE  Bounded(room, B) /\ Resolved(room) /\ HasRoom(room)
<1>1. PICK E \in SUBSET DOMAIN c.buckets :
        /\ Cardinality(E) = Excess(Cardinality(DOMAIN c.buckets) + 1, MaxBuckets)
        /\ room = removeDanglingBucketHashes([c EXCEPT !.buckets = Only(@, DOMAIN @ \ E)])
  BY DEF makeBucketRoom, Oldest
<1> DEFINE e == [buckets |-> Only(c.buckets, DOMAIN c.buckets \ E),
                 hashes |-> Only(c.hashes, DOMAIN c.hashes), cleaned |-> c.cleaned]
<1>2. Only(c.hashes, DOMAIN c.hashes) = c.hashes
  BY AllOf DEF Bounded
<1>3. [c EXCEPT !.buckets = Only(@, DOMAIN @ \ E)] = e
  BY <1>2 DEF Bounded
<1>0. e = [buckets |-> Only(c.buckets, DOMAIN c.buckets \ E),
           hashes |-> Only(c.hashes, DOMAIN c.hashes), cleaned |-> c.cleaned]
  OBVIOUS
<1>5. DOMAIN c.buckets \cap (DOMAIN c.buckets \ E) = DOMAIN c.buckets \ E
  OBVIOUS
<1> HIDE DEF e
<1>4. Bounded(e, B) /\ DOMAIN e.buckets = DOMAIN c.buckets \cap (DOMAIN c.buckets \ E)
  <2> DEFINE S == DOMAIN c.buckets \ E
             T == DOMAIN c.hashes
  <2>1. e = [buckets |-> Only(c.buckets, S), hashes |-> Only(c.hashes, T), cleaned |-> c.cleaned]
    BY <1>0
  <2> HIDE DEF S, T
  <2>2. Bounded(e, B) /\ DOMAIN e.buckets = DOMAIN c.buckets \cap S
    BY <2>1, FewerBounded
  <2> QED BY <2>2 DEF S
<1>6. Bounded(room, B) /\ Resolved(room) /\ room.buckets = e.buckets
  BY <1>1, <1>3, <1>4, DanglingDropped
<1>7. Cardinality(DOMAIN c.buckets \ E) + 1 <= MaxBuckets
  BY <1>1, Evicts, LimitsAssumption DEF Bounded
<1> QED BY <1>4, <1>5, <1>6, <1>7 DEF HasRoom

LEMMA BucketAdded ==
    ASSUME NEW c, NEW B, Bounded(c, B), Resolved(c), HasRoom(c), NEW key, NEW b \in B
    PROVE  LET d == With(c, key, b)
           IN  /\ Bounded(d, B) /\ Resolved(d)
               /\ key \in DOMAIN d.buckets /\ d.hashes = c.hashes
<1> DEFINE f == [k \in DOMAIN c.buckets \cup {key} |-> IF k = key THEN b ELSE c.buckets[k]]
           d == With(c, key, b)
<1>1. d = [buckets |-> f, hashes |-> c.hashes, cleaned |-> c.cleaned]
  BY DEF With, Bounded
<1>2. DOMAIN f = DOMAIN c.buckets \cup {key} /\ f \in [DOMAIN f -> B]
  BY DEF Bounded
<1>3. /\ IsFiniteSet(DOMAIN f)
      /\ Cardinality(DOMAIN f) <= Cardinality(DOMAIN c.buckets) + 1
      /\ Cardinality(DOMAIN f) \in Nat /\ Cardinality(DOMAIN c.buckets) \in Nat
  <2>1. IsFiniteSet(DOMAIN c.buckets)
    BY DEF Bounded
  <2>2. IsFiniteSet(DOMAIN f)
    BY <1>2, <2>1, FS_AddElement
  <2>3. Cardinality(DOMAIN f) \in Nat /\ Cardinality(DOMAIN c.buckets) \in Nat
    BY <2>1, <2>2, FS_CardinalityType
  <2>4. Cardinality(DOMAIN f) = IF key \in DOMAIN c.buckets THEN Cardinality(DOMAIN c.buckets)
                                ELSE Cardinality(DOMAIN c.buckets) + 1
    BY <1>2, <2>1, FS_AddElement
  <2> QED BY <2>2, <2>3, <2>4
<1> HIDE DEF f, d
<1>4. d.buckets = f /\ d.hashes = c.hashes /\ d.cleaned = c.cleaned
  BY <1>1
<1>5. Cardinality(DOMAIN f) <= MaxBuckets
  BY <1>3, LimitsAssumption DEF HasRoom
<1>6. Bounded(d, B)
  BY <1>1, <1>2, <1>3, <1>4, <1>5 DEF Bounded
<1>7. Resolved(d)
  BY <1>2, <1>4 DEF Resolved
<1> QED BY <1>2, <1>4, <1>6, <1>7 DEF d

LEMMA HashSet ==
    ASSUME NEW c, NEW B, Bounded(c, B), Resolved(c), Typed, NEW from,
           NEW to \in {"bucket"} \X Hashes \X MajorKeys, to \in DOMAIN c.buckets,
           NEW d \in setBucketHash(c, from, to)
    PROVE  Bounded(d, B) /\ Resolved(d)
<1> DEFINE n == IF from \in DOMAIN c.hashes THEN 0 ELSE MappingsToEvict(c)
<1>1. PICK E \in SUBSET DOMAIN c.hashes :
        /\ Cardinality(E) = n
        /\ d = [c EXCEPT !.hashes =
                  [k \in (DOMAIN c.hashes \ E) \cup {from} |->
                     IF k = from THEN [target |-> to, used |-> now] ELSE c.hashes[k]]]
  BY DEF setBucketHash, Oldest
<1> DEFINE f == [k \in (DOMAIN c.hashes \ E) \cup {from} |->
                   IF k = from THEN [target |-> to, used |-> now] ELSE c.hashes[k]]
<1>2. d = [buckets |-> c.buckets, hashes |-> f, cleaned |-> c.cleaned]
  BY <1>1 DEF Bounded
<1>3. [target |-> to, used |-> now] \in Mapping
  BY DEF Mapping, Typed
<1>4. DOMAIN f = (DOMAIN c.hashes \ E) \cup {from} /\ f \in [DOMAIN f -> Mapping]
  BY <1>3 DEF Bounded
<1>5. \A k \in DOMAIN f : f[k].target \in DOMAIN c.buckets
  BY DEF Resolved
<1> HIDE DEF f
<1>6. d.buckets = c.buckets /\ d.hashes = f /\ d.cleaned = c.cleaned
  BY <1>2
<1>7. IsFiniteSet(DOMAIN c.hashes) /\ IsFiniteSet(E) /\ IsFiniteSet(DOMAIN c.hashes \ E)
      /\ IsFiniteSet(DOMAIN f)
  <2>1. IsFiniteSet(DOMAIN c.hashes)
    BY DEF Bounded
  <2>2. IsFiniteSet(E) /\ IsFiniteSet(DOMAIN c.hashes \ E)
    BY <2>1, FS_Subset, (DOMAIN c.hashes \ E) \in SUBSET DOMAIN c.hashes
  <2>3. IsFiniteSet((DOMAIN c.hashes \ E) \cup {from})
    BY <2>2, FS_AddElement
  <2> QED BY <1>4, <2>1, <2>2, <2>3
<1>8. Cardinality(DOMAIN f) <= MaxBucketMappings
  <2>1. CASE from \in DOMAIN c.hashes
    <3>1. DOMAIN f \in SUBSET DOMAIN c.hashes
      BY <1>4, <2>1
    <3>2. Cardinality(DOMAIN f) <= Cardinality(DOMAIN c.hashes)
      BY <1>7, <3>1, FS_Subset
    <3>3. Cardinality(DOMAIN f) \in Nat /\ Cardinality(DOMAIN c.hashes) \in Nat
      BY <1>7, FS_CardinalityType
    <3> QED BY <3>2, <3>3, LimitsAssumption DEF Bounded
  <2>2. CASE from \notin DOMAIN c.hashes
    <3>1. Cardinality(DOMAIN c.hashes \ E) + 1 <= MaxBucketMappings
      BY <1>1, <1>7, <2>2, Evicts, LimitsAssumption DEF MappingsToEvict, Bounded
    <3>2. Cardinality(DOMAIN f) = Cardinality(DOMAIN c.hashes \ E) + 1
      BY <1>4, <1>7, <2>2, FS_AddElement
    <3> QED BY <3>1, <3>2
  <2> QED BY <2>1, <2>2
<1>9. Bounded(d, B)
  BY <1>2, <1>4, <1>6, <1>7, <1>8 DEF Bounded
<1> QED BY <1>5, <1>6, <1>9 DEF Resolved

-----------------------------------------------------------------------------
(* The heap.                                                               *)
LEMMA BucketSet ==
    ASSUME NEW h, h \in [DOMAIN h -> Bucket], NEW b, NEW v \in Bucket
    PROVE  /\ [h EXCEPT ![b] = v] \in [DOMAIN h -> Bucket]
           /\ DOMAIN [h EXCEPT ![b] = v] = DOMAIN h
OBVIOUS

(* The garbage is what nobody works with and the cache does not name.      *)
LEMMA LiveKept ==
    ASSUME NEW h, h \in [DOMAIN h -> Bucket], heap' = Live(h),
           bucket' = [p \in Requests |-> bucket'[p]],
           canonical' = [p \in Requests |-> canonical'[p]],
           \A p \in Requests : pc'[p] \in Holding \cup {"lock"} => bucket'[p] \in DOMAIN h,
           \A p \in Requests : pc'[p] = "canonical" => canonical'[p] \in DOMAIN h,
           Bounded(cache', DOMAIN h), Resolved(cache')
    PROVE  Reachable'
<1> DEFINE R == {cache'.buckets[k] : k \in DOMAIN cache'.buckets}
                   \cup {bucket'[p] : p \in Requests} \cup {canonical'[p] : p \in Requests}
<1>1. heap' = Only(h, R)
  BY DEF Live
<1>2. /\ \A p \in Requests : bucket'[p] \in R /\ canonical'[p] \in R
      /\ \A k \in DOMAIN cache'.buckets : cache'.buckets[k] \in R
  OBVIOUS
<1> HIDE DEF R
<1>3. heap' \in [DOMAIN heap' -> Bucket] /\ DOMAIN heap' = DOMAIN h \cap R
  <2>1. /\ DOMAIN Only(h, R) = DOMAIN h \cap R
        /\ Only(h, R) \in [DOMAIN h \cap R -> Bucket]
    BY OnlyOf
  <2> QED BY <1>1, <2>1
<1>4. Bounded(cache', DOMAIN heap')
  BY <1>2, <1>3 DEF Bounded
<1> QED BY <1>2, <1>3, <1>4 DEF Reachable

LEMMA Used ==
    ASSUME Typed, NEW h, h \in [DOMAIN h -> Bucket], NEW b
    PROVE  LET g == [h EXCEPT ![b].lastUsed = now]
           IN  g \in [DOMAIN h -> Bucket] /\ DOMAIN g = DOMAIN h
<1>1. CASE b \in DOMAIN h
  <2>1. [h[b] EXCEPT !.lastUsed = now] \in Bucket
    BY <1>1 DEF Typed, Bucket
  <2> QED BY <2>1, BucketSet
<1>2. CASE b \notin DOMAIN h
  BY <1>2
<1> QED BY <1>1, <1>2

LEMMA GetsBucket ==
    ASSUME Typed, Reachable, LocksByKeys, NEW p \in Requests, getBucket(p), Go(p, "lock")
    PROVE  Reachable'
<1> DEFINE key == rateLimitRouteBucketKey(routeKey[p], majorKey[p])
           c == cleanupBuckets(cache)
           unmapped == [c EXCEPT !.hashes = Only(@, DOMAIN @ \ {key})]
           H == DOMAIN heap
<1>1. Bounded(c, H) /\ Resolved(c)
  BY Cleaned DEF Reachable
<1>2. \A q \in Requests : q # p => pc'[q] = pc[q]
  BY LabelSet DEF Labels
<1>3. pc'[p] = "lock" /\ UNCHANGED canonical
  BY LabelSet DEF Labels, getBucket
<1>4. ASSUME NEW b, NEW h, h \in [DOMAIN h -> Bucket], H \subseteq DOMAIN h, b \in DOMAIN h,
             bucket' = [bucket EXCEPT ![p] = b], heap' = Live(h),
             Bounded(cache', DOMAIN h), Resolved(cache')
      PROVE  Reachable'
  <2>1. bucket' = [q \in Requests |-> bucket'[q]] /\ canonical' = [q \in Requests |-> canonical'[q]]
    BY <1>3, <1>4 DEF Reachable
  <2>2. bucket'[p] = b /\ \A q \in Requests : q # p => bucket'[q] = bucket[q]
    BY <1>4 DEF Reachable
  <2>3. \A q \in Requests : pc'[q] \in Holding \cup {"lock"} => bucket'[q] \in DOMAIN h
    BY <1>2, <1>4, <2>2 DEF Reachable
  <2>4. \A q \in Requests : pc'[q] = "canonical" => canonical'[q] \in DOMAIN h
    BY <1>2, <1>3, <1>4 DEF Reachable
  <2> QED BY <1>4, <2>1, <2>3, <2>4, LiveKept
<1>5. ASSUME NEW b \in H, Bounded(cache', H), Resolved(cache'),
             bucket' = [bucket EXCEPT ![p] = b], heap' = Live([heap EXCEPT ![b].lastUsed = now])
      PROVE  Reachable'
  <2> DEFINE h == [heap EXCEPT ![b].lastUsed = now]
  <2>1. h \in [H -> Bucket] /\ DOMAIN h = H
    BY Used DEF Reachable
  <2>2. heap' = Live(h)
    BY <1>5
  <2> HIDE DEF h, H
  <2> QED BY <1>4, <1>5, <2>1, <2>2
<1>6. CASE key \in DOMAIN c.hashes /\ c.hashes[key].target \in DOMAIN c.buckets
  <2> DEFINE m == [c.hashes[key] EXCEPT !.used = now]
             f == [c.hashes EXCEPT ![key] = m]
             b == c.buckets[c.hashes[key].target]
  <2>1. /\ cache' = [c EXCEPT !.hashes[key].used = now]
        /\ bucket' = [bucket EXCEPT ![p] = b]
        /\ heap' = Live([heap EXCEPT ![b].lastUsed = now])
    BY <1>6 DEF getBucket
  <2>2. cache' = [buckets |-> c.buckets, hashes |-> f, cleaned |-> c.cleaned]
    BY <1>1, <2>1 DEF Bounded
  <2>3. m \in Mapping /\ m.target = c.hashes[key].target
    BY <1>1, <1>6 DEF Bounded, Mapping, Typed
  <2>4. b \in H
    BY <1>1, <1>6 DEF Bounded
  <2> HIDE DEF c, m, b, H
  <2>5. f \in [DOMAIN f -> Mapping] /\ DOMAIN f = DOMAIN c.hashes
    BY <1>1, <2>3 DEF Bounded
  <2>6. \A k \in DOMAIN f : f[k].target = c.hashes[k].target
    BY <2>3, <2>5
  <2> HIDE DEF f
  <2>7. cache'.buckets = c.buckets /\ cache'.hashes = f /\ cache'.cleaned = c.cleaned
    BY <2>2
  <2>8. Bounded(cache', H)
    BY <1>1, <2>2, <2>5, <2>7 DEF Bounded
  <2>9. Resolved(cache')
    BY <1>1, <2>5, <2>6, <2>7 DEF Resolved
  <2> QED BY <1>5, <2>1, <2>4, <2>8, <2>9
<1>7. Bounded(unmapped, H) /\ Resolved(unmapped) /\ unmapped.buckets = c.buckets
  <2> DEFINE S == DOMAIN c.buckets
             T == DOMAIN c.hashes \ {key}
  <2>1. Only(c.buckets, S) = c.buckets
    BY <1>1, AllOf DEF Bounded
  <2>2. unmapped = [buckets |-> Only(c.buckets, S), hashes |-> Only(c.hashes, T),
                    cleaned |-> c.cleaned]
    BY <1>1, <2>1 DEF Bounded
  <2>3. unmapped.buckets = c.buckets /\ unmapped.hashes = Only(c.hashes, T)
    BY <2>1, <2>2
  <2> HIDE DEF c, unmapped, S, T, H
  <2>4. Bounded(unmapped, H)
    BY <1>1, <2>2, FewerBounded
  <2>5. Resolved(unmapped)
    BY <1>1, <2>3 DEF Resolved, Only
  <2> QED BY <2>3, <2>4, <2>5
<1>8. CASE /\ ~(key \in DOMAIN c.hashes /\ c.hashes[key].target \in DOMAIN c.buckets)
           /\ key \in DOMAIN c.buckets
  <2> DEFINE b == c.buckets[key]
  <2>1. /\ cache' = unmapped
        /\ bucket' = [bucket EXCEPT ![p] = b]
        /\ heap' = Live([heap EXCEPT ![b].lastUsed = now])
    BY <1>8 DEF getBucket
  <2>2. b \in H
    BY <1>1, <1>8 DEF Bounded
  <2> HIDE DEF b, unmapped, H
  <2> QED BY <1>5, <1>7, <2>1, <2>2
<1>9. CASE /\ ~(key \in DOMAIN c.hashes /\ c.hashes[key].target \in DOMAIN c.buckets)
           /\ key \notin DOMAIN c.buckets
  <2> DEFINE b == FreshBucket
             fresh == [RouteKey |-> routeKey[p], MajorKey |-> majorKey[p],
                       Remaining |-> 1, reset |-> 0, lastUsed |-> now, owner |-> NoBucket]
             h == [i \in DOMAIN heap \cup {b} |-> IF i = b THEN fresh ELSE heap[i]]
  <2>1. /\ \E room \in makeBucketRoom(unmapped) : cache' = With(room, key, b)
        /\ bucket' = [bucket EXCEPT ![p] = b]
        /\ heap' = Live(h)
    BY <1>9 DEF getBucket
  <2>2. fresh \in Bucket
    BY DEF Typed, LocksByKeys, Bucket
  <2> HIDE DEF b, fresh, unmapped, c, key
  <2>3. /\ h \in [DOMAIN h -> Bucket] /\ H \subseteq DOMAIN h /\ b \in DOMAIN h
    BY <2>2 DEF Reachable
  <2> HIDE DEF h
  <2>4. Bounded(unmapped, DOMAIN h)
    BY <1>7, <2>3 DEF Bounded
  <2>5. Bounded(cache', DOMAIN h) /\ Resolved(cache')
    BY <2>1, <2>3, <2>4, RoomMade, BucketAdded
  <2> HIDE DEF H
  <2> QED BY <1>4, <2>1, <2>3, <2>5
<1> QED BY <1>6, <1>8, <1>9

(* registerBucketHash names a Bucket of the heap and keeps the cache sound.*)
LEMMA Registers ==
    ASSUME Typed, Reachable, NEW b \in DOMAIN heap, NEW h \in Hashes, NEW room, NEW kept,
           registerBucketHash(b, h, room, kept)
    PROVE  kept \in DOMAIN heap /\ Bounded(room, DOMAIN heap) /\ Resolved(room)
<1> DEFINE H == DOMAIN heap
           origin == rateLimitRouteBucketKey(heap[b].RouteKey, heap[b].MajorKey)
           target == rateLimitDiscoveredBucketKey(h, heap[b].MajorKey)
           c == cleanupBuckets(cache)
           without == IF origin \in DOMAIN c.buckets /\ c.buckets[origin] = b
                      THEN [c EXCEPT !.buckets = Only(@, DOMAIN @ \ {origin})] ELSE c
<1>1. Bounded(c, H) /\ Resolved(c)
  BY Cleaned DEF Reachable
<1>2. target \in {"bucket"} \X Hashes \X MajorKeys
  <2>1. heap[b].MajorKey \in MajorKeys
    BY DEF Reachable, Bucket
  <2> QED BY <2>1 DEF rateLimitDiscoveredBucketKey
<1>3. \A k \in {"bucket"} \X Hashes \X MajorKeys : k # origin
  BY DEF rateLimitRouteBucketKey
<1> HIDE DEF target, c, H
<1>4. /\ Bounded(without, H) /\ Resolved(without)
      /\ target \in DOMAIN c.buckets => target \in DOMAIN without.buckets
  <2>1. CASE without = c
    BY <1>1, <2>1
  <2>2. CASE without = [c EXCEPT !.buckets = Only(@, DOMAIN @ \ {origin})]
    <3> DEFINE S == DOMAIN c.buckets \ {origin}
               T == DOMAIN c.hashes
    <3>1. Only(c.hashes, T) = c.hashes
      BY <1>1, AllOf DEF Bounded
    <3>2. without = [buckets |-> Only(c.buckets, S), hashes |-> Only(c.hashes, T),
                     cleaned |-> c.cleaned]
      BY <1>1, <2>2, <3>1 DEF Bounded
    <3>3. without.buckets = Only(c.buckets, S) /\ without.hashes = c.hashes
      BY <3>1, <3>2
    <3> HIDE DEF without, T, origin
    <3>4. DOMAIN without.buckets = DOMAIN c.buckets \ {origin}
      BY <3>3 DEF Only
    <3> HIDE DEF S
    <3>5. Bounded(without, H)
      BY <1>1, <3>2, FewerBounded
    <3>6. \A k \in DOMAIN c.hashes : c.hashes[k].target \in {"bucket"} \X Hashes \X MajorKeys
      BY <1>1 DEF Bounded, Mapping
    <3>7. Resolved(without)
      BY <1>1, <1>3, <3>3, <3>4, <3>6 DEF Resolved
    <3> QED BY <1>2, <1>3, <3>4, <3>5, <3>7
  <2> QED BY <2>1, <2>2
<1>5. CASE target \in DOMAIN c.buckets
  <2>1. /\ kept = c.buckets[target]
        /\ room \in setBucketHash(IF kept # b THEN without ELSE c, origin, target)
    BY <1>5 DEF registerBucketHash, target, c
  <2>2. kept \in H
    BY <1>1, <1>5, <2>1 DEF Bounded
  <2> HIDE DEF without, origin
  <2>3. CASE kept # b
    <3>1. room \in setBucketHash(without, origin, target)
      BY <2>1, <2>3
    <3> QED BY <1>2, <1>4, <1>5, <2>2, <3>1, HashSet DEF H
  <2>4. CASE kept = b
    <3>1. room \in setBucketHash(c, origin, target)
      BY <2>1, <2>4
    <3> QED BY <1>1, <1>2, <1>5, <2>2, <3>1, HashSet DEF H
  <2> QED BY <2>3, <2>4
<1>6. CASE target \notin DOMAIN c.buckets
  <2>1. /\ kept = b
        /\ \E r \in makeBucketRoom(without) :
               room \in setBucketHash(With(r, target, b), origin, target)
    BY <1>6 DEF registerBucketHash, target, c
  <2>2. PICK r \in makeBucketRoom(without) :
            room \in setBucketHash(With(r, target, b), origin, target)
    BY <2>1
  <2> HIDE DEF without, origin
  <2>3. Bounded(r, H) /\ Resolved(r) /\ HasRoom(r)
    BY <1>4, RoomMade
  <2> DEFINE w == With(r, target, b)
  <2>4. b \in H
    BY DEF H
  <2>5. Bounded(w, H) /\ Resolved(w) /\ target \in DOMAIN w.buckets
    BY <2>3, <2>4, BucketAdded
  <2>6. room \in setBucketHash(w, origin, target)
    BY <2>2
  <2> HIDE DEF w
  <2> QED BY <1>2, <2>1, <2>4, <2>5, <2>6, HashSet DEF H
<1> QED BY <1>5, <1>6

-----------------------------------------------------------------------------
(* The heap and the cache through every step.                              *)

(* Releasing a Bucket of the heap h.                                       *)
LEMMA Unlocks ==
    ASSUME Typed, Reachable, NEW p \in Requests, NEW h, h \in [DOMAIN heap -> Bucket],
           Unlocked(p, h), pc'[p] \notin Holding \cup {"lock"},
           \A q \in Requests : q # p => pc'[q] = pc[q],
           canonical' = [q \in Requests |-> canonical'[q]],
           \A q \in Requests : pc'[q] = "canonical" => canonical'[q] \in DOMAIN heap,
           Bounded(cache', DOMAIN heap), Resolved(cache')
    PROVE  Reachable'
<1> DEFINE b == bucket[p]
           g == [h EXCEPT ![b].owner = NoBucket]
           k == [g EXCEPT ![b].lastUsed = now]
<1>1. DOMAIN h = DOMAIN heap
  OBVIOUS
<1>2. g \in [DOMAIN heap -> Bucket] /\ DOMAIN g = DOMAIN heap
  <2>1. CASE b \in DOMAIN h
    <3>1. h[b] \in Bucket
      BY <1>1, <2>1
    <3>2. [h[b] EXCEPT !.owner = NoBucket] \in Bucket
      BY <3>1 DEF Bucket
    <3> QED BY <1>1, <3>2, BucketSet
  <2>2. CASE b \notin DOMAIN h
    BY <1>1, <2>2
  <2> QED BY <2>1, <2>2
<1>3. k \in [DOMAIN heap -> Bucket] /\ DOMAIN k = DOMAIN heap
  BY <1>2, Used
<1>4. heap' = Live(k) /\ bucket' = [bucket EXCEPT ![p] = NoBucket]
  BY DEF Unlocked
<1> HIDE DEF b, g, k
<1>5. bucket' = [q \in Requests |-> bucket'[q]] /\ \A q \in Requests : q # p => bucket'[q] = bucket[q]
  BY <1>4 DEF Reachable
<1>6. \A q \in Requests : pc'[q] \in Holding \cup {"lock"} => bucket'[q] \in DOMAIN k
  BY <1>3, <1>5 DEF Reachable
<1> QED BY <1>3, <1>4, <1>5, <1>6, LiveKept

(* A step that leaves the cache alone and the Buckets where they are.      *)
LEMMA Stays ==
    ASSUME Reachable, UNCHANGED <<cache, bucket, canonical>>,
           heap' \in [DOMAIN heap -> Bucket],
           \A q \in Requests : pc'[q] \in Holding \cup {"lock"} => pc[q] \in Holding \cup {"lock"},
           \A q \in Requests : pc'[q] = "canonical" => pc[q] = "canonical"
    PROVE  Reachable'
<1>1. DOMAIN heap' = DOMAIN heap
  OBVIOUS
<1>2. Bounded(cache', DOMAIN heap') /\ Resolved(cache')
  BY <1>1 DEF Reachable
<1> QED BY <1>1, <1>2 DEF Reachable

LEMMA HeapOf == Reachable => heap \in [DOMAIN heap -> Bucket]
BY DEF Reachable

LEMMA BucketFields ==
    ASSUME NEW v \in Bucket, NEW n \in Int, NEW t \in Nat
    PROVE  /\ [v EXCEPT !.Remaining = n, !.lastUsed = t] \in Bucket
           /\ [v EXCEPT !.Remaining = n, !.reset = t] \in Bucket
           /\ v.Remaining \in Int
<1>1. [v EXCEPT !.Remaining = n] \in Bucket
  BY DEF Bucket
<1>2. \A w \in Bucket : [w EXCEPT !.lastUsed = t] \in Bucket /\ [w EXCEPT !.reset = t] \in Bucket
  BY DEF Bucket
<1>3. [[v EXCEPT !.Remaining = n] EXCEPT !.lastUsed = t] = [v EXCEPT !.Remaining = n, !.lastUsed = t]
  OBVIOUS
<1>4. [[v EXCEPT !.Remaining = n] EXCEPT !.reset = t] = [v EXCEPT !.Remaining = n, !.reset = t]
  OBVIOUS
<1> QED BY <1>1, <1>2, <1>3, <1>4 DEF Bucket

LEMMA ReachableKept ==
    ASSUME Typed, RetryAssumption, Reachable, LocksByKeys, [Next]_vars PROVE Reachable'
<1> USE DEF Holding
<1>1. ASSUME NEW p \in Requests, UNCHANGED <<cache, heap, bucket, canonical>>,
             NEW label \in {"ended", "backoff", "record", "send", "release"}, Go(p, label),
             label \in {"send", "release"} => pc[p] \in Holding
      PROVE  Reachable'
  <2>1. pc'[p] = label /\ \A q \in Requests : q # p => pc'[q] = pc[q]
    BY <1>1, LabelSet DEF Labels
  <2>2. heap' \in [DOMAIN heap -> Bucket]
    BY <1>1, HeapOf
  <2> QED BY <1>1, <2>1, <2>2, Stays
<1>2. ASSUME NEW p \in Requests, NEW n, LookUp(p, n) PROVE Reachable'
  BY <1>1, <1>2, Ends, GetsBucket DEF LookUp
<1>3. ASSUME NEW p \in Requests, Retry(p) \/ LockBucketRoute(p) PROVE Reachable'
  BY <1>1, <1>2, <1>3, Ends DEF Retry, LockBucketRoute
<1>4. ASSUME NEW p \in Requests, Locking(p) PROVE Reachable'
  <2> DEFINE b == bucket[p]
  <2>1. pc[p] \in Holding \cup {"lock"} /\ b \in DOMAIN heap /\ heap[b] \in Bucket
    BY <1>4 DEF Locking, GetWaitTime, reserveGlobalRequest, Reachable
  <2>2. UNCHANGED <<cache, bucket, canonical>>
        /\ \E label \in {"reserve", "sleep", "breaker", "send"} : Go(p, label)
    BY <1>4 DEF Locking, GetWaitTime, reserveGlobalRequest
  <2>3. heap' \in [DOMAIN heap -> Bucket]
    <3>1. CASE GetWaitTime(p)
      <4>1. [heap[b] EXCEPT !.owner = p] \in Bucket
        BY <2>1 DEF Bucket
      <4> QED BY <3>1, <4>1, BucketSet, HeapOf DEF GetWaitTime
    <3>2. CASE heap' = [heap EXCEPT ![b].Remaining = @ - 1, ![b].lastUsed = now]
      <4> DEFINE v == [heap[b] EXCEPT !.Remaining = @ - 1, !.lastUsed = now]
      <4>1. v \in Bucket
        <5>1. heap[b].Remaining - 1 \in Int /\ now \in Nat
          BY <2>1 DEF Bucket, Typed
        <5> QED BY <2>1, <5>1, BucketFields
      <4>2. heap' = [heap EXCEPT ![b] = v]
        BY <2>1, <3>2, HeapOf DEF Bucket
      <4> HIDE DEF v, b
      <4> QED BY <4>1, <4>2, BucketSet, HeapOf
    <3>3. CASE UNCHANGED heap
      BY <3>3, HeapOf
    <3> QED BY <1>4, <3>1, <3>2, <3>3 DEF Locking, reserveGlobalRequest
  <2>4. pc'[p] # "canonical" /\ \A q \in Requests : q # p => pc'[q] = pc[q]
    BY <2>2, LabelSet DEF Labels
  <2> QED BY <2>1, <2>2, <2>3, <2>4, Stays
<1>5. ASSUME NEW p \in Requests, Unlocked(p, heap), UNCHANGED <<cache, canonical>>,
             NEW label \in {"ended", "backoff", "record"}, Go(p, label)
      PROVE  Reachable'
  <2>1. pc'[p] = label /\ \A q \in Requests : q # p => pc'[q] = pc[q]
    BY <1>5, LabelSet DEF Labels
  <2>2. /\ canonical' = [q \in Requests |-> canonical'[q]]
        /\ \A q \in Requests : pc'[q] = "canonical" => canonical'[q] \in DOMAIN heap
        /\ Bounded(cache', DOMAIN heap) /\ Resolved(cache')
    BY <1>5, <2>1 DEF Reachable
  <2> QED BY <1>5, <2>1, <2>2, HeapOf, Unlocks
<1>6. ASSUME NEW p \in Requests, Cancelled(p) \/ CheckInvalidRequestLimit(p) PROVE Reachable'
  <2>1. CASE ReleaseAndFail(p)
    BY <1>5, <2>1, Ends DEF ReleaseAndFail
  <2>2. CASE ~ReleaseAndFail(p)
    BY <1>1, <1>6, <2>2 DEF Cancelled, CheckInvalidRequestLimit
  <2> QED BY <2>1, <2>2
<1>7. ASSUME NEW p \in Requests, DoFails(p) PROVE Reachable'
  <2>1. Unlocked(p, heap) /\ UNCHANGED <<cache, canonical>>
    BY <1>7 DEF DoFails
  <2> QED BY <1>5, <1>7, <2>1, DoFailsShape
<1>8. ASSUME NEW p \in Requests, DoReturns(p) \/ HandleResponse(p) PROVE Reachable'
  <2>1. UNCHANGED <<cache, heap, bucket, canonical>>
    BY <1>8 DEF DoReturns, HandleResponse, limiter
  <2> QED BY <1>1, <1>8, <2>1, DoReturnsShape, HandlesShape
<1>9. ASSUME NEW p \in Requests, ReleaseHeaders(p) PROVE Reachable'
  <2> DEFINE b == bucket[p]
             r == attempt[p].response
             v == [heap[b] EXCEPT !.Remaining = r.remaining, !.reset = now + r.after]
             informed == [heap EXCEPT ![b] = v]
  <2>1. pc[p] = "release" /\ b \in DOMAIN heap /\ heap[b] \in Bucket /\ UNCHANGED attempt
    BY <1>9 DEF ReleaseHeaders, Reachable
  <2>2. CASE ~HasHeaders(r)
    <3>1. /\ UNCHANGED <<cache, canonical>>
          /\ Go(p, "record") /\ Unlocked(p, heap)
      BY <1>9, <2>2 DEF ReleaseHeaders
    <3> QED BY <1>5, <3>1
  <2>3. CASE HasHeaders(r)
    <3>1. r.hash \in Hashes /\ r.remaining \in {0, 1} /\ r.after \in Nat
      <4>1. r \in Responses
        BY DEF Typed, Attempts
      <4> QED BY <2>3, <4>1 DEF Responses, NoResponse, HasHeaders
    <3>2. v \in Bucket
      <4>1. r.remaining \in Int /\ now + r.after \in Nat
        BY <3>1 DEF Typed
      <4> QED BY <2>1, <4>1, BucketFields
    <3>3. [heap EXCEPT ![b].Remaining = r.remaining, ![b].reset = now + r.after] = informed
      BY <2>1, HeapOf DEF Bucket
    <3>4. PICK kept \in DOMAIN heap :
                  /\ registerBucketHash(b, r.hash, cache', kept)
                  /\ IF kept = b
                     THEN /\ UNCHANGED canonical
                          /\ Go(p, "record") /\ Unlocked(p, informed)
                     ELSE /\ canonical' = [canonical EXCEPT ![p] = kept]
                          /\ Go(p, "canonical")
                          /\ UNCHANGED bucket
                          /\ heap' = Live([informed EXCEPT ![kept].lastUsed = now])
      BY <1>9, <2>3, <3>3 DEF ReleaseHeaders
    <3>5. kept \in DOMAIN heap /\ Bounded(cache', DOMAIN heap) /\ Resolved(cache')
      BY <2>1, <3>1, <3>4, Registers
    <3> HIDE DEF b, r, v
    <3>6. informed \in [DOMAIN heap -> Bucket] /\ DOMAIN informed = DOMAIN heap
      BY <3>2, BucketSet, HeapOf
    <3> HIDE DEF informed
    <3>7. CASE kept = b
      <4>1. UNCHANGED canonical /\ Go(p, "record") /\ Unlocked(p, informed)
        BY <3>4, <3>7
      <4>2. pc'[p] = "record" /\ \A q \in Requests : q # p => pc'[q] = pc[q]
        BY <4>1, LabelSet DEF Labels
      <4>3. /\ canonical' = [q \in Requests |-> canonical'[q]]
            /\ \A q \in Requests : pc'[q] = "canonical" => canonical'[q] \in DOMAIN heap
        BY <4>1, <4>2 DEF Reachable
      <4> QED BY <3>5, <3>6, <4>1, <4>2, <4>3, Unlocks
    <3>8. CASE kept # b
      <4> DEFINE h == [informed EXCEPT ![kept].lastUsed = now]
      <4>1. /\ canonical' = [canonical EXCEPT ![p] = kept]
            /\ Go(p, "canonical") /\ UNCHANGED bucket
            /\ heap' = Live(h)
        BY <3>4, <3>8
      <4>2. h \in [DOMAIN h -> Bucket] /\ DOMAIN h = DOMAIN heap
        BY <3>6, Used
      <4> HIDE DEF h
      <4>3. pc'[p] = "canonical" /\ \A q \in Requests : q # p => pc'[q] = pc[q]
        BY <4>1, LabelSet DEF Labels
      <4>4. /\ canonical' = [q \in Requests |-> canonical'[q]]
            /\ canonical'[p] = kept /\ \A q \in Requests : q # p => canonical'[q] = canonical[q]
            /\ bucket' = [q \in Requests |-> bucket'[q]]
        BY <4>1 DEF Reachable
      <4>5. /\ \A q \in Requests : pc'[q] \in Holding \cup {"lock"} => bucket'[q] \in DOMAIN h
            /\ \A q \in Requests : pc'[q] = "canonical" => canonical'[q] \in DOMAIN h
        BY <2>1, <3>5, <4>1, <4>2, <4>3, <4>4 DEF Reachable, b
      <4>6. Bounded(cache', DOMAIN h) /\ Resolved(cache')
        BY <3>5, <4>2
      <4> QED BY <4>1, <4>2, <4>4, <4>5, <4>6, LiveKept
    <3> QED BY <3>7, <3>8
  <2> QED BY <2>2, <2>3
<1>10. ASSUME NEW p \in Requests, UpdateCanonical(p) PROVE Reachable'
  <2> DEFINE c == canonical[p]
             h == [heap EXCEPT ![c] = Copied(p)]
  <2>1. /\ pc[p] = "canonical" /\ Go(p, "record") /\ UNCHANGED cache
        /\ canonical' = [canonical EXCEPT ![p] = NoBucket]
        /\ Unlocked(p, h)
    BY <1>10 DEF UpdateCanonical
  <2>2. heap[bucket[p]] \in Bucket /\ heap[c] \in Bucket
    BY <2>1 DEF Reachable
  <2>3. Copied(p) \in Bucket
    BY <2>2 DEF Copied, Bucket
  <2>4. h \in [DOMAIN heap -> Bucket]
    BY <2>3, BucketSet, HeapOf
  <2> HIDE DEF h
  <2>5. pc'[p] = "record" /\ \A q \in Requests : q # p => pc'[q] = pc[q]
    BY <2>1, LabelSet DEF Labels
  <2>6. /\ canonical' = [q \in Requests |-> canonical'[q]]
        /\ \A q \in Requests : pc'[q] = "canonical" => canonical'[q] \in DOMAIN heap
        /\ Bounded(cache', DOMAIN heap) /\ Resolved(cache')
    BY <2>1, <2>5 DEF Reachable
  <2> QED BY <2>1, <2>4, <2>5, <2>6, Unlocks
<1>11. CASE \/ \E r \in Moving : Rehash(r)
            \/ Tick \/ UNCHANGED vars
  <2>1. UNCHANGED <<cache, heap, bucket, canonical, pc>>
    BY <1>11 DEF Rehash, Tick, vars, limiter
  <2> QED BY <2>1, Stays, HeapOf
<1> QED BY <1>3, <1>4, <1>6, <1>7, <1>8, <1>9, <1>10, <1>11, StepKinds DEF Waits

(* A Bucket that is looked up lends its keys, which are keys of a route.   *)
LEMMA LooksUpKeys ==
    ASSUME Typed, Reachable, LocksByKeys, NEW p \in Requests, getBucket(p)
    PROVE  LocksByKeys'
<1> DEFINE key == rateLimitRouteBucketKey(routeKey[p], majorKey[p])
           c == cleanupBuckets(cache)
<1>1. Bounded(c, DOMAIN heap)
  BY Cleaned DEF Reachable
<1>2. ASSUME NEW b \in DOMAIN heap,
             routeKey' = [routeKey EXCEPT ![p] = heap[b].RouteKey],
             majorKey' = [majorKey EXCEPT ![p] = heap[b].MajorKey]
      PROVE  LocksByKeys'
  <2>1. heap[b].RouteKey \in RouteKeys /\ heap[b].MajorKey \in MajorKeys
    BY DEF Reachable, Bucket
  <2> QED BY <1>2, <2>1 DEF LocksByKeys
<1>3. CASE key \in DOMAIN c.hashes /\ c.hashes[key].target \in DOMAIN c.buckets
  <2> DEFINE b == c.buckets[c.hashes[key].target]
  <2>1. b \in DOMAIN heap
    BY <1>1, <1>3 DEF Bounded
  <2>2. /\ routeKey' = [routeKey EXCEPT ![p] = heap[b].RouteKey]
        /\ majorKey' = [majorKey EXCEPT ![p] = heap[b].MajorKey]
    BY <1>3 DEF getBucket
  <2> HIDE DEF b
  <2> QED BY <1>2, <2>1, <2>2
<1>4. CASE /\ ~(key \in DOMAIN c.hashes /\ c.hashes[key].target \in DOMAIN c.buckets)
           /\ key \in DOMAIN c.buckets
  <2> DEFINE b == c.buckets[key]
  <2>1. b \in DOMAIN heap
    BY <1>1, <1>4 DEF Bounded
  <2>2. /\ routeKey' = [routeKey EXCEPT ![p] = heap[b].RouteKey]
        /\ majorKey' = [majorKey EXCEPT ![p] = heap[b].MajorKey]
    BY <1>4 DEF getBucket
  <2> HIDE DEF b
  <2> QED BY <1>2, <2>1, <2>2
<1>5. CASE /\ ~(key \in DOMAIN c.hashes /\ c.hashes[key].target \in DOMAIN c.buckets)
           /\ key \notin DOMAIN c.buckets
  <2>1. UNCHANGED <<routeKey, majorKey>>
    BY <1>5 DEF getBucket
  <2> QED BY <2>1 DEF LocksByKeys
<1> HIDE DEF key, c
<1> QED BY <1>3, <1>4, <1>5

LEMMA LocksByKeysKept ==
    ASSUME Typed, RetryAssumption, Reachable, LocksByKeys, [Next]_vars PROVE LocksByKeys'
<1>1. ASSUME UNCHANGED keys PROVE LocksByKeys'
  BY <1>1 DEF LocksByKeys, keys
<1>2. ASSUME NEW p \in Requests, NEW n, LookUp(p, n) PROVE LocksByKeys'
  BY <1>1, <1>2, LooksUpKeys DEF LookUp
<1>3. ASSUME NEW p \in Requests, LockBucketRoute(p) \/ Retry(p) PROVE LocksByKeys'
  BY <1>1, <1>2, <1>3 DEF LockBucketRoute, Retry
<1>4. ASSUME NEW p \in Requests, Locking(p) \/ Cancelled(p) \/ CheckInvalidRequestLimit(p)
      PROVE  UNCHANGED keys
  BY <1>4 DEF Locking, GetWaitTime, reserveGlobalRequest, Cancelled, ReleaseAndFail,
              CheckInvalidRequestLimit
<1>5. ASSUME NEW p \in Requests,
             \/ DoFails(p) \/ DoReturns(p)
             \/ ReleaseHeaders(p) \/ UpdateCanonical(p) \/ HandleResponse(p)
      PROVE  UNCHANGED keys
  BY <1>5, DoFailsShape, DoReturnsShape, ReleasesShape, HandlesShape
<1>6. CASE (\E r \in Moving : Rehash(r)) \/ Tick \/ UNCHANGED vars
  BY <1>1, <1>6 DEF Rehash, Tick, vars, limiter
<1> QED BY <1>1, <1>3, <1>4, <1>5, <1>6, StepKinds DEF Waits

-----------------------------------------------------------------------------
(* The locks. Owned is for the heap after a step before its garbage goes.  *)
Owned(h, label, own) ==
    /\ \A b \in DOMAIN h : h[b].owner # NoBucket =>
           /\ h[b].owner \in Requests
           /\ label[h[b].owner] \in Holding /\ own[h[b].owner] = b
    /\ \A p \in Requests : label[p] \in Holding => own[p] \in DOMAIN h /\ h[own[p]].owner = p
Apart == \A p \in Requests : pc[p] = "canonical" => canonical[p] # bucket[p]

Locks == Owned(heap, pc, bucket) /\ Apart /\ IsFiniteSet(DOMAIN heap)

(* The garbage collector takes no Bucket that a request works with.        *)
LEMMA LiveOwned ==
    ASSUME NEW h, Owned(h, pc', bucket'), IsFiniteSet(DOMAIN h), heap' = h \/ heap' = Live(h)
    PROVE  Owned(heap', pc', bucket') /\ IsFiniteSet(DOMAIN heap')
<1>1. CASE heap' = h
  BY <1>1
<1>2. CASE heap' = Live(h)
  <2> DEFINE R == {cache'.buckets[k] : k \in DOMAIN cache'.buckets}
                     \cup {bucket'[p] : p \in Requests} \cup {canonical'[p] : p \in Requests}
  <2>1. heap' = Only(h, R) /\ \A p \in Requests : bucket'[p] \in R
    BY <1>2 DEF Live
  <2> HIDE DEF R
  <2>2. DOMAIN heap' = DOMAIN h \cap R /\ \A b \in DOMAIN heap' : heap'[b] = h[b]
    BY <2>1 DEF Only
  <2>3. IsFiniteSet(DOMAIN heap')
    BY <2>2, FS_Subset, DOMAIN heap' \in SUBSET DOMAIN h
  <2> QED BY <2>1, <2>2, <2>3 DEF Owned
<1> QED BY <1>1, <1>2

(* h is the heap, perhaps with unlocked Buckets added, up to what is not a *)
(* lock.                                                                   *)
SameOwners(h) ==
    /\ DOMAIN heap \subseteq DOMAIN h
    /\ \A b \in DOMAIN heap : h[b].owner = heap[b].owner
    /\ \A b \in DOMAIN h \ DOMAIN heap : h[b].owner = NoBucket

(* A step of p that neither takes nor gives back a lock, one that takes its*)
(* lock, and one that gives it back.                                       *)
LEMMA Unmoved ==
    ASSUME Owned(heap, pc, bucket), NEW h, SameOwners(h), NEW p \in Requests,
           \A q \in Requests : q # p => pc'[q] = pc[q],
           pc'[p] \in Holding <=> pc[p] \in Holding,
           \A q \in Requests : pc[q] \in Holding => bucket'[q] = bucket[q]
    PROVE  Owned(h, pc', bucket')
BY DEF Owned, SameOwners

LEMMA Taken ==
    ASSUME Owned(heap, pc, bucket), NEW h, DOMAIN h = DOMAIN heap, NEW p \in Requests,
           \A q \in Requests : q # p => pc'[q] = pc[q],
           pc[p] \notin Holding, pc'[p] \in Holding, UNCHANGED bucket,
           bucket[p] \in DOMAIN heap, heap[bucket[p]].owner = NoBucket, h[bucket[p]].owner = p,
           \A b \in DOMAIN heap : b # bucket[p] => h[b].owner = heap[b].owner
    PROVE  Owned(h, pc', bucket')
BY RequestsAssumption DEF Owned

LEMMA GivenBack ==
    ASSUME Owned(heap, pc, bucket), NEW h, DOMAIN h = DOMAIN heap, NEW p \in Requests,
           \A q \in Requests : q # p => pc'[q] = pc[q] /\ bucket'[q] = bucket[q],
           pc[p] \in Holding, pc'[p] \notin Holding, h[bucket[p]].owner = NoBucket,
           \A b \in DOMAIN heap : b # bucket[p] => h[b].owner = heap[b].owner
    PROVE  Owned(h, pc', bucket')
BY RequestsAssumption DEF Owned

(* A new Bucket has an id of its own.                                      *)
LEMMA FreshIsNew ==
    ASSUME IsFiniteSet(DOMAIN heap) PROVE FreshBucket \notin DOMAIN heap
<1> DEFINE n == Cardinality(DOMAIN heap)
<1>1. n \in Nat
  BY FS_CardinalityType
<1>2. Cardinality(1 .. n + 1) = n + 1
  BY <1>1, FS_Interval
<1>3. ~(1 .. n + 1 \subseteq DOMAIN heap)
  BY <1>1, <1>2, FS_Subset
<1> QED BY <1>3 DEF FreshBucket

(* The fields of a Bucket other than its lock.                             *)
LEMMA OwnerStays ==
    ASSUME NEW v \in Bucket, NEW n, NEW t
    PROVE  /\ [v EXCEPT !.lastUsed = t].owner = v.owner
           /\ [v EXCEPT !.Remaining = n, !.lastUsed = t].owner = v.owner
           /\ [v EXCEPT !.Remaining = n, !.reset = t].owner = v.owner
BY DEF Bucket

LEMMA UsedOwners ==
    ASSUME Reachable, NEW h, DOMAIN h = DOMAIN heap, SameOwners(h),
           h \in [DOMAIN heap -> Bucket], NEW b
    PROVE  LET k == [h EXCEPT ![b].lastUsed = now]
           IN  SameOwners(k) /\ DOMAIN k = DOMAIN heap
<1> DEFINE k == [h EXCEPT ![b].lastUsed = now]
<1>1. \A i \in DOMAIN heap : h[i] \in Bucket
  OBVIOUS
<1>2. \A i \in DOMAIN heap : k[i].owner = h[i].owner
  BY <1>1, OwnerStays
<1>3. DOMAIN k = DOMAIN heap
  OBVIOUS
<1> QED BY <1>2, <1>3 DEF SameOwners

LEMMA LookUpLocks ==
    ASSUME Typed, Reachable, Locks, NEW p \in Requests, pc[p] \notin Holding, getBucket(p),
           pc'[p] = "lock", \A q \in Requests : q # p => pc'[q] = pc[q]
    PROVE  Locks'
<1>1. /\ \A q \in Requests : q # p => bucket'[q] = bucket[q]
      /\ UNCHANGED canonical
  BY DEF getBucket, Reachable
<1>2. Apart'
  BY <1>1 DEF Locks, Apart
<1>3. ASSUME NEW h, SameOwners(h), IsFiniteSet(DOMAIN h), heap' = Live(h)
      PROVE  Locks'
  <2>1. Owned(h, pc', bucket')
    BY <1>1, <1>3, Unmoved DEF Locks, Holding
  <2> QED BY <1>2, <1>3, <2>1, LiveOwned DEF Locks
<1>4. ASSUME NEW b, heap' = Live([heap EXCEPT ![b].lastUsed = now])
      PROVE  Locks'
  <2> DEFINE h == [heap EXCEPT ![b].lastUsed = now]
  <2>1. SameOwners(heap) /\ heap \in [DOMAIN heap -> Bucket]
    BY HeapOf DEF SameOwners
  <2>2. SameOwners(h) /\ DOMAIN h = DOMAIN heap
    BY <2>1, UsedOwners
  <2> HIDE DEF h
  <2> QED BY <1>3, <1>4, <2>2 DEF Locks, h
<1>5. ASSUME NEW v, v.owner = NoBucket,
             heap' = Live([i \in DOMAIN heap \cup {FreshBucket} |->
                              IF i = FreshBucket THEN v ELSE heap[i]])
      PROVE  Locks'
  <2> DEFINE h == [i \in DOMAIN heap \cup {FreshBucket} |->
                      IF i = FreshBucket THEN v ELSE heap[i]]
  <2>1. SameOwners(h)
    BY <1>5, FreshIsNew DEF Locks, SameOwners
  <2>2. IsFiniteSet(DOMAIN h)
    BY FS_AddElement DEF Locks
  <2> HIDE DEF h
  <2> QED BY <1>3, <1>5, <2>1, <2>2 DEF h
<1> DEFINE key == rateLimitRouteBucketKey(routeKey[p], majorKey[p])
           c == cleanupBuckets(cache)
<1>6. CASE key \in DOMAIN c.hashes /\ c.hashes[key].target \in DOMAIN c.buckets
  <2>1. heap' = Live([heap EXCEPT ![c.buckets[c.hashes[key].target]].lastUsed = now])
    BY <1>6 DEF getBucket
  <2> HIDE DEF key, c
  <2> QED BY <1>4, <2>1
<1>7. CASE /\ ~(key \in DOMAIN c.hashes /\ c.hashes[key].target \in DOMAIN c.buckets)
           /\ key \in DOMAIN c.buckets
  <2>1. heap' = Live([heap EXCEPT ![c.buckets[key]].lastUsed = now])
    BY <1>7 DEF getBucket
  <2> HIDE DEF key, c
  <2> QED BY <1>4, <2>1
<1>8. CASE /\ ~(key \in DOMAIN c.hashes /\ c.hashes[key].target \in DOMAIN c.buckets)
           /\ key \notin DOMAIN c.buckets
  <2> DEFINE fresh == [RouteKey |-> routeKey[p], MajorKey |-> majorKey[p],
                       Remaining |-> 1, reset |-> 0, lastUsed |-> now, owner |-> NoBucket]
  <2>1. heap' = Live([i \in DOMAIN heap \cup {FreshBucket} |->
                         IF i = FreshBucket THEN fresh ELSE heap[i]])
    BY <1>8 DEF getBucket
  <2>2. fresh.owner = NoBucket
    OBVIOUS
  <2> HIDE DEF key, c, fresh
  <2> QED BY <1>5, <2>1, <2>2
<1> HIDE DEF key, c
<1> QED BY <1>6, <1>7, <1>8

(* Giving back the lock, with the Buckets as they are in h.                *)
LEMMA UnlockedLocks ==
    ASSUME Typed, Reachable, Locks, NEW p \in Requests, pc[p] \in Holding, pc'[p] \notin Holding,
           \A q \in Requests : q # p => pc'[q] = pc[q],
           NEW h, h \in [DOMAIN heap -> Bucket], SameOwners(h), Unlocked(p, h),
           \A q \in Requests : q # p => canonical'[q] = canonical[q]
    PROVE  Locks'
<1> DEFINE b == bucket[p]
           g == [h EXCEPT ![b].owner = NoBucket]
           k == [g EXCEPT ![b].lastUsed = now]
<1>1. b \in DOMAIN heap
  BY DEF Reachable
<1>2. [h[b] EXCEPT !.owner = NoBucket] \in Bucket /\ [h[b] EXCEPT !.owner = NoBucket].owner = NoBucket
  BY <1>1 DEF Bucket
<1>3. /\ DOMAIN k = DOMAIN heap
      /\ k[b].owner = NoBucket
      /\ \A i \in DOMAIN heap : i # b => k[i].owner = h[i].owner
  BY <1>1, <1>2, OwnerStays
<1>4. heap' = Live(k) /\ bucket' = [bucket EXCEPT ![p] = NoBucket]
  BY DEF Unlocked
<1> HIDE DEF b, g, k
<1>5. \A q \in Requests : q # p => bucket'[q] = bucket[q]
  BY <1>4 DEF Reachable
<1>6. \A i \in DOMAIN heap : i # bucket[p] => k[i].owner = heap[i].owner
  BY <1>3 DEF SameOwners, b
<1>7. Owned(k, pc', bucket')
  BY <1>3, <1>5, <1>6, GivenBack DEF Locks, b
<1>8. Apart'
  BY <1>5 DEF Locks, Apart, Holding
<1> QED BY <1>3, <1>4, <1>7, <1>8, LiveOwned DEF Locks

(* A step that gives and takes no lock, and looks up nothing.              *)
LEMMA UnmovedLocks ==
    ASSUME Reachable, Locks, UNCHANGED <<bucket, canonical>>, NEW h, SameOwners(h),
           DOMAIN h = DOMAIN heap, heap' = h, NEW p \in Requests,
           \A q \in Requests : q # p => pc'[q] = pc[q],
           pc'[p] \in Holding <=> pc[p] \in Holding, pc'[p] = "canonical" => pc[p] = "canonical"
    PROVE  Locks'
<1>1. Apart'
  BY DEF Locks, Apart
<1>2. Owned(h, pc', bucket')
  BY Unmoved DEF Locks
<1> QED BY <1>1, <1>2 DEF Locks

LEMMA LocksKept ==
    ASSUME Typed, RetryAssumption, Reachable, Locks, [Next]_vars PROVE Locks'
<1> USE DEF Holding
<1>0. SameOwners(heap) /\ heap \in [DOMAIN heap -> Bucket]
  BY HeapOf DEF SameOwners
<1>1. ASSUME NEW p \in Requests, UNCHANGED <<heap, bucket, canonical>>,
             NEW label \in Labels \ {"canonical"}, Go(p, label),
             label \in Holding <=> pc[p] \in Holding
      PROVE  Locks'
  <2>1. pc'[p] = label /\ \A q \in Requests : q # p => pc'[q] = pc[q]
    BY <1>1, LabelSet
  <2> QED BY <1>0, <1>1, <2>1, UnmovedLocks
<1>2. ASSUME NEW p \in Requests, pc[p] \notin Holding, NEW n, LookUp(p, n) PROVE Locks'
  <2>1. CASE PassesBreaker(p)
    <3>1. getBucket(p) /\ Go(p, "lock")
      BY <1>2, <2>1 DEF LookUp
    <3>2. pc'[p] = "lock" /\ \A q \in Requests : q # p => pc'[q] = pc[q]
      BY <3>1, LabelSet DEF Labels
    <3> QED BY <1>2, <3>1, <3>2, LookUpLocks
  <2>2. CASE ~PassesBreaker(p)
    BY <1>1, <1>2, <2>2, Ends DEF LookUp, Labels
  <2> QED BY <2>1, <2>2
<1>3. ASSUME NEW p \in Requests, Retry(p) \/ LockBucketRoute(p) PROVE Locks'
  <2>1. pc[p] \notin Holding
    BY <1>3 DEF Retry, LockBucketRoute
  <2> QED BY <1>1, <1>2, <1>3, <2>1, Ends DEF Retry, LockBucketRoute, Labels
<1>4. ASSUME NEW p \in Requests, GetWaitTime(p) PROVE Locks'
  <2> DEFINE b == bucket[p]
             h == [heap EXCEPT ![b].owner = p]
  <2>1. b \in DOMAIN heap /\ heap[b] \in Bucket /\ heap' = h /\ UNCHANGED <<bucket, canonical>>
    BY <1>4 DEF GetWaitTime, Reachable
  <2>2. /\ pc'[p] \in {"reserve", "sleep"}
        /\ \A q \in Requests : q # p => pc'[q] = pc[q]
    <3>1. PICK label \in {"reserve", "sleep"} : Go(p, label)
      BY <1>4 DEF GetWaitTime
    <3> QED BY <3>1, LabelSet DEF Labels
  <2>3. /\ DOMAIN h = DOMAIN heap /\ h[b].owner = p
        /\ \A i \in DOMAIN heap : i # b => h[i].owner = heap[i].owner
    BY <2>1 DEF Bucket
  <2> HIDE DEF h
  <2>4. CASE pc[p] = "lock"
    <3>1. heap[b].owner = NoBucket
      BY <1>4, <2>4 DEF GetWaitTime
    <3>2. Owned(h, pc', bucket')
      BY <2>1, <2>2, <2>3, <2>4, <3>1, Taken DEF Locks
    <3>3. Apart'
      BY <2>1, <2>2 DEF Locks, Apart
    <3> QED BY <2>1, <2>3, <3>2, <3>3 DEF Locks
  <2>5. CASE pc[p] = "sleep"
    <3>1. heap[b].owner = p
      BY <2>5 DEF Locks, Owned
    <3>2. SameOwners(h)
      BY <2>3, <3>1 DEF SameOwners
    <3> QED BY <2>1, <2>2, <2>3, <2>5, <3>2, UnmovedLocks
  <2> QED BY <1>4, <2>4, <2>5 DEF GetWaitTime
<1>5. ASSUME NEW p \in Requests, NEW next \in {"breaker", "send"},
             reserveGlobalRequest(p, next)
      PROVE  Locks'
  <2> DEFINE b == bucket[p]
             v == [heap[b] EXCEPT !.Remaining = @ - 1, !.lastUsed = now]
             h == [heap EXCEPT ![b] = v]
  <2>1. pc[p] = "reserve" /\ UNCHANGED <<bucket, canonical>>
    BY <1>5 DEF reserveGlobalRequest
  <2>2. PICK label \in {"breaker", "send", "sleep"} : Go(p, label)
    BY <1>5 DEF reserveGlobalRequest
  <2>3. CASE UNCHANGED heap
    BY <1>1, <2>1, <2>2, <2>3 DEF Labels
  <2>4. CASE heap' = [heap EXCEPT ![b].Remaining = @ - 1, ![b].lastUsed = now]
    <3>1. b \in DOMAIN heap /\ heap[b] \in Bucket
      BY <2>1 DEF Reachable
    <3>2. heap' = h
      BY <2>4, <3>1, HeapOf DEF Bucket
    <3>3. v.owner = heap[b].owner
      BY <3>1, OwnerStays
    <3>4. SameOwners(h) /\ DOMAIN h = DOMAIN heap
      BY <3>1, <3>3 DEF SameOwners
    <3>5. pc'[p] = label /\ \A q \in Requests : q # p => pc'[q] = pc[q]
      BY <2>2, LabelSet DEF Labels
    <3> HIDE DEF h
    <3> QED BY <2>1, <3>2, <3>4, <3>5, UnmovedLocks
  <2> QED BY <1>5, <2>3, <2>4 DEF reserveGlobalRequest
<1>6. ASSUME NEW p \in Requests, pc[p] \in Holding, Unlocked(p, heap), UNCHANGED canonical,
             NEW label \in {"ended", "backoff", "record"}, Go(p, label)
      PROVE  Locks'
  <2>1. pc'[p] = label /\ \A q \in Requests : q # p => pc'[q] = pc[q]
    BY <1>6, LabelSet DEF Labels
  <2> QED BY <1>0, <1>6, <2>1, UnlockedLocks
<1>7. ASSUME NEW p \in Requests, Cancelled(p) \/ CheckInvalidRequestLimit(p) PROVE Locks'
  <2>1. pc[p] \in {"sleep", "breaker"}
    BY <1>7 DEF Cancelled, CheckInvalidRequestLimit
  <2>2. CASE ReleaseAndFail(p)
    BY <1>6, <2>1, <2>2, Ends DEF ReleaseAndFail
  <2>3. CASE ~ReleaseAndFail(p)
    BY <1>1, <1>7, <2>1, <2>3 DEF Cancelled, CheckInvalidRequestLimit, Labels
  <2> QED BY <2>2, <2>3
<1>8. ASSUME NEW p \in Requests, Locking(p) PROVE Locks'
  BY <1>4, <1>5, <1>8 DEF Locking
<1>9. ASSUME NEW p \in Requests, DoFails(p) PROVE Locks'
  <2>1. Unlocked(p, heap) /\ UNCHANGED canonical
    BY <1>9 DEF DoFails
  <2> QED BY <1>6, <1>9, <2>1, DoFailsShape
<1>10. ASSUME NEW p \in Requests, DoReturns(p) \/ HandleResponse(p) PROVE Locks'
  <2>1. UNCHANGED <<heap, bucket, canonical>>
    BY <1>10 DEF DoReturns, HandleResponse, limiter
  <2> QED BY <1>1, <1>10, <2>1, DoReturnsShape, HandlesShape DEF Labels
<1>11. ASSUME NEW p \in Requests, ReleaseHeaders(p) PROVE Locks'
  <2> DEFINE b == bucket[p]
             r == attempt[p].response
             v == [heap[b] EXCEPT !.Remaining = r.remaining, !.reset = now + r.after]
             informed == [heap EXCEPT ![b] = v]
  <2>1. pc[p] = "release" /\ b \in DOMAIN heap /\ heap[b] \in Bucket
    BY <1>11 DEF ReleaseHeaders, Reachable
  <2>2. CASE ~HasHeaders(r)
    <3>1. UNCHANGED canonical /\ Go(p, "record") /\ Unlocked(p, heap)
      BY <1>11, <2>2 DEF ReleaseHeaders
    <3> QED BY <1>6, <2>1, <3>1
  <2>3. CASE HasHeaders(r)
    <3>1. v \in Bucket /\ v.owner = heap[b].owner
      <4>1. r \in Responses
        BY DEF Typed, Attempts
      <4>2. r.remaining \in Int /\ now + r.after \in Nat
        BY <2>3, <4>1 DEF Responses, NoResponse, HasHeaders, Typed
      <4>3. v \in Bucket
        BY <2>1, <4>2, BucketFields
      <4>4. v.owner = heap[b].owner
        BY <2>1, OwnerStays
      <4> QED BY <4>3, <4>4
    <3>2. [heap EXCEPT ![b].Remaining = r.remaining, ![b].reset = now + r.after] = informed
      BY <2>1, HeapOf DEF Bucket
    <3>3. PICK kept \in DOMAIN heap :
                  IF kept = b
                  THEN UNCHANGED canonical /\ Go(p, "record") /\ Unlocked(p, informed)
                  ELSE /\ canonical' = [canonical EXCEPT ![p] = kept]
                       /\ Go(p, "canonical")
                       /\ UNCHANGED bucket
                       /\ heap' = Live([informed EXCEPT ![kept].lastUsed = now])
      BY <1>11, <2>3, <3>2 DEF ReleaseHeaders
    <3>4. informed \in [DOMAIN heap -> Bucket] /\ SameOwners(informed)
      BY <1>0, <2>1, <3>1 DEF SameOwners
    <3> HIDE DEF r, v, informed
    <3>5. CASE kept = b
      <4>1. pc'[p] = "record" /\ \A q \in Requests : q # p => pc'[q] = pc[q]
        BY <3>3, <3>5, LabelSet DEF Labels
      <4> QED BY <2>1, <3>3, <3>4, <3>5, <4>1, UnlockedLocks
    <3>6. CASE kept # b
      <4> DEFINE k == [informed EXCEPT ![kept].lastUsed = now]
      <4>1. pc'[p] = "canonical" /\ \A q \in Requests : q # p => pc'[q] = pc[q]
        BY <3>3, <3>6, LabelSet DEF Labels
      <4>2. SameOwners(k) /\ DOMAIN k = DOMAIN heap
        BY <3>4, UsedOwners
      <4>3. /\ canonical'[p] = kept /\ \A q \in Requests : q # p => canonical'[q] = canonical[q]
            /\ UNCHANGED bucket /\ heap' = Live(k)
        BY <3>3, <3>6 DEF Reachable
      <4> HIDE DEF k
      <4>4. Apart'
        BY <3>6, <4>1, <4>3 DEF Locks, Apart, b
      <4>5. Owned(k, pc', bucket')
        BY <2>1, <4>1, <4>2, <4>3, Unmoved DEF Locks
      <4> QED BY <4>2, <4>3, <4>4, <4>5, LiveOwned DEF Locks
    <3> QED BY <3>5, <3>6
  <2> QED BY <2>2, <2>3
<1>12. ASSUME NEW p \in Requests, UpdateCanonical(p) PROVE Locks'
  <2> DEFINE c == canonical[p]
             h == [heap EXCEPT ![c] = Copied(p)]
  <2>1. /\ pc[p] = "canonical" /\ Go(p, "record") /\ Unlocked(p, h)
        /\ canonical' = [canonical EXCEPT ![p] = NoBucket]
    BY <1>12 DEF UpdateCanonical
  <2>2. bucket[p] \in DOMAIN heap /\ c \in DOMAIN heap
    BY <2>1 DEF Reachable
  <2>3. heap[bucket[p]] \in Bucket /\ heap[c] \in Bucket
    BY <2>2, HeapOf DEF Reachable
  <2>4. Copied(p) \in Bucket /\ Copied(p).owner = heap[c].owner
    BY <2>3 DEF Copied, Bucket
  <2>5. h \in [DOMAIN heap -> Bucket] /\ SameOwners(h)
    BY <1>0, <2>2, <2>4 DEF SameOwners
  <2>6. pc'[p] = "record" /\ \A q \in Requests : q # p => pc'[q] = pc[q]
    BY <2>1, LabelSet DEF Labels
  <2>7. \A q \in Requests : q # p => canonical'[q] = canonical[q]
    BY <2>1 DEF Reachable
  <2> HIDE DEF h
  <2> QED BY <2>1, <2>5, <2>6, <2>7, UnlockedLocks
<1>13. CASE \/ \E r \in Moving : Rehash(r)
            \/ Tick \/ UNCHANGED vars
  BY <1>13 DEF Rehash, Tick, vars, limiter, Locks, Owned, Apart
<1> QED BY <1>3, <1>7, <1>8, <1>9, <1>10, <1>11, <1>12, <1>13, StepKinds DEF Waits

-----------------------------------------------------------------------------
(* The proactive window.                                                   *)
W == GlobalRateWindow
L == GlobalRateLimit
Within(gs, from, to) == {g \in gs : from <= g[2] /\ g[2] < to}

(* The grants gs, as the window w and the two that came before it account  *)
(* for them. Each window begins W or more after the one before it.         *)
Accounted(gs, w) ==
    /\ w = [start |-> w.start, requests |-> w.requests]
    /\ w.start \in Nat /\ w.requests \in 0 .. L
    /\ \A g \in gs : g[2] < w.start + W
    /\ Cardinality(Within(gs, w.start, w.start + W)) <= w.requests
    /\ \E s1, s2 \in Int :
          /\ s1 + W <= w.start /\ s2 + W <= s1
          /\ Cardinality(Within(gs, s1, w.start)) <= L
          /\ Cardinality(Within(gs, s2, s1)) <= L

Grants == granted \in SUBSET (Requests \X Nat) /\ IsFiniteSet(granted)

Budget ==
    /\ Grants
    /\ \/ window = [start |-> Never, requests |-> 0] /\ granted = {}
       \/ window.start <= now /\ Accounted(granted, window)

LEMMA WL == W \in Nat \ {0} /\ L \in Nat \ {0}
BY LimitsAssumption DEF W, L

LEMMA WithinFinite ==
    ASSUME NEW gs, IsFiniteSet(gs), NEW from, NEW to
    PROVE  IsFiniteSet(Within(gs, from, to)) /\ Cardinality(Within(gs, from, to)) \in Nat
<1>1. Within(gs, from, to) \in SUBSET gs
  BY DEF Within
<1> QED BY <1>1, FS_Subset, FS_CardinalityType

LEMMA UnionBound ==
    ASSUME NEW S, NEW T, IsFiniteSet(S), IsFiniteSet(T)
    PROVE  /\ IsFiniteSet(S \cup T)
           /\ Cardinality(S \cup T) <= Cardinality(S) + Cardinality(T)
           /\ Cardinality(S \cup T) \in Nat
<1>1. IsFiniteSet(S \cup T) /\ IsFiniteSet(S \cap T)
  BY FS_Union, FS_Intersection
<1>2. /\ Cardinality(S) \in Nat /\ Cardinality(T) \in Nat
      /\ Cardinality(S \cup T) \in Nat /\ Cardinality(S \cap T) \in Nat
  BY <1>1, FS_CardinalityType
<1>3. Cardinality(S \cup T) = Cardinality(S) + Cardinality(T) - Cardinality(S \cap T)
  BY FS_Union
<1> QED BY <1>1, <1>2, <1>3

LEMMA FewerAccounted ==
    ASSUME NEW gs, IsFiniteSet(gs), NEW w, Accounted(gs, w), NEW few \in SUBSET gs
    PROVE  Accounted(few, w)
<1>1. \A from, to : /\ Cardinality(Within(few, from, to)) <= Cardinality(Within(gs, from, to))
                    /\ Cardinality(Within(few, from, to)) \in Nat
                    /\ Cardinality(Within(gs, from, to)) \in Nat
  <2> TAKE from, to
  <2>1. IsFiniteSet(Within(gs, from, to)) /\ Cardinality(Within(gs, from, to)) \in Nat
    BY WithinFinite
  <2>2. Within(few, from, to) \in SUBSET Within(gs, from, to)
    BY DEF Within
  <2>3. IsFiniteSet(few)
    BY FS_Subset
  <2>4. Cardinality(Within(few, from, to)) \in Nat
    BY <2>3, WithinFinite
  <2>5. Cardinality(Within(few, from, to)) <= Cardinality(Within(gs, from, to))
    BY <2>1, <2>2, FS_Subset
  <2> QED BY <2>1, <2>4, <2>5
<1>2. PICK s1, s2 \in Int :
          /\ s1 + W <= w.start /\ s2 + W <= s1
          /\ Cardinality(Within(gs, s1, w.start)) <= L
          /\ Cardinality(Within(gs, s2, s1)) <= L
  BY DEF Accounted
<1>3. /\ Cardinality(Within(few, s1, w.start)) <= L
      /\ Cardinality(Within(few, s2, s1)) <= L
      /\ Cardinality(Within(few, w.start, w.start + W)) <= w.requests
  <2>1. w.requests \in Nat
    BY WL DEF Accounted
  <2> QED BY <1>1, <1>2, <2>1, WL DEF Accounted
<1> QED BY <1>2, <1>3 DEF Accounted

(* resetGlobalWindow opens the next window when W have passed.             *)
LEMMA ResetAccounts ==
    ASSUME Typed, Budget, NEW w, w = resetGlobalWindow
    PROVE  /\ Accounted(granted, w)
           /\ w.start <= now /\ now < w.start + W
<1>1. CASE window.start = Never \/ now - window.start >= W
  <2>1. w = [start |-> now, requests |-> 0]
    BY <1>1 DEF resetGlobalWindow, W
  <2>2. w.start = now /\ w.requests = 0 /\ now \in Nat
    BY <2>1 DEF Typed
  <2>3. w = [start |-> w.start, requests |-> w.requests]
    BY <2>1, <2>2
  <2>4. CASE granted = {}
    <3>1. \A from, to : Within(granted, from, to) = {}
      BY <2>4 DEF Within
    <3>2. Cardinality({}) = 0
      BY FS_EmptySet
    <3> DEFINE s1 == now - W
               s2 == s1 - W
    <3>8. s1 \in Int /\ s2 \in Int /\ s1 + W = now /\ s2 + W = s1
      BY <2>2, WL
    <3> HIDE DEF s1, s2
    <3>3. \A from, to : Cardinality(Within(granted, from, to)) = 0
      BY <3>1, <3>2, Zenon
    <3>9. Cardinality(Within(granted, s1, w.start)) = 0 /\ Cardinality(Within(granted, s2, s1)) = 0
      BY <3>3, Zenon
    <3>4. /\ s1 + W <= w.start /\ s2 + W <= s1
          /\ Cardinality(Within(granted, s1, w.start)) <= L
          /\ Cardinality(Within(granted, s2, s1)) <= L
      <4>1. s1 + W <= w.start /\ s2 + W <= s1
        BY <2>2, <3>8, WL
      <4> QED BY <4>1, <3>9, WL
    <3>10. Cardinality(Within(granted, w.start, w.start + W)) = 0
      BY <3>3, Zenon
    <3>5. Cardinality(Within(granted, w.start, w.start + W)) <= w.requests
      BY <2>2, <3>10
    <3>6. \A g \in granted : g[2] < w.start + W
      BY <2>4
    <3>7. w.start \in Nat /\ w.requests \in 0 .. L
      BY <2>2, WL
    <3> QED BY <2>2, <2>3, <3>4, <3>5, <3>6, <3>7, <3>8, WL DEF Accounted
  <2>5. CASE Accounted(granted, window)
    <3>1. /\ window.start \in Nat /\ now >= window.start + W /\ window.requests <= L
          /\ window.requests \in Nat
      BY <1>1, <2>2, <2>5, WL DEF Accounted, Never
    <3>2. \A g \in granted : g[2] < window.start + W /\ g[2] \in Nat
      BY <2>5 DEF Accounted, Budget, Grants
    <3>3. Within(granted, now, now + W) = {}
      BY <2>2, <3>1, <3>2, WL DEF Within
    <3>4. Within(granted, window.start, now) = Within(granted, window.start, window.start + W)
      BY <2>2, <3>1, <3>2, WL DEF Within
    <3>5. Cardinality(Within(granted, window.start, now)) <= L
      <4>1. Cardinality(Within(granted, window.start, window.start + W)) <= window.requests
        BY <2>5 DEF Accounted
      <4>2. Cardinality(Within(granted, window.start, window.start + W)) \in Nat
        BY WithinFinite DEF Budget, Grants
      <4> QED BY <3>1, <3>4, <4>1, <4>2, WL
    <3>6. PICK s1 \in Int : /\ s1 + W <= window.start
                            /\ Cardinality(Within(granted, s1, window.start)) <= L
      BY <2>5 DEF Accounted
    <3>7. Cardinality({}) = 0
      BY FS_EmptySet
    <3>8. window.start \in Int /\ window.start + W <= w.start
      BY <2>2, <3>1
    <3>9. \A g \in granted : g[2] < w.start + W
      BY <2>2, <3>1, <3>2, WL
    <3>10. Cardinality(Within(granted, w.start, w.start + W)) <= w.requests
      BY <2>2, <3>3, <3>7
    <3>11. w.start \in Nat /\ w.requests \in 0 .. L
      BY <2>2, WL
    <3>12. Cardinality(Within(granted, window.start, w.start)) <= L
      BY <2>2, <3>5
    <3>13. \E s, z \in Int :
              /\ s + W <= w.start /\ z + W <= s
              /\ Cardinality(Within(granted, s, w.start)) <= L
              /\ Cardinality(Within(granted, z, s)) <= L
      BY <3>6, <3>8, <3>12
    <3>14. Accounted(granted, w)
      BY <2>3, <3>9, <3>10, <3>11, <3>13, Zenon DEF Accounted
    <3> QED BY <2>2, <3>14, WL
  <2>6. Accounted(granted, w)
    BY <2>4, <2>5, Zenon DEF Budget
  <2>7. w.start <= now /\ now < w.start + W
    BY <2>2, WL
  <2> QED BY <2>6, <2>7
<1>2. CASE ~(window.start = Never \/ now - window.start >= W)
  <2>1. w = window
    BY <1>2 DEF resetGlobalWindow, W
  <2>2. window # [start |-> Never, requests |-> 0]
    BY <1>2
  <2>3. Accounted(granted, window) /\ window.start <= now /\ window.start \in Nat /\ now \in Nat
    BY <2>2 DEF Budget, Accounted, Typed
  <2>4. now - window.start < W
    <3>1. ~(now - window.start >= W)
      BY <1>2
    <3> QED BY <2>3, <3>1, WL
  <2>5. now < window.start + W
    BY <2>3, <2>4, WL
  <2> QED BY <2>1, <2>3, <2>5
<1> QED BY <1>1, <1>2

(* The grants of the last two windows' time are those of at most three     *)
(* windows.                                                                *)
Lately == {g \in granted : g[2] + 2 * GlobalRateWindow > now}

LEMMA LatelyFew ==
    ASSUME Typed, Grants, NEW w, Accounted(granted, w), w.start <= now, now < w.start + W
    PROVE  /\ IsFiniteSet(Lately) /\ Cardinality(Lately) \in Nat
           /\ Cardinality(Lately) <= 2 * L + w.requests
<1>1. PICK s1, s2 \in Int :
          /\ s1 + W <= w.start /\ s2 + W <= s1
          /\ Cardinality(Within(granted, s1, w.start)) <= L
          /\ Cardinality(Within(granted, s2, s1)) <= L
  BY DEF Accounted
<1> DEFINE A == Within(granted, w.start, w.start + W)
           B == Within(granted, s1, w.start)
           C == Within(granted, s2, s1)
<1>2. /\ IsFiniteSet(A) /\ IsFiniteSet(B) /\ IsFiniteSet(C)
      /\ Cardinality(A) \in Nat /\ Cardinality(B) \in Nat /\ Cardinality(C) \in Nat
  BY WithinFinite DEF Grants
<1>3. Cardinality(A) <= w.requests /\ Cardinality(B) <= L /\ Cardinality(C) <= L
  BY <1>1 DEF Accounted
<1>4. w.start \in Nat /\ w.requests \in Nat /\ now \in Nat
  BY WL DEF Accounted, Typed
<1>5. \A g \in Lately : g \in granted /\ g[2] \in Nat /\ s2 <= g[2] /\ g[2] < w.start + W
  <2> TAKE g \in Lately
  <2>1. g \in granted /\ g[2] \in Nat /\ g[2] + 2 * W > now /\ g[2] < w.start + W
    BY DEF Lately, Grants, Accounted, W
  <2>2. s2 + 2 * W <= now
    BY <1>1, <1>4, WL
  <2> QED BY <1>4, <2>1, <2>2, WL
<1>6. Lately \in SUBSET (A \cup (B \cup C))
  BY <1>1, <1>4, <1>5, WL DEF Within
<1> HIDE DEF A, B, C
<1>7. /\ IsFiniteSet(B \cup C) /\ Cardinality(B \cup C) <= Cardinality(B) + Cardinality(C)
      /\ Cardinality(B \cup C) \in Nat
  BY <1>2, UnionBound
<1>8. /\ IsFiniteSet(A \cup (B \cup C))
      /\ Cardinality(A \cup (B \cup C)) <= Cardinality(A) + Cardinality(B \cup C)
      /\ Cardinality(A \cup (B \cup C)) \in Nat
  BY <1>2, <1>7, UnionBound
<1>9. /\ IsFiniteSet(Lately) /\ Cardinality(Lately) \in Nat
      /\ Cardinality(Lately) <= Cardinality(A \cup (B \cup C))
  BY <1>6, <1>8, FS_Subset, FS_CardinalityType
<1> QED BY <1>2, <1>3, <1>4, <1>7, <1>8, <1>9, WL

(* A grant is counted in its window.                                       *)
LEMMA GrantAccounted ==
    ASSUME NEW gs, IsFiniteSet(gs), NEW w, Accounted(gs, w), w.requests < L,
           NEW t \in Nat, w.start <= t, t < w.start + W, NEW p
    PROVE  Accounted(gs \cup {<<p, t>>}, [w EXCEPT !.requests = @ + 1])
<1> DEFINE more == gs \cup {<<p, t>>}
           v == [w EXCEPT !.requests = @ + 1]
<1>1. /\ v = [start |-> v.start, requests |-> v.requests]
      /\ v.start = w.start /\ v.requests = w.requests + 1
  BY DEF Accounted
<1>2. w.start \in Nat /\ w.requests \in Nat /\ v.requests \in 0 .. L
  BY <1>1, WL DEF Accounted
<1> HIDE DEF v
<1>3. \A g \in more : g[2] < v.start + W
  BY <1>1 DEF Accounted
<1>4. Cardinality(Within(more, v.start, v.start + W)) <= v.requests
  <2> DEFINE A == Within(gs, w.start, w.start + W)
  <2>1. Within(more, v.start, v.start + W) = A \cup {<<p, t>>}
    BY <1>1 DEF Within
  <2>2. IsFiniteSet(A) /\ Cardinality(A) \in Nat
    BY WithinFinite
  <2>3. Cardinality(A) <= w.requests
    BY DEF Accounted
  <2> HIDE DEF A
  <2>4. Cardinality(A \cup {<<p, t>>}) = IF <<p, t>> \in A THEN Cardinality(A) ELSE Cardinality(A) + 1
    BY <2>2, FS_AddElement
  <2>5. Cardinality(A \cup {<<p, t>>}) <= Cardinality(A) + 1
    BY <2>2, <2>4
  <2>6. Cardinality(A \cup {<<p, t>>}) \in Nat
    BY <2>2, <2>4
  <2>7. Cardinality(A \cup {<<p, t>>}) <= v.requests
    BY <1>1, <1>2, <2>2, <2>3, <2>5, <2>6
  <2> QED BY <2>1, <2>7, Zenon
<1>5. PICK s1, s2 \in Int :
          /\ s1 + W <= w.start /\ s2 + W <= s1
          /\ Cardinality(Within(gs, s1, w.start)) <= L
          /\ Cardinality(Within(gs, s2, s1)) <= L
  BY DEF Accounted
<1>6. Within(more, s1, w.start) = Within(gs, s1, w.start)
      /\ Within(more, s2, s1) = Within(gs, s2, s1)
  BY <1>2, <1>5, WL DEF Within
<1> HIDE DEF more
<1>7. Accounted(more, v)
  BY <1>1, <1>2, <1>3, <1>4, <1>5, <1>6 DEF Accounted
<1> QED BY <1>7 DEF more, v

-----------------------------------------------------------------------------
(* What a step does to the window, to the grants and to the clock.         *)
Reserves(p) ==
    /\ HasBudget(resetGlobalWindow)
    /\ window' = [resetGlobalWindow EXCEPT !.requests = @ + 1]
    /\ granted' = Lately \cup {<<p, now>>}
    /\ UNCHANGED now

LEMMA WindowSteps ==
    ASSUME [Next]_vars
    PROVE  \/ \E p \in Requests : Reserves(p)
           \/ UNCHANGED <<granted, now>> /\ window' \in {window, resetGlobalWindow}
           \/ Tick /\ UNCHANGED <<granted, window>>
<1>1. ASSUME NEW p \in Requests, Waits(p)
      PROVE  \/ Reserves(p)
             \/ UNCHANGED <<granted, now>> /\ window' \in {window, resetGlobalWindow}
  <2>1. CASE Locking(p)
    BY <2>1 DEF Locking, GetWaitTime, reserveGlobalRequest, Reserves, Lately
  <2>2. CASE LockBucketRoute(p) \/ Retry(p)
    BY <2>2 DEF LockBucketRoute, Retry
  <2>3. CASE Cancelled(p)
    BY <2>3 DEF Cancelled, ReleaseAndFail
  <2>4. CASE CheckInvalidRequestLimit(p)
    BY <2>4 DEF CheckInvalidRequestLimit, ReleaseAndFail
  <2> QED BY <1>1, <2>1, <2>2, <2>3, <2>4 DEF Waits
<1>2. ASSUME NEW p \in Requests,
             \/ DoFails(p) \/ DoReturns(p) \/ ReleaseHeaders(p) \/ UpdateCanonical(p)
             \/ HandleResponse(p)
      PROVE  UNCHANGED <<granted, now, window>>
  BY <1>2 DEF DoFails, DoReturns, ReleaseHeaders, UpdateCanonical, HandleResponse, limiter
<1>3. CASE \/ \E r \in Moving : Rehash(r)
           \/ Tick \/ UNCHANGED vars
  BY <1>3 DEF Rehash, Tick, vars, limiter
<1> QED BY <1>1, <1>2, <1>3, StepKinds

LEMMA BudgetKept ==
    ASSUME Typed, Budget, [Next]_vars PROVE Budget'
<1>1. ASSUME NEW p \in Requests, Reserves(p) PROVE Budget'
  <2> DEFINE w == resetGlobalWindow
  <2>1. Accounted(granted, w) /\ w.start <= now /\ now < w.start + W
    BY ResetAccounts
  <2>2. Lately \in SUBSET granted /\ IsFiniteSet(granted) /\ now \in Nat
    BY DEF Lately, Budget, Grants, Typed
  <2> HIDE DEF w
  <2>3. Accounted(Lately, w) /\ IsFiniteSet(Lately)
    BY <2>1, <2>2, FewerAccounted, FS_Subset
  <2>4. w.requests < L
    BY <1>1 DEF Reserves, HasBudget, L, w
  <2>5. Accounted(Lately \cup {<<p, now>>}, [w EXCEPT !.requests = @ + 1])
    BY <2>1, <2>2, <2>3, <2>4, GrantAccounted
  <2>6. Accounted(granted', window')
    BY <1>1, <2>5 DEF Reserves, w
  <2>7. window'.start <= now'
    BY <1>1, <2>1 DEF Reserves, w, Accounted
  <2>8. Grants'
    <3>1. granted' = Lately \cup {<<p, now>>}
      BY <1>1 DEF Reserves
    <3>2. IsFiniteSet(Lately \cup {<<p, now>>})
      BY <2>3, FS_AddElement
    <3>3. Lately \cup {<<p, now>>} \in SUBSET (Requests \X Nat)
      BY <2>2 DEF Budget, Grants
    <3> QED BY <3>1, <3>2, <3>3 DEF Grants
  <2> QED BY <2>6, <2>7, <2>8 DEF Budget
<1>2. ASSUME UNCHANGED <<granted, now>>, window' \in {window, resetGlobalWindow} PROVE Budget'
  <2>1. CASE window' = window
    BY <1>2, <2>1 DEF Budget, Grants
  <2>2. CASE window' = resetGlobalWindow
    BY <1>2, <2>2, ResetAccounts DEF Budget, Grants
  <2> QED BY <1>2, <2>1, <2>2
<1>3. ASSUME Tick, UNCHANGED <<granted, window>> PROVE Budget'
  <2>1. CASE window = [start |-> Never, requests |-> 0] /\ granted = {}
    BY <1>3, <2>1 DEF Budget, Grants
  <2>2. CASE window.start <= now /\ Accounted(granted, window)
    <3>1. window.start <= now'
      BY <1>3, <2>2 DEF Tick, Typed, Accounted
    <3> QED BY <1>3, <2>2, <3>1 DEF Budget, Grants
  <2> QED BY <2>1, <2>2 DEF Budget
<1> QED BY <1>1, <1>2, <1>3, WindowSteps

-----------------------------------------------------------------------------
(* The window of invalid responses. Due: the requests that passed the check*)
(* of the window and have not recorded their response. A retry passes it   *)
(* before it takes its Bucket's lock.                                      *)
Due(label, att) ==
    {p \in Requests :
        \/ label[p] \in Handling \cup {"send"}
        \/ label[p] \in {"lock", "sleep", "reserve"} /\ att[p].retries > 0}

Blockable ==
    /\ invalid.at \in Seq(Nat)
    /\ invalid.warned <=> Len(invalid.at) >= InvalidRequestWarningThreshold
    /\ IsFiniteSet(Requests) =>
          Len(invalid.at) + Cardinality(Due(pc, attempt))
              < InvalidRequestLimit + Cardinality(Requests)

LEMMA Greatest ==
    ASSUME NEW n \in Nat, NEW S \in SUBSET (0 .. n), S # {}
    PROVE  Max(S) \in S
<1> DEFINE Less == OpToRel(<, Nat)
           T == {n - k : k \in S}
<1>1. \A k, m \in Nat : k < m => <<k, m>> \in Less
  BY DEF OpToRel
<1>2. IsWellFoundedOn(Less, Nat)
  BY NatLessThanWellFounded
<1> HIDE DEF Less
<1>3. T \subseteq Nat /\ T # {}
  <2>1. ASSUME NEW k \in S PROVE n - k \in Nat
    OBVIOUS
  <2>2. PICK k \in S : TRUE
    OBVIOUS
  <2>3. n - k \in T
    OBVIOUS
  <2> QED BY <2>1, <2>3
<1>4. PICK m \in T : \A k \in T : <<k, m>> \notin Less
  BY <1>2, <1>3, WFMin
<1>5. PICK k \in S : m = n - k
  OBVIOUS
<1>6. ASSUME NEW i \in S PROVE k >= i
  <2>1. n - i \in T /\ n - i \in Nat /\ m \in Nat
    BY <1>3
  <2>2. ~(n - i < m)
    BY <1>1, <1>4, <2>1
  <2> QED BY <1>5, <2>2
<1> QED BY <1>5, <1>6, MaxOf

(* Pruning makes the window no longer, and disarms the warning where it    *)
(* leaves too few.                                                         *)
LEMMA Pruned ==
    ASSUME Typed, Blockable
    PROVE  /\ prunedInvalid.at \in Seq(Nat)
           /\ Len(prunedInvalid.at) \in 0 .. Len(invalid.at)
           /\ prunedInvalid.warned
                  <=> Len(prunedInvalid.at) >= InvalidRequestWarningThreshold
<1> DEFINE old == invalid.at
           S == {n \in 0 .. Len(old) : \A i \in 1 .. n : old[i] + InvalidRequestWindow <= now}
           k == Max(S)
           at == SubSeq(old, k + 1, Len(old))
<1>1. old \in Seq(Nat) /\ Len(old) \in Nat
  BY DEF Blockable
<1>2. k \in 0 .. Len(old)
  <2>1. 0 \in S
    BY <1>1
  <2>2. S \in SUBSET (0 .. Len(old))
    OBVIOUS
  <2> HIDE DEF S, old
  <2> QED BY <1>1, <2>1, <2>2, Greatest
<1>3. /\ prunedInvalid.at = at
      /\ prunedInvalid.warned <=> invalid.warned /\ Len(at) >= InvalidRequestWarningThreshold
  BY DEF prunedInvalid
<1> HIDE DEF k, S, old
<1>4. at \in Seq(Nat) /\ Len(at) \in 0 .. Len(old)
  BY <1>1, <1>2, SubSeqProperties
<1> HIDE DEF at
<1>5. InvalidRequestWarningThreshold \in Nat
  BY LimitsAssumption
<1>6. invalid.warned <=> Len(old) >= InvalidRequestWarningThreshold
  BY DEF Blockable, old
<1>7. Len(at) >= InvalidRequestWarningThreshold => Len(old) >= InvalidRequestWarningThreshold
  BY <1>1, <1>4, <1>5
<1>8. prunedInvalid.at = at /\ at \in Seq(Nat) /\ Len(at) \in 0 .. Len(old)
  BY <1>3, <1>4
<1>9. prunedInvalid.warned <=> Len(at) >= InvalidRequestWarningThreshold
  BY <1>3, <1>6, <1>7
<1> QED BY <1>8, <1>9 DEF old

(* The count of those due, when p joins them and when it leaves.           *)
LEMMA DueCount ==
    ASSUME NEW S \in SUBSET Requests, NEW T \in SUBSET Requests, IsFiniteSet(Requests)
    PROVE  /\ Cardinality(S) \in Nat /\ Cardinality(Requests) \in Nat
           /\ Cardinality(S) <= Cardinality(Requests)
           /\ T \subseteq S => Cardinality(T) <= Cardinality(S)
           /\ \A p \in S : p \notin T /\ T \subseteq S => Cardinality(T) + 1 <= Cardinality(S)
<1>1. IsFiniteSet(S) /\ IsFiniteSet(T)
  BY FS_Subset
<1>2. /\ Cardinality(S) \in Nat /\ Cardinality(Requests) \in Nat /\ Cardinality(T) \in Nat
      /\ Cardinality(S) <= Cardinality(Requests)
      /\ T \subseteq S => Cardinality(T) <= Cardinality(S)
  BY <1>1, FS_Subset, FS_CardinalityType
<1>3. ASSUME NEW p \in S, p \notin T, T \subseteq S PROVE Cardinality(T) + 1 <= Cardinality(S)
  <2>1. T \in SUBSET (S \ {p}) /\ IsFiniteSet(S \ {p})
        /\ Cardinality(S \ {p}) = Cardinality(S) - 1
    BY <1>1, <1>3, FS_RemoveElement
  <2>2. Cardinality(T) <= Cardinality(S \ {p})
    BY <2>1, FS_Subset
  <2> QED BY <1>2, <2>1, <2>2
<1> QED BY <1>2, <1>3

(* The three ways of a step with the window: it makes it no longer and lets*)
(* nobody pass; p passes, below the limit; p, which is due, records.       *)
LEMMA BlockableSteps ==
    ASSUME Blockable, invalid'.at \in Seq(Nat),
           invalid'.warned <=> Len(invalid'.at) >= InvalidRequestWarningThreshold,
           LET due == Due(pc, attempt)
           IN  \/ Len(invalid'.at) <= Len(invalid.at) /\ Due(pc', attempt') \subseteq due
               \/ Len(invalid'.at) < InvalidRequestLimit
               \/ \E p \in due : /\ Due(pc', attempt') \subseteq due \ {p}
                                 /\ Len(invalid'.at) <= Len(invalid.at) + 1
    PROVE  Blockable'
<1> DEFINE due == Due(pc, attempt)
           next == Due(pc', attempt')
<1>1. due \in SUBSET Requests /\ next \in SUBSET Requests
  BY DEF Due
<1>2. Len(invalid.at) \in Nat /\ Len(invalid'.at) \in Nat /\ InvalidRequestLimit \in Nat
  BY LimitsAssumption DEF Blockable
<1>3. SUFFICES ASSUME IsFiniteSet(Requests)
               PROVE  Len(invalid'.at) + Cardinality(next)
                          < InvalidRequestLimit + Cardinality(Requests)
  BY DEF Blockable
<1>4. Len(invalid.at) + Cardinality(due) < InvalidRequestLimit + Cardinality(Requests)
  BY <1>3 DEF Blockable
<1>5. /\ Cardinality(due) \in Nat /\ Cardinality(next) \in Nat /\ Cardinality(Requests) \in Nat
      /\ Cardinality(next) <= Cardinality(Requests)
      /\ next \subseteq due => Cardinality(next) <= Cardinality(due)
      /\ \A p \in due : p \notin next /\ next \subseteq due =>
             Cardinality(next) + 1 <= Cardinality(due)
  BY <1>1, <1>3, DueCount
<1> HIDE DEF due, next
<1>6. \/ Len(invalid'.at) <= Len(invalid.at) /\ next \subseteq due
      \/ Len(invalid'.at) < InvalidRequestLimit
      \/ \E p \in due : next \subseteq due \ {p} /\ Len(invalid'.at) <= Len(invalid.at) + 1
  BY DEF due, next
<1>7. CASE Len(invalid'.at) <= Len(invalid.at) /\ next \subseteq due
  BY <1>2, <1>4, <1>5, <1>7
<1>8. CASE Len(invalid'.at) < InvalidRequestLimit
  BY <1>2, <1>5, <1>8
<1>9. ASSUME NEW p \in due, next \subseteq due \ {p}, Len(invalid'.at) <= Len(invalid.at) + 1
      PROVE  Len(invalid'.at) + Cardinality(next) < InvalidRequestLimit + Cardinality(Requests)
  <2>1. Cardinality(next) + 1 <= Cardinality(due)
    BY <1>5, <1>9
  <2> QED BY <1>2, <1>4, <1>5, <1>9, <2>1
<1> QED BY <1>6, <1>7, <1>8, <1>9

(* A request that ends is not due, and one that looks its Bucket up is so  *)
(* only for a retry and if it passes.                                      *)
LEMMA DueChanges ==
    ASSUME Typed, NEW p \in Requests,
           \A q \in Requests : q # p => pc'[q] = pc[q] /\ attempt'[q] = attempt[q]
    PROVE  /\ Due(pc', attempt') \subseteq Due(pc, attempt) \cup {p}
           /\ pc'[p] \in {"ended", "backoff", "breaker", "start"} =>
                  /\ p \notin Due(pc', attempt')
                  /\ Due(pc', attempt') \subseteq Due(pc, attempt)
           /\ p \in Due(pc, attempt) => Due(pc', attempt') \subseteq Due(pc, attempt)
           /\ p \notin Due(pc', attempt') => Due(pc', attempt') \subseteq Due(pc, attempt)
BY DEF Due, Handling

LEMMA LookUpPasses ==
    ASSUME Typed, Blockable, NEW p \in Requests, NEW n \in Nat, LookUp(p, n),
           invalid' = prunedInvalid, n = 0 \/ pc[p] = "backoff"
    PROVE  Blockable'
<1>1. Keeps(p) /\ \E label \in {"lock", "ended"} : Go(p, label)
  BY LooksUp
<1>2. \A q \in Requests : q # p => pc'[q] = pc[q] /\ attempt'[q] = attempt[q]
  BY <1>1 DEF Keeps, Go, Typed
<1>3. /\ invalid'.at \in Seq(Nat) /\ Len(invalid'.at) <= Len(invalid.at)
      /\ invalid'.warned <=> Len(invalid'.at) >= InvalidRequestWarningThreshold
  BY Pruned DEF Blockable
<1>4. CASE PassesBreaker(p) /\ n # 0
  <2>1. Len(invalid'.at) < InvalidRequestLimit
    BY <1>3, <1>4, LimitsAssumption DEF PassesBreaker, Blocked
  <2> QED BY <1>3, <2>1, BlockableSteps
<1>5. CASE PassesBreaker(p) /\ n = 0
  <2>1. pc'[p] = "lock" /\ attempt'[p].retries = 0
    BY <1>5 DEF LookUp, Go, Typed, Attempts
  <2>2. Due(pc', attempt') \subseteq Due(pc, attempt)
    BY <1>2, <2>1, DueChanges DEF Due, Handling
  <2> QED BY <1>3, <2>2, BlockableSteps
<1>6. CASE ~PassesBreaker(p)
  <2>1. pc'[p] = "ended"
    BY <1>6 DEF LookUp, End, Go, Typed
  <2>2. Due(pc', attempt') \subseteq Due(pc, attempt)
    BY <1>2, <2>1, DueChanges
  <2> QED BY <1>3, <2>2, BlockableSteps
<1> QED BY <1>4, <1>5, <1>6

LEMMA BlockableKept ==
    ASSUME Typed, Blockable, RetryAssumption, [Next]_vars PROVE Blockable'
<1>1. ASSUME UNCHANGED invalid, Due(pc', attempt') \subseteq Due(pc, attempt) PROVE Blockable'
  BY <1>1, BlockableSteps DEF Blockable
<1>2. ASSUME NEW p \in Requests, Keeps(p) \/ UNCHANGED attempt, NEW label, Go(p, label)
      PROVE  /\ pc'[p] = label
             /\ \A q \in Requests : q # p => pc'[q] = pc[q] /\ attempt'[q] = attempt[q]
  BY <1>2 DEF Keeps, Go, Typed
<1>3. ASSUME NEW p \in Requests, LockBucketRoute(p) PROVE Blockable'
  BY <1>3, LookUpPasses, 0 \in Nat DEF LockBucketRoute
<1>4. ASSUME NEW p \in Requests, Locking(p) PROVE Blockable'
  <2>1. UNCHANGED <<attempt, invalid>>
    BY <1>4 DEF Locking, GetWaitTime, reserveGlobalRequest
  <2>2. \/ pc[p] \in {"lock", "sleep", "reserve"} /\ Go(p, "reserve")
        \/ pc[p] \in {"lock", "sleep", "reserve"} /\ Go(p, "sleep")
        \/ Go(p, "breaker")
        \/ pc[p] = "reserve" /\ attempt[p].retries # 0 /\ Go(p, "send")
    BY <1>4 DEF Locking, GetWaitTime, reserveGlobalRequest
  <2>3. attempt[p].retries \in Nat
    BY DEF Typed, Attempts
  <2>4. Due(pc', attempt') \subseteq Due(pc, attempt)
    BY <1>2, <2>1, <2>2, <2>3 DEF Due, Handling
  <2> QED BY <1>1, <2>1, <2>4
<1>5. ASSUME NEW p \in Requests, Cancelled(p) \/ DoFails(p) PROVE Blockable'
  <2>1. Keeps(p) /\ UNCHANGED invalid /\ (Go(p, "ended") \/ Go(p, "backoff"))
    BY <1>5, Ends, DoFailsShape DEF Cancelled, ReleaseAndFail, DoFails
  <2> QED BY <1>1, <1>2, <2>1, DueChanges
<1>6. ASSUME NEW p \in Requests, CheckInvalidRequestLimit(p) PROVE Blockable'
  <2>1. /\ invalid'.at \in Seq(Nat) /\ Len(invalid'.at) <= Len(invalid.at)
        /\ invalid'.warned <=> Len(invalid'.at) >= InvalidRequestWarningThreshold
    BY <1>6, Pruned DEF Blockable, CheckInvalidRequestLimit
  <2>2. CASE PassesBreaker(p)
    <3>1. Len(invalid'.at) < InvalidRequestLimit
      BY <1>6, <2>1, <2>2, LimitsAssumption DEF PassesBreaker, Blocked, CheckInvalidRequestLimit
    <3> QED BY <2>1, <3>1, BlockableSteps
  <2>3. CASE ~PassesBreaker(p)
    <3>1. Keeps(p) /\ Go(p, "ended")
      BY <1>6, <2>3, Ends DEF CheckInvalidRequestLimit, ReleaseAndFail
    <3>2. Due(pc', attempt') \subseteq Due(pc, attempt)
      BY <1>2, <3>1, DueChanges
    <3> QED BY <2>1, <3>2, BlockableSteps
  <2> QED BY <2>2, <2>3
<1>7. ASSUME NEW p \in Requests, Retry(p) PROVE Blockable'
  <2>1. attempt[p].retries + 1 \in Nat
    BY DEF Typed, Attempts
  <2>2. CASE invalid' = prunedInvalid /\ LookUp(p, attempt[p].retries + 1)
    BY <1>7, <2>1, <2>2, LookUpPasses DEF Retry
  <2>3. CASE End(p) /\ UNCHANGED invalid
    BY <1>1, <1>2, <2>3, Ends, DueChanges
  <2> QED BY <1>7, <2>2, <2>3 DEF Retry
<1>8. ASSUME NEW p \in Requests, DoReturns(p) PROVE Blockable'
  <2>1. /\ pc[p] = "send" /\ pc'[p] = "release"
        /\ \A q \in Requests : q # p => pc'[q] = pc[q] /\ attempt'[q] = attempt[q]
    BY <1>8, DoReturnsShape DEF Go, Typed
  <2>2. UNCHANGED invalid
    BY <1>8 DEF DoReturns, limiter
  <2>3. Due(pc', attempt') \subseteq Due(pc, attempt)
    BY <2>1 DEF Due, Handling
  <2> QED BY <1>1, <2>2, <2>3
<1>9. ASSUME NEW p \in Requests, ReleaseHeaders(p) \/ UpdateCanonical(p) PROVE Blockable'
  <2>1. /\ UNCHANGED <<attempt, invalid>> /\ pc[p] \in Handling
        /\ \E label \in {"canonical", "record"} : Go(p, label)
    BY <1>9, ReleasesShape DEF ReleaseHeaders, UpdateCanonical
  <2>2. Due(pc', attempt') \subseteq Due(pc, attempt)
    BY <1>2, <2>1 DEF Due, Handling
  <2> QED BY <1>1, <2>1, <2>2
<1>10. ASSUME NEW p \in Requests, HandleResponse(p) PROVE Blockable'
  <2>1. Keeps(p) /\ pc[p] = "record" /\ (Go(p, "ended") \/ Go(p, "backoff"))
    BY <1>10, HandlesShape
  <2>2. p \in Due(pc, attempt) /\ Due(pc', attempt') \subseteq Due(pc, attempt) \ {p}
    BY <1>2, <2>1, DueChanges DEF Due, Handling
  <2>3. /\ invalid'.at \in {prunedInvalid.at, Append(prunedInvalid.at, now)}
        /\ invalid'.warned <=> Len(invalid'.at) >= InvalidRequestWarningThreshold
    BY <1>10 DEF HandleResponse, RecordResponse
  <2>4. invalid'.at \in Seq(Nat) /\ Len(invalid'.at) <= Len(invalid.at) + 1
    <3>1. now \in Nat /\ Len(invalid.at) \in Nat
      BY DEF Typed, Blockable
    <3> DEFINE cut == prunedInvalid.at
    <3>2. cut \in Seq(Nat) /\ Len(cut) \in 0 .. Len(invalid.at)
      BY Pruned
    <3>3. invalid'.at \in {cut, Append(cut, now)}
      BY <2>3
    <3> HIDE DEF cut
    <3>4. Append(cut, now) \in Seq(Nat) /\ Len(Append(cut, now)) = Len(cut) + 1
      BY <3>1, <3>2, AppendProperties
    <3>5. CASE invalid'.at = cut
      BY <3>1, <3>2, <3>5
    <3>6. CASE invalid'.at = Append(cut, now)
      BY <3>1, <3>2, <3>4, <3>6
    <3> QED BY <3>3, <3>5, <3>6
  <2> QED BY <2>2, <2>3, <2>4, BlockableSteps
<1>11. ASSUME (\E r \in Moving : Rehash(r)) \/ Tick \/ UNCHANGED vars PROVE Blockable'
  <2>1. UNCHANGED <<invalid, pc, attempt>>
    BY <1>11 DEF Rehash, Tick, vars, limiter
  <2> QED BY <1>1, <2>1
<1> QED BY <1>3, <1>4, <1>5, <1>6, <1>7, <1>8, <1>9, <1>10, <1>11, StepKinds DEF Waits

-----------------------------------------------------------------------------
(* The inductive invariant.                                                *)
IInv ==
    /\ Typed /\ Once /\ PauseCovered /\ Reachable /\ LocksByKeys /\ Locks
    /\ Budget /\ Blockable

LEMMA InitIInv == Init => IInv
<1> SUFFICES ASSUME Init PROVE IInv
  OBVIOUS
<1>1. Typed
  <2>1. \A p \in Requests : attempt[p] \in Attempts
    BY NoAttemptTyped DEF Init
  <2>2. "start" \in Labels
    BY DEF Labels
  <2> QED BY <2>1, <2>2 DEF Init, LimiterInit, Typed
<1>2. Once
  BY RetryAssumption DEF Init, Once
<1>3. PauseCovered
  BY DEF Init, LimiterInit, PauseCovered, NoAttempt, NoResponse
<1>4. Reachable
  <2>1. IsFiniteSet({}) /\ Cardinality({}) = 0
    BY FS_EmptySet
  <2>2. cache = [buckets |-> <<>>, hashes |-> <<>>, cleaned |-> Never] /\ heap = <<>>
    BY DEF Init, LimiterInit
  <2>3. \A T : DOMAIN <<>> = {} /\ <<>> \in [{} -> T]
    OBVIOUS
  <2>4. MaxBuckets \in Nat /\ MaxBucketMappings \in Nat
    BY LimitsAssumption
  <2>5. Bounded(cache, DOMAIN heap) /\ Resolved(cache)
    BY <2>1, <2>2, <2>3, <2>4 DEF Bounded, Resolved
  <2>6. \A p \in Requests : pc[p] = "start"
    BY DEF Init, LimiterInit
  <2>7. /\ bucket = [p \in Requests |-> bucket[p]]
        /\ canonical = [p \in Requests |-> canonical[p]]
    BY DEF Init, LimiterInit
  <2> QED BY <2>2, <2>3, <2>5, <2>6, <2>7 DEF Reachable, Holding
<1>5. Budget
  BY FS_EmptySet DEF Init, LimiterInit, Budget, Grants
<1>6. Locks
  <2>1. DOMAIN heap = {} /\ \A p \in Requests : pc[p] = "start"
    BY DEF Init, LimiterInit
  <2> QED BY <2>1, FS_EmptySet DEF Locks, Owned, Apart, Holding
<1>7. Blockable
  <2>1. invalid.at = <<>> /\ invalid.warned = FALSE /\ \A p \in Requests : pc[p] = "start"
    BY DEF Init, LimiterInit
  <2>2. InvalidRequestWarningThreshold \in Nat \ {0} /\ InvalidRequestLimit \in Nat \ {0}
    BY LimitsAssumption
  <2>3. <<>> \in Seq(Nat) /\ Len(<<>>) = 0
    BY EmptySeq
  <2>4. Due(pc, attempt) = {}
    BY <2>1 DEF Due, Handling
  <2>5. IsFiniteSet(Requests) => Cardinality(Requests) \in Nat
    BY FS_CardinalityType
  <2>6. Len(invalid.at) = 0 /\ invalid.at \in Seq(Nat)
    BY <2>1, <2>3
  <2>7. invalid.warned <=> Len(invalid.at) >= InvalidRequestWarningThreshold
    BY <2>1, <2>2, <2>6
  <2>8. Cardinality(Due(pc, attempt)) = 0
    BY <2>4, FS_EmptySet
  <2>9. ASSUME IsFiniteSet(Requests)
        PROVE  Len(invalid.at) + Cardinality(Due(pc, attempt))
                   < InvalidRequestLimit + Cardinality(Requests)
    BY <2>2, <2>5, <2>6, <2>8, <2>9
  <2> QED BY <2>6, <2>7, <2>9 DEF Blockable
<1>8. LocksByKeys
  BY DEF Init, LimiterInit, LocksByKeys
<1> QED BY <1>1, <1>2, <1>3, <1>4, <1>5, <1>6, <1>7, <1>8 DEF IInv

LEMMA NextIInv == IInv /\ [Next]_vars => IInv'
BY TypedKept, OnceKept, PauseKept, ReachableKept, LocksByKeysKept, LocksKept, BudgetKept,
   BlockableKept, RetryAssumption
DEF IInv

-----------------------------------------------------------------------------
LEMMA MaxOfThree ==
    ASSUME NEW a \in Int, NEW b \in Int, NEW c \in Int
    PROVE  Max({a, b, c}) \in Int /\ Max({a, b, c}) >= a
<1> DEFINE S == {a, b, c}
<1>1. PICK m \in S : \A x \in S : m >= x
  <2>1. CASE a >= b /\ a >= c
    BY <2>1
  <2>2. CASE b >= a /\ b >= c
    BY <2>2
  <2>3. CASE c >= a /\ c >= b
    BY <2>3
  <2> QED BY <2>1, <2>2, <2>3
<1>2. S \in SUBSET Int /\ a \in S
  OBVIOUS
<1> HIDE DEF S
<1>3. Max(S) \in S /\ \A x \in S : Max(S) >= x
  BY <1>1, <1>2, MaxOf
<1> QED BY <1>2, <1>3 DEF S

(* A request that needs no wait finds the limiter's pause over.            *)
LEMMA ReadyAfterPause ==
    ASSUME IInv, NEW p \in Requests, bucket[p] \in DOMAIN heap, ReadyAt(bucket[p]) <= now
    PROVE  now >= learned
<1> DEFINE w == resetGlobalWindow
           own == IF heap[bucket[p]].Remaining < 1 THEN heap[bucket[p]].reset ELSE now
<1>1. w.start \in Nat
  BY ResetAccounts DEF IInv, Accounted
<1> HIDE DEF w
<1>2. global \in Int /\ now \in Int /\ learned \in Int /\ learned <= global
  BY DEF IInv, Typed, PauseCovered
<1>3. BudgetAt(w) \in Int
  BY <1>1, <1>2, LimitsAssumption DEF BudgetAt
<1>4. own \in Int
  <2>1. heap[bucket[p]] \in Bucket
    BY DEF IInv, Reachable
  <2> QED BY <1>2, <2>1 DEF Bucket
<1>5. ReadyAt(bucket[p]) = Max({global, BudgetAt(w), own})
  BY DEF ReadyAt, w
<1> HIDE DEF own
<1>6. ReadyAt(bucket[p]) \in Int /\ ReadyAt(bucket[p]) >= global
  BY <1>2, <1>3, <1>4, <1>5, MaxOfThree
<1> QED BY <1>2, <1>6

LEMMA PauseWaitedFor ==
    ASSUME IInv, [Next]_vars, NEW p \in Requests, pc[p] # "reserve", pc'[p] = "reserve"
    PROVE  now >= learned
<1> USE DEF Labels, Holding
<1>0. Typed
  BY DEF IInv
<1>1. ASSUME NEW q \in Requests, NEW label \in Labels \ {"reserve"}, Go(q, label) PROVE FALSE
  BY <1>0, <1>1, LabelSet
<1>2. ASSUME NEW q \in Requests, Waits(q) PROVE now >= learned
  <2>1. CASE GetWaitTime(q) /\ ReadyAt(bucket[q]) <= now
    <3>1. pc[q] \in {"lock", "sleep"}
      BY <2>1 DEF GetWaitTime
    <3>2. bucket[q] \in DOMAIN heap
      BY <3>1 DEF IInv, Reachable
    <3> QED BY <2>1, <3>2, ReadyAfterPause
  <2>2. CASE ~(GetWaitTime(q) /\ ReadyAt(bucket[q]) <= now)
    <3>1. PICK label \in {"lock", "reserve", "sleep", "breaker", "send", "ended"} : Go(q, label)
      BY <1>0, <1>2, WaitsShape
    <3>2. label # "reserve"
      <4>1. CASE Locking(q)
        BY <1>0, <2>2, <3>1, <4>1, LabelSet DEF Locking, GetWaitTime, reserveGlobalRequest
      <4>2. CASE LockBucketRoute(q) \/ Retry(q)
        BY <1>0, <3>1, <4>2, LabelSet DEF LockBucketRoute, Retry, LookUp, End
      <4>3. CASE Cancelled(q) \/ CheckInvalidRequestLimit(q)
        BY <1>0, <3>1, <4>3, LabelSet DEF Cancelled, CheckInvalidRequestLimit, ReleaseAndFail, End
      <4> QED BY <1>2, <4>1, <4>2, <4>3 DEF Waits
    <3> QED BY <1>1, <3>1, <3>2
  <2> QED BY <2>1, <2>2
<1>3. ASSUME NEW q \in Requests, DoFails(q) \/ HandleResponse(q) PROVE FALSE
  BY <1>0, <1>1, <1>3, DoFailsShape, HandlesShape, RetryAssumption
<1>4. ASSUME NEW q \in Requests, DoReturns(q) PROVE FALSE
  BY <1>1, <1>4 DEF DoReturns
<1>5. ASSUME NEW q \in Requests, ReleaseHeaders(q) \/ UpdateCanonical(q) PROVE FALSE
  BY <1>0, <1>1, <1>5, ReleasesShape
<1>6. CASE \/ \E r \in Moving : Rehash(r)
           \/ Tick \/ UNCHANGED vars
  BY <1>6 DEF Rehash, Tick, vars
<1> QED BY <1>2, <1>3, <1>4, <1>5, <1>6, StepKinds

-----------------------------------------------------------------------------
(* The steps are those of RateWindow.                                      *)
LEMMA SameCardinality == \A S : GlobalBudget!Cardinality(S) = Cardinality(S)
BY DEF GlobalBudget!Cardinality, Cardinality

LEMMA GrantsOf == GlobalBudget!Init <=> Lately = {}
BY DEF GlobalBudget!Init, Lately

LEMMA BudgetSteps ==
    ASSUME IInv, [Next]_vars
    PROVE  GlobalBudget!Next \/ UNCHANGED <<now, Lately>>
<1>0. now \in Nat /\ \A g \in granted : g[2] \in Nat
  BY DEF IInv, Typed, Budget, Grants
<1>1. ASSUME NEW p \in Requests, Reserves(p)
      PROVE  GlobalBudget!Next \/ UNCHANGED <<now, Lately>>
  <2> DEFINE w == resetGlobalWindow
  <2>1. Accounted(granted, w) /\ w.start <= now /\ now < w.start + W
    BY ResetAccounts DEF IInv
  <2>2. w.requests < L
    BY <1>1 DEF Reserves, HasBudget, L
  <2> HIDE DEF w
  <2>3. Cardinality(Lately) \in Nat /\ Cardinality(Lately) <= 2 * L + w.requests
    BY <2>1, LatelyFew DEF IInv, Budget
  <2>4. w.requests \in Nat
    BY <2>1, WL DEF Accounted
  <2>5. Cardinality(Lately) < 3 * L
    BY <2>2, <2>3, <2>4, WL
  <2>6. Lately' = Lately \cup {<<p, now>>}
    BY <1>0, <1>1, LimitsAssumption DEF Reserves, Lately
  <2>7. CASE <<p, now>> \in Lately
    BY <1>1, <2>6, <2>7 DEF Reserves
  <2>8. CASE <<p, now>> \notin Lately
    <3>1. <<p, now>> \in Lately' \ Lately /\ <<p, now>>[2] = now /\ UNCHANGED now
      BY <1>1, <2>6, <2>8 DEF Reserves
    <3>2. \E g \in Lately' \ Lately : g[2] = now /\ Lately' = Lately \cup {g}
      BY <2>6, <3>1
    <3>3. Cardinality(Lately) < 3 * GlobalRateLimit
      BY <2>5 DEF L
    <3>4. GlobalBudget!Grant
      BY <3>1, <3>2, <3>3, SameCardinality, Zenon DEF GlobalBudget!Grant, Lately
    <3> QED BY <3>4 DEF GlobalBudget!Next
  <2> QED BY <2>7, <2>8
<1>2. CASE UNCHANGED <<granted, now>>
  BY <1>2 DEF Lately
<1>3. CASE Tick /\ UNCHANGED granted
  <2>1. now' = now + 1
    BY <1>3 DEF Tick
  <2>2. Lately' = {g \in Lately : g[2] + 2 * GlobalRateWindow > now'}
    BY <1>0, <1>3, <2>1, LimitsAssumption DEF Lately
  <2>3. now' > now
    BY <1>0, <2>1
  <2>4. GlobalBudget!Tick
    BY <2>2, <2>3 DEF GlobalBudget!Tick, GlobalBudget!Recent, Lately
  <2> QED BY <2>4 DEF GlobalBudget!Next
<1> QED BY <1>1, <1>2, <1>3, WindowSteps

-----------------------------------------------------------------------------
(* A request that is not idempotent takes effect at most once, through any *)
(* number of retries, rate limits and lost answers.                        *)
THEOREM UnsafeTakesEffectOnce == Spec => []UnsafeOnce
<1>1. IInv => UnsafeOnce
  BY DEF IInv, Once, UnsafeOnce
<1> QED BY <1>1, InitIInv, NextIInv, PTL DEF Spec

(* A request that finds it need not wait does so after every pause that the*)
(* responses told and no later header replaced.                            *)
THEOREM PausesAreKept == Spec => PausesKept
<1>1. IInv /\ [Next]_vars =>
         [\A p \in Requests : pc[p] # "reserve" /\ pc'[p] = "reserve" => now >= learned]_vars
  BY PauseWaitedFor
<1> QED BY <1>1, InitIInv, NextIInv, PTL DEF Spec, PausesKept

(* The cache of buckets and mappings stays within its bounds, and every    *)
(* mapping leads to a bucket, whatever is evicted, merged or expires.      *)
THEOREM CacheStaysConsistent == Spec => []CacheConsistent
<1>1. IInv => CacheConsistent
  BY DEF IInv, Reachable, Bounded, Resolved, CacheConsistent
<1> QED BY <1>1, InitIInv, NextIInv, PTL DEF Spec

(* A locked Bucket is locked by the one request that works with it, and a *)
(* request in Release has the canonical Bucket's lock to itself or waits   *)
(* for it, whatever was evicted, merged or expired in the meantime.        *)
THEOREM LocksAreRespected == Spec => []LocksAreHeld
<1>1. IInv => LocksAreHeld
  BY DEF IInv, Locks, Owned, Apart, LocksAreHeld
<1> QED BY <1>1, InitIInv, NextIInv, PTL DEF Spec

(* However many requests are past the check of the invalid responses when  *)
(* its limit is reached, each adds at most one before it is checked again, *)
(* and the warning follows the count down as well as up.                   *)
THEOREM InvalidStaysInBudget ==
    ASSUME IsFiniteSet(Requests) PROVE Spec => []InvalidBudget
<1>1. IInv => InvalidBudget
  <2> SUFFICES ASSUME IInv PROVE InvalidBudget
    OBVIOUS
  <2>1. Due(pc, attempt) \in SUBSET Requests
    BY DEF Due
  <2>2. Cardinality(Due(pc, attempt)) \in Nat /\ Cardinality(Requests) \in Nat
    BY <2>1, DueCount
  <2>3. Len(invalid.at) \in Nat /\ InvalidRequestLimit \in Nat
    BY LimitsAssumption DEF IInv, Blockable
  <2>4. Len(invalid.at) + Cardinality(Due(pc, attempt))
            < InvalidRequestLimit + Cardinality(Requests)
    BY DEF IInv, Blockable
  <2>5. invalid.warned <=> Len(invalid.at) >= InvalidRequestWarningThreshold
    BY DEF IInv, Blockable
  <2> QED BY <2>2, <2>3, <2>4, <2>5 DEF InvalidBudget
<1> QED BY <1>1, InitIInv, NextIInv, PTL DEF Spec

(* The proactive limit implements RateWindow: no more than three budgets in*)
(* any two windows' time.                                                  *)
THEOREM BudgetIsKept == Spec => GlobalBudgetKept
<1>1. Init => GlobalBudget!Init
  BY GrantsOf DEF Init, LimiterInit, Lately
<1>2. IInv /\ [Next]_vars =>
         [GlobalBudget!Next]_<<now, {g \in granted : g[2] + 2 * GlobalRateWindow > now}>>
  BY BudgetSteps DEF Lately
<1> QED BY <1>1, <1>2, InitIInv, NextIInv, PTL DEF Spec, GlobalBudgetKept, GlobalBudget!Spec
=============================================================================
