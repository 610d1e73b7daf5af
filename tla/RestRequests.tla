----------------------------- MODULE RestRequests -----------------------------
(***************************************************************************)
(* REST requests (requestRawPrepared and requestWithLockedBucket,          *)
(* restapi.go) over the RateLimiter: the lock of the route's bucket, the   *)
(* attempt, what their responses teach the limiter, and the retries.      *)
(*                                                                         *)
(* Discord is external. It counts its buckets as it likes, gives each      *)
(* route a hash that may change to a later one, and may pause the whole    *)
(* bot: until the pause ends it answers every request with what is left of *)
(* it. Every request may be retried after a rate limit; the safe ones also *)
(* after a lost or failed attempt.                                         *)
(***************************************************************************)
EXTENDS RateLimiter

CONSTANTS
    Unsafe,             \* requests whose method is not idempotent
    MaxRestRetries, MaxRateLimitWait, MaxRetryWait,
    RetryDelay,         \* restRetryDelay, in ticks
    ResetAfters,        \* the reset_after of Discord's headers
    Moving,             \* routes whose hash Discord may change
    MaxPauses           \* bound on the pauses of the whole bot

ASSUME RetryAssumption ==
    /\ Unsafe \subseteq Requests /\ Moving \subseteq RouteKeys /\ MaxRestRetries \in Nat
    /\ MaxRateLimitWait \in Nat \ {0} /\ MaxRetryWait \in Nat \ {0}
    /\ RetryDelay \in Nat \ {0} /\ ResetAfters \subseteq Nat \ {0}

VARIABLES
    attempt,            \* of each request: its response, retries and totalWait
    (* Discord *)
    hash,               \* of each route
    pausedUntil, pauses,
    executed,           \* how often an unsafe request took effect
    learned             \* history: the end of the pause, as responses told it so far

discord == <<hash, pausedUntil, pauses, executed>>
vars == <<now, limiter, bucket, canonical, wakeAt, pc, granted, attempt, discord, learned>>

NoResponse == [kind |-> "none"]
NoAttempt == [response |-> NoResponse, retries |-> 0, totalWait |-> 0]
Holding == {"reserve", "sleep", "breaker", "send", "release", "canonical"}

TypeOK ==
    /\ now \in 0 .. MaxTime /\ global \in Nat
    /\ DOMAIN cache.buckets \subseteq Keys /\ DOMAIN cache.hashes \subseteq Keys
    /\ \A b \in DOMAIN heap : heap[b] \in Bucket
    /\ window.requests \in 0 .. GlobalRateLimit
    /\ pc \in [Requests -> Holding \cup {"start", "ended", "lock", "record", "backoff"}]
    /\ \A p \in Requests : /\ attempt[p].retries \in 0 .. MaxRestRetries
                            /\ attempt[p].totalWait \in 0 .. MaxRetryWait

Init ==
    /\ LimiterInit
    /\ attempt = [p \in Requests |-> NoAttempt]
    /\ hash \in [RouteKeys -> Hashes]
    /\ pausedUntil = 0 /\ pauses \in 0 .. MaxPauses
    /\ executed = [p \in Unsafe |-> 0] /\ learned = 0

-----------------------------------------------------------------------------
(* The window of invalid responses: the expired ones at its head are cut.  *)
prunedInvalid ==
    LET old == invalid.at
        expired == {n \in 0 .. Len(old) : \A i \in 1 .. n : old[i] + InvalidRequestWindow <= now}
        at == SubSeq(old, Max(expired) + 1, Len(old))
    IN  [at |-> at,
         warned |-> invalid.warned /\ Len(at) >= InvalidRequestWarningThreshold]

(* Mutant: one more than the limit.                                        *)
BlockedMutant(inv) == Len(inv.at) > InvalidRequestLimit
Blocked(inv) == Len(inv.at) >= InvalidRequestLimit

PassesBreaker(p) == ~Blocked(prunedInvalid)

RecordResponse(status) ==
    LET at == IF status \in {"invalid", "limited", "paused"}
              THEN Append(prunedInvalid.at, now) ELSE prunedInvalid.at
    IN  [at |-> at, warned |-> Len(at) >= InvalidRequestWarningThreshold]

-----------------------------------------------------------------------------
(* The request finds and locks its bucket, the first time and for a retry: *)
(* LockBucketRouteContext, relockRESTBucket.                               *)
End(p) ==
    /\ Go(p, "ended")
    /\ attempt' = [attempt EXCEPT ![p] = NoAttempt]
    /\ wakeAt' = [wakeAt EXCEPT ![p] = 0]

LookUp(p, retries) ==
    IF PassesBreaker(p)
    THEN /\ getBucket(p) /\ Go(p, "lock")
         /\ attempt' = [attempt EXCEPT ![p].retries = retries]
         /\ wakeAt' = [wakeAt EXCEPT ![p] = 0]
    ELSE End(p) /\ UNCHANGED <<keys, cache, heap, bucket, canonical>>

LockBucketRoute(p) ==
    /\ pc[p] = "start"
    /\ invalid' = prunedInvalid /\ LookUp(p, 0)
    /\ UNCHANGED <<now, global, window, granted, discord, learned>>

Locking(p) ==
    /\ \/ GetWaitTime(p)
       \/ reserveGlobalRequest(p, IF attempt[p].retries = 0 THEN "breaker" ELSE "send")
    /\ UNCHANGED <<attempt, discord, learned>>

(* Releasing the bucket without headers on the way out. Mutant: one return *)
(* that forgets it.                                                        *)
ReleaseAndFailMutant(p) ==
    /\ End(p)
    /\ bucket' = [bucket EXCEPT ![p] = NoBucket]
    /\ UNCHANGED <<keys, now, global, cache, heap, window, canonical, granted, discord, learned>>
ReleaseAndFail(p) ==
    /\ End(p)
    /\ UNCHANGED <<keys, now, global, cache, window, canonical, granted, discord, learned>>
    /\ Unlocked(p, heap)

(* The context ends while the request sleeps. It matters only where it is  *)
(* noticed, and ends the request there.                                    *)
Cancelled(p) ==
    /\ pc[p] = "sleep"
    /\ ReleaseAndFail(p) /\ UNCHANGED invalid

CheckInvalidRequestLimit(p) ==
    /\ pc[p] = "breaker"
    /\ invalid' = prunedInvalid
    /\ \/ ~PassesBreaker(p) /\ ReleaseAndFail(p)
       \/ /\ PassesBreaker(p) /\ Go(p, "send")
          /\ UNCHANGED <<keys, now, global, cache, heap, window, bucket, canonical, wakeAt,
                         granted, attempt, discord, learned>>

-----------------------------------------------------------------------------
(* The decision to retry, with waitForRESTRetry.                           *)
RetryOrFail(p, mayRetry, delay) ==
    LET a == attempt[p]
    IN  IF mayRetry /\ a.retries < MaxRestRetries /\ a.totalWait + delay <= MaxRetryWait
        THEN /\ attempt' = [attempt EXCEPT ![p].totalWait = @ + delay,
                                           ![p].response = NoResponse]
             /\ wakeAt' = [wakeAt EXCEPT ![p] = now + delay]
             /\ Go(p, "backoff")
        ELSE End(p)

(* Mutant: a transient status is retried whatever the method.              *)
canRetryRESTMethodMutant(p) == p \notin Unsafe \/ attempt[p].response.kind = "failed"
canRetryRESTMethod(p) == p \notin Unsafe

(* Client.Do: an error, perhaps after the request took effect and perhaps  *)
(* because the context is done; or a response.                             *)
Paused == now < pausedUntil
Effects(p, n) == executed' = [q \in Unsafe |-> executed[q] + IF q = p THEN n ELSE 0]

DoFails(p) ==
    /\ pc[p] = "send"
    /\ \E n \in IF Paused THEN {0} ELSE {0, 1} : Effects(p, n)
    /\ \/ RetryOrFail(p, canRetryRESTMethod(p), RetryDelay)
       \/ End(p)
    /\ UNCHANGED <<keys, now, global, cache, window, invalid, canonical, granted, hash,
                   pausedUntil, pauses, learned>>
    /\ Unlocked(p, heap)

EffectsOf == [ok |-> {1}, failed |-> {0, 1}, invalid |-> {0}, limited |-> {0}]

Answer(p) ==
    /\ ~Paused
    /\ \E kind \in DOMAIN EffectsOf, after \in ResetAfters :
          /\ kind = "failed" => after = Min(ResetAfters)
          /\ attempt' = [attempt EXCEPT ![p].response =
                [kind |-> kind, remaining |-> IF kind = "ok" THEN 1 ELSE 0, after |-> after,
                 hash |-> hash[route[p]]]]
          /\ \E n \in EffectsOf[kind] : Effects(p, n)
    /\ UNCHANGED <<pausedUntil, pauses>>

(* A pause of the whole bot, told in a header or in the body.              *)
AnswerPaused(p) ==
    /\ Paused \/ pauses < MaxPauses
    /\ \E after \in IF Paused THEN {pausedUntil - now} ELSE ResetAfters,
          via \in {"header", "body"} :
          /\ attempt' = [attempt EXCEPT ![p].response =
                [kind |-> "paused", via |-> via, after |-> after, until |-> now + after]]
          /\ pausedUntil' = now + after
    /\ pauses' = IF Paused THEN pauses ELSE pauses + 1
    /\ UNCHANGED executed

DoReturns(p) ==
    /\ pc[p] = "send"
    /\ Answer(p) \/ AnswerPaused(p)
    /\ Go(p, "release")
    /\ UNCHANGED <<now, limiter, bucket, canonical, wakeAt, granted, hash,
                   learned>>

-----------------------------------------------------------------------------
(* Release(headers): the fields of the bucket, or the pause; then its hash.*)
HasHeaders(r) == r.kind \in {"ok", "invalid", "limited"}

(* Mutant: the pause of a header is taken for the bucket's own.            *)
PausesBotMutant(r) == FALSE
PausesBot(r) == r.kind = "paused" /\ r.via = "header"

ReleaseHeaders(p) ==
    LET b == bucket[p]
        r == attempt[p].response
        informed == IF HasHeaders(r)
                    THEN [heap EXCEPT ![b].Remaining = r.remaining, ![b].reset = now + r.after]
                    ELSE heap
    IN  /\ pc[p] = "release"
        /\ global' = IF PausesBot(r) THEN now + r.after ELSE global
        /\ learned' = IF r.kind = "paused" /\ r.via = "header" THEN r.until ELSE learned
        /\ IF HasHeaders(r)
           THEN \E kept \in DOMAIN heap :
                  /\ registerBucketHash(b, r.hash, cache', kept)
                  /\ IF kept = b
                     THEN /\ UNCHANGED canonical
                          /\ Go(p, "record") /\ Unlocked(p, informed)
                     ELSE /\ canonical' = [canonical EXCEPT ![p] = kept]
                          /\ Go(p, "canonical")
                          /\ UNCHANGED bucket
                          /\ heap' = Live([informed EXCEPT ![kept].lastUsed = now])
           ELSE /\ UNCHANGED <<cache, canonical>>
                /\ Go(p, "record") /\ Unlocked(p, heap)
        /\ UNCHANGED <<keys, now, window, invalid, wakeAt, granted, attempt, discord>>

Copied(p) == [heap[canonical[p]] EXCEPT !.Remaining = heap[bucket[p]].Remaining,
                                        !.reset = heap[bucket[p]].reset]

UpdateCanonical(p) ==
    /\ pc[p] = "canonical" /\ heap[canonical[p]].owner = NoBucket
    /\ canonical' = [canonical EXCEPT ![p] = NoBucket]
    /\ Go(p, "record")
    /\ UNCHANGED <<keys, now, global, cache, window, invalid, wakeAt, granted, attempt, discord,
                   learned>>
    /\ Unlocked(p, [heap EXCEPT ![canonical[p]] = Copied(p)])

(* RecordResponse, ApplyGlobalLimit and the switch on the status.          *)
MayRetryRateLimit(p) ==
    ~Blocked(invalid') /\ attempt[p].response.after <= MaxRateLimitWait

HandleResponse(p) ==
    LET r == attempt[p].response
        pausesNow == r.kind = "paused" /\ r.via = "body"
    IN  /\ pc[p] = "record"
        /\ invalid' = RecordResponse(r.kind)
        /\ global' = IF pausesNow THEN Max({global, now + r.after}) ELSE global
        /\ learned' = IF pausesNow THEN Max({learned, r.until}) ELSE learned
        /\ CASE r.kind \in {"limited", "paused"} ->
                  RetryOrFail(p, MayRetryRateLimit(p), r.after)
             [] r.kind = "failed" /\ ~Blocked(invalid') ->
                  RetryOrFail(p, canRetryRESTMethod(p), RetryDelay)
             [] OTHER -> End(p)
        /\ UNCHANGED <<keys, now, cache, heap, window, bucket, canonical, granted, discord>>

(* The wait before a retry is over, or the context ends.                   *)
Retry(p) ==
    /\ pc[p] = "backoff"
    /\ \/ /\ now >= wakeAt[p]
          /\ invalid' = prunedInvalid /\ LookUp(p, attempt[p].retries + 1)
       \/ End(p) /\ UNCHANGED <<keys, cache, heap, bucket, canonical, invalid>>
    /\ UNCHANGED <<now, global, window, granted, discord, learned>>

-----------------------------------------------------------------------------
(* Discord and time.                                                      *)
Rehash(r) ==
    /\ \E h \in Hashes : h > hash[r] /\ hash' = [hash EXCEPT ![r] = h]
    /\ UNCHANGED <<now, limiter, bucket, canonical, wakeAt, pc, granted, attempt,
                   pausedUntil, pauses, executed, learned>>

Tick ==
    /\ now < MaxTime /\ now' = now + 1
    /\ UNCHANGED <<limiter, bucket, canonical, wakeAt, pc, granted, attempt,
                   discord, learned>>

Step(p) ==
    \/ LockBucketRoute(p) \/ Locking(p) \/ Cancelled(p) \/ CheckInvalidRequestLimit(p)
    \/ DoFails(p) \/ DoReturns(p) \/ ReleaseHeaders(p) \/ UpdateCanonical(p)
    \/ HandleResponse(p) \/ Retry(p)

Next ==
    \/ \E p \in Requests : Step(p)
    \/ \E r \in Moving : Rehash(r)
    \/ Tick

Spec == Init /\ [][Next]_vars

-----------------------------------------------------------------------------
(* Properties.                                                             *)

(* The cache stays within its bounds and no mapping outlives the bucket it *)
(* names, although buckets are evicted, merged and found under new hashes. *)
CacheConsistent ==
    /\ Cardinality(DOMAIN cache.buckets) <= MaxBuckets
    /\ Cardinality(DOMAIN cache.hashes) <= MaxBucketMappings
    /\ \A k \in DOMAIN cache.hashes : cache.hashes[k].target \in DOMAIN cache.buckets

(* Invalid responses may exceed the limit only by those of requests that   *)
(* were past the check when it was reached: each adds at most one. The     *)
(* warning is armed exactly while the count is below its threshold.        *)
InvalidBudget ==
    /\ Len(invalid.at) < InvalidRequestLimit + Cardinality(Requests)
    /\ invalid.warned <=> Len(invalid.at) >= InvalidRequestWarningThreshold

(* A request that is not idempotent takes effect at most once, whatever is *)
(* lost, fails or is limited.                                              *)
UnsafeOnce ==
    \A p \in Unsafe : executed[p] <= 1

(* A request that finds it need not wait does so after the pause that the  *)
(* last header told has ended, and any longer one a body told since, by    *)
(* the clock of the responses: processing them late loses nothing.         *)
PausesKept ==
    [][\A p \in Requests :
        pc[p] # "reserve" /\ pc'[p] = "reserve" => now >= learned]_vars

(* The limiter never cuts short a pause it was told of. It does when two   *)
(* pauses follow each other: the header of the first, processed after a    *)
(* response of the second, replaces its end.                               *)
PauseNotCutShort == [][learned > now => global' >= learned]_vars

(* A Bucket is locked by nobody but a request that works with it, and each *)
(* of these has its own locked: through evictions and mergers, and however *)
(* it ends, a request takes the lock once and gives it back. None waits in *)
(* Release for the lock it holds.                                          *)
LocksAreHeld ==
    /\ \A b \in DOMAIN heap : heap[b].owner # NoBucket =>
           pc[heap[b].owner] \in Holding /\ bucket[heap[b].owner] = b
    /\ \A p \in Requests : pc[p] \in Holding => heap[bucket[p]].owner = p
    /\ \A p \in Requests : pc[p] = "canonical" => canonical[p] # bucket[p]

(* No requests wait for each other's locks: Release can always unlock its  *)
(* Bucket. They do: a hash is registered for the route a Bucket was made   *)
(* for, whatever route the request has, so that when one of two routes that*)
(* share a Bucket moves to a third one's, both are led to each other's, and*)
(* Release locks the canonical Bucket while it holds its own.              *)
Awaited(p) == CASE pc[p] = "lock" -> heap[bucket[p]].owner
                [] pc[p] = "canonical" -> heap[canonical[p]].owner
                [] OTHER -> NoBucket
NoLockCycle ==
    \A S \in (SUBSET Requests) \ {{}} : ~ \A p \in S : Awaited(p) \in S

(* The fixed windows of the proactive limit let no more than three of their*)
(* budgets pass in any interval two windows long.                          *)
GlobalBudget == INSTANCE RateWindow WITH
    Limit <- 3 * GlobalRateLimit, Window <- 2 * GlobalRateWindow,
    grants <- {g \in granted : g[2] + 2 * GlobalRateWindow > now}
GlobalBudgetKept == GlobalBudget!Spec
=============================================================================
