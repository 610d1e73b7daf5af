----------------------------- MODULE RateLimiter -----------------------------
(***************************************************************************)
(* RateLimiter and Bucket (ratelimit.go): buckets found by route until     *)
(* Discord names the hash they share, each locked for the whole of a       *)
(* request; the proactive global window; Discord's global pauses; and the  *)
(* window of invalid responses. RestRequests adds the requests.            *)
(*                                                                         *)
(* A bucket is an object of its own: the limiter's maps may drop it or     *)
(* find it under two keys while requests hold it or wait for its lock.     *)
(* What runs under the limiter's lock is one step. lastUsed has the        *)
(* granularity of a tick: equally old buckets are evicted in any order.    *)
(***************************************************************************)
EXTENDS Integers, Sequences, FiniteSets, SequencesExt

CONSTANTS
    Requests,
    MaxBuckets, MaxBucketMappings,
    BucketTTL, CleanupInterval,
    GlobalRateLimit, GlobalRateWindow,
    InvalidRequestLimit, InvalidRequestWarningThreshold, InvalidRequestWindow,
    RouteKeys, MajorKeys, Hashes,
    MaxTime             \* bound on time

ASSUME LimitsAssumption ==
    /\ {MaxBuckets, MaxBucketMappings} \subseteq Nat \ {0}
    /\ {BucketTTL, CleanupInterval, GlobalRateWindow, InvalidRequestWindow} \subseteq Nat \ {0}
    /\ GlobalRateLimit \in Nat \ {0} /\ InvalidRequestLimit \in Nat \ {0}
    /\ InvalidRequestWarningThreshold \in 1 .. InvalidRequestLimit

VARIABLES
    route,              \* of each request
    routeKey, majorKey, \* the keys by which it locks its Bucket
    now,
    global,             \* the pause, shared by all buckets
    cache,              \* buckets, bucketHashes with bucketHashUsed, lastCleanup
    heap,               \* the Bucket objects
    window,             \* globalWindowStart, globalRequests
    invalid,            \* invalidRequests, invalidWarned
    bucket, canonical,  \* the Buckets a request works with
    wakeAt,             \* the end of its wait
    pc,
    granted             \* history: reservations of the last two windows

keys == <<route, routeKey, majorKey>>
limiter == <<keys, global, cache, heap, window, invalid>>

NoBucket == 0
ASSUME RequestsAssumption == NoBucket \notin Requests
Never == -1
Keys == {"route"} \X RouteKeys \X MajorKeys \cup {"bucket"} \X Hashes \X MajorKeys
rateLimitRouteBucketKey(r, m) == <<"route", r, m>>
rateLimitDiscoveredBucketKey(h, m) == <<"bucket", h, m>>

Bucket == [RouteKey : RouteKeys, MajorKey : MajorKeys, Remaining : Int, reset : Nat,
           lastUsed : Nat, owner : Requests \cup {NoBucket}]

Only(f, S) == [x \in DOMAIN f \cap S |-> f[x]]

LimiterInit ==
    /\ route \in [Requests -> RouteKeys] /\ routeKey = route
    /\ majorKey \in [Requests -> MajorKeys]
    /\ now = 0 /\ global = 0
    /\ cache = [buckets |-> <<>>, hashes |-> <<>>, cleaned |-> Never]
    /\ heap = <<>>
    /\ window = [start |-> Never, requests |-> 0]
    /\ invalid = [at |-> <<>>, warned |-> FALSE]
    /\ bucket = [p \in Requests |-> NoBucket]
    /\ canonical = [p \in Requests |-> NoBucket]
    /\ wakeAt = [p \in Requests |-> 0]
    /\ pc = [p \in Requests |-> "start"]
    /\ granted = {}

Go(p, label) == pc' = [pc EXCEPT ![p] = label]

-----------------------------------------------------------------------------
(* The maps. Each operator is one function called under the limiter's lock,*)
(* as the set of its possible results.                                     *)

(* Mutant: eviction leaves the mappings to the evicted buckets.            *)
removeDanglingBucketHashesMutant(c) == c
removeDanglingBucketHashes(c) ==
    [c EXCEPT !.hashes = Only(@, {k \in DOMAIN @ : @[k].target \in DOMAIN c.buckets})]

cleanupBuckets(c) ==
    IF c.cleaned # Never /\ now - c.cleaned < CleanupInterval THEN c
    ELSE removeDanglingBucketHashes(
           [buckets |-> Only(c.buckets, {k \in DOMAIN c.buckets :
                            heap[c.buckets[k]].lastUsed >= now - BucketTTL}),
            hashes |-> Only(c.hashes, {k \in DOMAIN c.hashes :
                            c.hashes[k].used >= now - BucketTTL}),
            cleaned |-> now])

(* The n least recently used members of S.                                 *)
Oldest(S, n, used(_)) ==
    {E \in SUBSET S : /\ Cardinality(E) = n
                      /\ \A e \in E, s \in S \ E : used(e) <= used(s)}

Excess(size, limit) == IF size > limit THEN size - limit ELSE 0

makeBucketRoom(c) ==
    LET used(k) == heap[c.buckets[k]].lastUsed
        excess == Excess(Cardinality(DOMAIN c.buckets) + 1, MaxBuckets)
    IN  {removeDanglingBucketHashes(
            [c EXCEPT !.buckets = Only(@, DOMAIN @ \ E)]) :
         E \in Oldest(DOMAIN c.buckets, excess, used)}

MappingsToEvict(c) == Excess(Cardinality(DOMAIN c.hashes) + 1, MaxBucketMappings)

setBucketHash(c, from, to) ==
    LET used(k) == c.hashes[k].used
        excess == IF from \in DOMAIN c.hashes THEN 0 ELSE MappingsToEvict(c)
        map(E) == [k \in (DOMAIN c.hashes \ E) \cup {from} |->
                     IF k = from THEN [target |-> to, used |-> now] ELSE c.hashes[k]]
    IN  {[c EXCEPT !.hashes = map(E)] : E \in Oldest(DOMAIN c.hashes, excess, used)}

With(c, key, b) ==
    [c EXCEPT !.buckets = [k \in DOMAIN @ \cup {key} |-> IF k = key THEN b ELSE @[k]]]

(* Objects nothing refers to are garbage, after a step as in the program.  *)
Live(h) == Only(h, {cache'.buckets[k] : k \in DOMAIN cache'.buckets}
                       \cup {bucket'[p] : p \in Requests} \cup {canonical'[p] : p \in Requests})
FreshBucket == CHOOSE b \in 1 .. Cardinality(DOMAIN heap) + 1 : b \notin DOMAIN heap

-----------------------------------------------------------------------------
(* getRouteBucket. The Bucket may be of another route; a retry will lock by*)
(* the keys of the Bucket.                                                 *)
getBucket(p) ==
    LET key == rateLimitRouteBucketKey(routeKey[p], majorKey[p])
        c == cleanupBuckets(cache)
        mapped == key \in DOMAIN c.hashes /\ c.hashes[key].target \in DOMAIN c.buckets
        unmapped == [c EXCEPT !.hashes = Only(@, DOMAIN @ \ {key})]
        Take(b) == /\ bucket' = [bucket EXCEPT ![p] = b]
                   /\ routeKey' = [routeKey EXCEPT ![p] = heap[b].RouteKey]
                   /\ majorKey' = [majorKey EXCEPT ![p] = heap[b].MajorKey]
                   /\ heap' = Live([heap EXCEPT ![b].lastUsed = now])
    IN  /\ UNCHANGED <<route, canonical>>
        /\ IF mapped
           THEN /\ cache' = [c EXCEPT !.hashes[key].used = now]
                /\ Take(c.buckets[c.hashes[key].target])
           ELSE IF key \in DOMAIN c.buckets
           THEN cache' = unmapped /\ Take(c.buckets[key])
           ELSE LET b == FreshBucket
                    fresh == [RouteKey |-> routeKey[p], MajorKey |-> majorKey[p],
                              Remaining |-> 1, reset |-> 0, lastUsed |-> now,
                              owner |-> NoBucket]
                IN  /\ \E room \in makeBucketRoom(unmapped) : cache' = With(room, key, b)
                    /\ bucket' = [bucket EXCEPT ![p] = b]
                    /\ UNCHANGED <<routeKey, majorKey>>
                    /\ heap' = Live([i \in DOMAIN heap \cup {b} |->
                                        IF i = b THEN fresh ELSE heap[i]])

(* The state of the proactive window after resetGlobalWindowLocked.        *)
resetGlobalWindow ==
    IF window.start = Never \/ now - window.start >= GlobalRateWindow
    THEN [start |-> now, requests |-> 0] ELSE window

(* Mutant: one request too many.                                           *)
HasBudgetMutant(w) == w.requests <= GlobalRateLimit
HasBudget(w) == w.requests < GlobalRateLimit
BudgetAt(w) == IF HasBudget(w) THEN now ELSE w.start + GlobalRateWindow

ReadyAt(b) ==
    Max({global, BudgetAt(resetGlobalWindow),
         IF heap[b].Remaining < 1 THEN heap[b].reset ELSE now})

(* A round of the loop of LockBucketObjectContext, when the bucket's lock  *)
(* is taken or the timer fires: GetWaitTime ...                            *)
GetWaitTime(p) ==
    LET b == bucket[p]
    IN  /\ \/ pc[p] = "lock" /\ heap[b].owner = NoBucket
           \/ pc[p] = "sleep" /\ now >= wakeAt[p]
        /\ heap' = [heap EXCEPT ![b].owner = p]
        /\ window' = resetGlobalWindow
        /\ IF ReadyAt(b) <= now
           THEN Go(p, "reserve") /\ wakeAt' = [wakeAt EXCEPT ![p] = 0]
           ELSE Go(p, "sleep") /\ wakeAt' = [wakeAt EXCEPT ![p] = ReadyAt(b)]
        /\ UNCHANGED <<keys, now, global, cache, invalid, bucket, canonical, granted>>

(* ... and reserveGlobalRequest, whose failure sends it to sleep.          *)
reserveGlobalRequest(p, next) ==
    /\ pc[p] = "reserve"
    /\ IF HasBudget(resetGlobalWindow)
       THEN /\ window' = [resetGlobalWindow EXCEPT !.requests = @ + 1]
            /\ heap' = [heap EXCEPT ![bucket[p]].Remaining = @ - 1,
                                    ![bucket[p]].lastUsed = now]
            /\ granted' = {g \in granted : g[2] + 2 * GlobalRateWindow > now} \cup {<<p, now>>}
            /\ Go(p, next) /\ UNCHANGED wakeAt
       ELSE /\ window' = resetGlobalWindow
            /\ wakeAt' = [wakeAt EXCEPT ![p] = BudgetAt(resetGlobalWindow)]
            /\ Go(p, "sleep") /\ UNCHANGED <<heap, granted>>
    /\ UNCHANGED <<keys, now, global, cache, invalid, bucket, canonical>>

-----------------------------------------------------------------------------
(* Release.                                                                *)
Unlocked(p, h) ==
    /\ bucket' = [bucket EXCEPT ![p] = NoBucket]
    /\ heap' = Live([h EXCEPT ![bucket[p]].owner = NoBucket, ![bucket[p]].lastUsed = now])

(* registerBucketHash: the maps, and the Bucket the hash stands for.       *)
registerBucketHash(b, hash, room, kept) ==
    LET origin == rateLimitRouteBucketKey(heap[b].RouteKey, heap[b].MajorKey)
        target == rateLimitDiscoveredBucketKey(hash, heap[b].MajorKey)
        c == cleanupBuckets(cache)
        without == IF origin \in DOMAIN c.buckets /\ c.buckets[origin] = b
                   THEN [c EXCEPT !.buckets = Only(@, DOMAIN @ \ {origin})] ELSE c
    IN  IF target \in DOMAIN c.buckets
        THEN /\ kept = c.buckets[target]
             /\ room \in setBucketHash(IF kept # b THEN without ELSE c, origin, target)
        ELSE /\ kept = b
             /\ \E r \in makeBucketRoom(without) :
                    room \in setBucketHash(With(r, target, b), origin, target)
=============================================================================
