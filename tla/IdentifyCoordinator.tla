------------------------- MODULE IdentifyCoordinator -------------------------
(***************************************************************************)
(* IdentifyCoordinator (sharding.go): the shards of a bot share Discord's  *)
(* quota of session starts, and the shards of one concurrency bucket       *)
(* identify at least identifyConcurrencyWindow apart. Each shard's         *)
(* openGatewayGeneration calls Acquire before a fresh Identify.            *)
(*                                                                         *)
(* Time is counted in units small enough that Window is a few of them.     *)
(* Discord is external: it counts the sessions started since its last reset*)
(* and answers Get Gateway Bot with what is left of that window. The answer*)
(* is some time under way before Refresh stores it, and answers may arrive *)
(* out of order. A session counts as started when Acquire returns.         *)
(***************************************************************************)
EXTENDS Integers, FiniteSets

CONSTANTS
    Shards,             \* shard IDs
    Concurrencies,      \* values Discord may give max_concurrency
    Total,              \* session starts in one of Discord's windows
    Period,             \* length of Discord's window
    StartAt,            \* time into Discord's window when it first answers
    Window,             \* identifyConcurrencyWindow
    MaxAnswers,         \* bound: answers of Discord under way to Refresh
    MaxTime             \* bound on time

ASSUME ShardsAssumption == Shards \subseteq Nat
ASSUME ConcurrenciesAssumption ==
    Concurrencies \subseteq Nat \ {0} /\ Concurrencies # {}
ASSUME TimesAssumption ==
    /\ Total \in Nat \ {0} /\ Period \in Nat \ {0} /\ Window \in Nat \ {0}
    /\ StartAt \in 0 .. Period - 1 /\ MaxAnswers \in Nat /\ MaxTime \in Nat

VARIABLES
    now,
    (* fields of IdentifyCoordinator; total stays Total *)
    remaining, resetWindow, resetAt, maxConcurrency, bucketReadyAt,
    (* Acquire, per shard: state, and the end of its clock.Wait *)
    pc, wakeAt,
    (* Discord *)
    started,            \* sessions started since its last reset
    discordResetAt,
    answers,            \* its answers to Get Gateway Bot that are under way
    (* history *)
    grants,             \* Acquires that returned nil, since buckets changed
    fromDiscord,        \* the quota is Discord's, not the coordinator's reset
    quotaEnds,          \* when the window ends that the quota was told for
    missed              \* Acquires granted while the answer was under way

limit == <<remaining, resetWindow, resetAt, maxConcurrency>>
acquiring == <<pc, wakeAt>>
discord == <<started, discordResetAt>>
told == <<quotaEnds, missed>>
vars == <<now, limit, bucketReadyAt, acquiring, discord, answers, grants,
          fromDiscord, told>>

Bucket(s, concurrency) == s % concurrency
Buckets == {Bucket(s, m) : s \in Shards, m \in Concurrencies}
Grant == [shard : Shards, bucket : Buckets, at : Nat]

(* Discord's answer; windowEnds and granted, the Acquires granted since it *)
(* was given, are history.                                                 *)
SessionStartLimit ==
    [remaining : 0 .. Total, resetAfter : 1 .. Period, maxConcurrency : Concurrencies,
     windowEnds : Nat, granted : Nat]

TypeOK ==
    /\ now \in Nat
    /\ remaining \in 0 .. Total
    /\ resetWindow \in Nat /\ resetAt \in Nat
    /\ maxConcurrency \in Concurrencies
    /\ bucketReadyAt \in [Buckets -> Nat]
    /\ pc \in [Shards -> {"idle", "acquire", "wait"}]
    /\ wakeAt \in [Shards -> Nat]
    /\ started \in Nat
    /\ discordResetAt \in Nat
    /\ answers \subseteq SessionStartLimit
    /\ grants \subseteq Grant
    /\ fromDiscord \in BOOLEAN
    /\ quotaEnds \in Nat /\ missed \in Nat

(* The coordinator is made from an answer that was given at StartAt; it may*)
(* have been under way for almost a whole window of Discord.               *)
Init ==
    /\ now \in StartAt .. StartAt + Period - 1
    /\ remaining \in 0 .. Total
    /\ resetWindow = Period - StartAt /\ resetAt = now + resetWindow
    /\ maxConcurrency \in Concurrencies
    /\ bucketReadyAt = [b \in Buckets |-> 0]
    /\ pc = [s \in Shards |-> "idle"] /\ wakeAt = [s \in Shards |-> 0]
    /\ IF now < Period
       THEN started = Total - remaining /\ discordResetAt = Period
       ELSE started = 0 /\ discordResetAt = 2 * Period
    /\ answers = {}
    /\ grants = {} /\ fromDiscord = TRUE /\ quotaEnds = Period /\ missed = 0

-----------------------------------------------------------------------------
(* resetQuotaLocked: the quota and the end of its window after the check   *)
(* every call makes.                                                       *)
ResetDue == now >= resetAt
RemainingNow == IF ResetDue THEN Total ELSE remaining
ResetAtNow == IF ResetDue THEN now + resetWindow ELSE resetAt
resetQuotaLocked ==
    /\ resetAt' = ResetAtNow
    /\ fromDiscord' = (fromDiscord /\ ~ResetDue)

Acquire(s) ==
    /\ pc[s] = "idle"
    /\ pc' = [pc EXCEPT ![s] = "acquire"]
    /\ UNCHANGED <<now, limit, bucketReadyAt, wakeAt, discord, answers, grants,
                   fromDiscord, told>>

Exhausted == RemainingNow = 0

(* Mutant: the gate is opened by the first shard that waited for it.       *)
GateOpenMutant(s) ==
    now >= bucketReadyAt[Bucket(s, maxConcurrency)] \/ wakeAt[s] # 0
GateOpen(s) == now >= bucketReadyAt[Bucket(s, maxConcurrency)]

QuotaExhausted(s) ==
    /\ pc[s] = "acquire" /\ Exhausted
    /\ remaining' = RemainingNow /\ resetQuotaLocked
    /\ pc' = [pc EXCEPT ![s] = "idle"]
    /\ wakeAt' = [wakeAt EXCEPT ![s] = 0]
    /\ UNCHANGED <<now, resetWindow, maxConcurrency, bucketReadyAt, discord, answers,
                   grants, told>>

WaitForBucket(s) ==
    /\ pc[s] = "acquire" /\ ~Exhausted /\ ~GateOpen(s)
    /\ remaining' = RemainingNow /\ resetQuotaLocked
    /\ pc' = [pc EXCEPT ![s] = "wait"]
    /\ wakeAt' = [wakeAt EXCEPT ![s] = bucketReadyAt[Bucket(s, maxConcurrency)]]
    /\ UNCHANGED <<now, resetWindow, maxConcurrency, bucketReadyAt, discord, answers,
                   grants, told>>

(* Mutant: the first grant after a reset is free.                          *)
LeftMutant == IF ResetDue \/ remaining = Total THEN Total ELSE remaining - 1
Left == RemainingNow - 1

Granted(s) ==
    LET b == Bucket(s, maxConcurrency)
    IN  /\ pc[s] = "acquire" /\ ~Exhausted /\ GateOpen(s)
        /\ remaining' = Left /\ resetQuotaLocked
        /\ bucketReadyAt' = [bucketReadyAt EXCEPT ![b] = now + Window]
        /\ started' = started + 1
        /\ answers' = {[a EXCEPT !.granted = @ + 1] : a \in answers}
        /\ grants' = grants \cup {[shard |-> s, bucket |-> b, at |-> now]}
        /\ pc' = [pc EXCEPT ![s] = "idle"]
        /\ wakeAt' = [wakeAt EXCEPT ![s] = 0]
        /\ UNCHANGED <<now, resetWindow, maxConcurrency, discordResetAt, told>>

(* clock.Wait ends with the timer, or with the context of the generation.  *)
Wake(s) ==
    /\ pc[s] = "wait" /\ now >= wakeAt[s]
    /\ pc' = [pc EXCEPT ![s] = "acquire"]
    /\ UNCHANGED <<now, limit, bucketReadyAt, wakeAt, discord, answers, grants,
                   fromDiscord, told>>

Cancel(s) ==
    /\ pc[s] # "idle"
    /\ pc' = [pc EXCEPT ![s] = "idle"]
    /\ wakeAt' = [wakeAt EXCEPT ![s] = 0]
    /\ UNCHANGED <<now, limit, bucketReadyAt, discord, answers, grants, fromDiscord,
                   told>>

Status ==
    /\ ResetDue
    /\ remaining' = RemainingNow /\ resetQuotaLocked
    /\ UNCHANGED <<now, resetWindow, maxConcurrency, bucketReadyAt, acquiring,
                   discord, answers, grants, told>>

(* Discord answers Get Gateway Bot, with any max_concurrency. What it says *)
(* after more sessions were started than its quota is not modelled.        *)
Answer(concurrency) ==
    /\ started <= Total /\ Cardinality(answers) < MaxAnswers
    /\ answers' = answers \cup
           {[remaining |-> Total - started, resetAfter |-> discordResetAt - now,
             maxConcurrency |-> concurrency, windowEnds |-> discordResetAt, granted |-> 0]}
    /\ UNCHANGED <<now, limit, bucketReadyAt, acquiring, discord, grants, fromDiscord,
                   told>>

(* The answer's counts are those of the time it was given, and its         *)
(* reset_after is counted from now.                                        *)
Refresh(answer) ==
    LET regroups == maxConcurrency # answer.maxConcurrency
    IN  /\ answer \in answers
        /\ remaining' = answer.remaining
        /\ resetWindow' = answer.resetAfter /\ resetAt' = now + answer.resetAfter
        /\ maxConcurrency' = answer.maxConcurrency
        /\ bucketReadyAt' = IF regroups THEN [b \in Buckets |-> 0] ELSE bucketReadyAt
        /\ grants' = IF regroups THEN {} ELSE grants
        /\ fromDiscord' = TRUE
        /\ quotaEnds' = answer.windowEnds /\ missed' = answer.granted
        /\ answers' = answers \ {answer}
        /\ UNCHANGED <<now, acquiring, discord>>

(* Time passes; Discord resets its count at the end of its window.         *)
Tick ==
    /\ now < MaxTime
    /\ now' = now + 1
    /\ IF now + 1 = discordResetAt
       THEN started' = 0 /\ discordResetAt' = discordResetAt + Period
       ELSE UNCHANGED discord
    /\ UNCHANGED <<limit, bucketReadyAt, acquiring, answers, grants, fromDiscord, told>>

Next ==
    \/ \E s \in Shards : \/ Acquire(s) \/ QuotaExhausted(s) \/ WaitForBucket(s)
                         \/ Granted(s) \/ Wake(s) \/ Cancel(s)
    \/ Status \/ Tick
    \/ \E m \in Concurrencies : Answer(m)
    \/ \E answer \in answers : Refresh(answer)

Spec == Init /\ [][Next]_vars

-----------------------------------------------------------------------------
(* Properties.                                                             *)

(* Two Identifies of one bucket are Window apart, however many shards wait *)
(* for the same gate and wake up together.                                 *)
BucketsSpaced ==
    \A g, h \in grants :
        g.bucket = h.bucket /\ g # h => g.at - h.at >= Window \/ h.at - g.at >= Window

(* While the quota is the one Discord told, the sessions started since     *)
(* Discord's last reset and those the coordinator may still grant exceed   *)
(* Discord's total by no more than the Acquires that were granted while the*)
(* answer was under way; and until Discord resets they are exactly that    *)
(* many, so that no session start is lost either.                          *)
QuotaAccounted ==
    fromDiscord =>
        /\ started + remaining <= Total + missed
        /\ quotaEnds = discordResetAt => started + remaining = Total + missed

(* The sessions started since Discord's last reset never exceed its quota. *)
QuotaRespected == started <= Total
=============================================================================
