---------------------- MODULE IdentifyCoordinatorProofs ----------------------
(***************************************************************************)
(* Proofs about IdentifyCoordinator for any shards, quota and windows.     *)
(***************************************************************************)
EXTENDS IdentifyCoordinator, TLAPS

(* The gate of a bucket lies beyond every grant of the bucket.             *)
GateBeyondGrants ==
    \A g \in grants : g.at <= now /\ g.at + Window <= bucketReadyAt[g.bucket]

(* Discord's window ends in the future and after at most Period, and the   *)
(* windows its answers are about have not been begun later.                *)
DiscordWindow ==
    /\ now < discordResetAt /\ discordResetAt <= now + Period
    /\ quotaEnds <= discordResetAt
    /\ \A a \in answers : a.windowEnds <= discordResetAt

(* What an answer under way says holds of Discord but for the Acquires     *)
(* granted since, and for a reset, which only lowers Discord's count.      *)
AnswersAccounted ==
    \A a \in answers :
        /\ started + a.remaining <= Total + a.granted
        /\ a.windowEnds = discordResetAt => started + a.remaining = Total + a.granted

IInv == /\ TypeOK /\ GateBeyondGrants /\ BucketsSpaced
        /\ DiscordWindow /\ AnswersAccounted /\ QuotaAccounted

(* Every bucket the code computes is one of Buckets.                       *)
LEMMA BucketType ==
    ASSUME NEW s \in Shards, NEW m \in Concurrencies
    PROVE  Bucket(s, m) \in Buckets
BY DEF Buckets

(* What a call sees of the quota has its type.                             *)
LEMMA QuotaNowTypes ==
    ASSUME TypeOK
    PROVE  RemainingNow \in 0 .. Total /\ ResetAtNow \in Nat
BY TimesAssumption DEF TypeOK, RemainingNow, ResetAtNow, ResetDue

(* A call finds the quota that is stored, unless the coordinator resets it.*)
LEMMA QuotaStored ==
    ASSUME TypeOK, resetQuotaLocked, fromDiscord'
    PROVE  fromDiscord /\ RemainingNow = remaining
<1>1. fromDiscord /\ ~ResetDue
  BY DEF resetQuotaLocked
<1> QED BY <1>1 DEF RemainingNow

(* The initial state satisfies the invariant.                              *)
LEMMA InitIInv == Init => IInv
<1> SUFFICES ASSUME Init PROVE IInv
  OBVIOUS
<1>1. TypeOK
  <2>1. /\ now \in Nat /\ resetWindow \in Nat /\ resetAt \in Nat /\ started \in Nat
        /\ discordResetAt \in Nat /\ remaining \in 0 .. Total
        /\ quotaEnds \in Nat /\ missed \in Nat
    BY TimesAssumption DEF Init
  <2>2. fromDiscord \in BOOLEAN
    BY Zenon DEF Init
  <2> QED BY <2>1, <2>2 DEF Init, TypeOK
<1>2. GateBeyondGrants /\ BucketsSpaced
  BY DEF Init, GateBeyondGrants, BucketsSpaced
<1>3. DiscordWindow /\ AnswersAccounted /\ QuotaAccounted
  BY TimesAssumption DEF Init, DiscordWindow, AnswersAccounted, QuotaAccounted
<1> QED BY <1>1, <1>2, <1>3 DEF IInv

(* A call that grants nothing: it may reset the quota and change what its  *)
(* shard waits for.                                                        *)
LEMMA NoGrantKeeps ==
    ASSUME IInv, remaining' = RemainingNow, resetQuotaLocked,
           pc' \in [Shards -> {"idle", "acquire", "wait"}], wakeAt' \in [Shards -> Nat],
           UNCHANGED <<now, resetWindow, maxConcurrency, bucketReadyAt, discord, answers,
                       grants, told>>
    PROVE  IInv'
<1>1. TypeOK'
  <2>1. remaining' \in 0 .. Total /\ resetAt' \in Nat
    BY QuotaNowTypes DEF IInv, resetQuotaLocked
  <2>2. fromDiscord' \in BOOLEAN
    BY Zenon DEF resetQuotaLocked
  <2> QED BY <2>1, <2>2 DEF IInv, TypeOK, discord, told
<1>2. GateBeyondGrants' /\ BucketsSpaced'
  BY DEF IInv, GateBeyondGrants, BucketsSpaced
<1>3. DiscordWindow' /\ AnswersAccounted'
  BY DEF IInv, DiscordWindow, AnswersAccounted, discord, told
<1>4. QuotaAccounted'
  <2> SUFFICES ASSUME fromDiscord' PROVE QuotaAccounted'
    BY DEF QuotaAccounted
  <2>1. fromDiscord /\ remaining' = remaining
    BY QuotaStored DEF IInv
  <2> QED BY <2>1 DEF IInv, QuotaAccounted, discord, told
<1> QED BY <1>1, <1>2, <1>3, <1>4 DEF IInv

(* A grant is Window after every earlier one of its bucket: it passed the  *)
(* gate, and the gate lies Window beyond them.                             *)
LEMMA GrantedKeeps ==
    ASSUME IInv, NEW s \in Shards, Granted(s) PROVE IInv'
<1> DEFINE b == Bucket(s, maxConcurrency)
           new == [shard |-> s, bucket |-> b, at |-> now]
<1>1. TypeOK /\ b \in Buckets /\ now \in Nat /\ Window \in Nat \ {0}
  BY BucketType, TimesAssumption DEF IInv, TypeOK
<1>2. /\ grants' = grants \cup {new} /\ now' = now
      /\ bucketReadyAt' = [bucketReadyAt EXCEPT ![b] = now + Window]
      /\ now >= bucketReadyAt[b]
  BY DEF Granted, GateOpen
<1>3. \A g \in grants : /\ g.at \in Nat /\ g.bucket \in Buckets
                        /\ bucketReadyAt[g.bucket] \in Nat
  BY <1>1 DEF TypeOK, Grant
<1>4. new \in Grant /\ new.at = now /\ new.bucket = b
  BY <1>1 DEF Grant
<1>5. RemainingNow \in 0 .. Total /\ RemainingNow # 0
  BY <1>1, QuotaNowTypes DEF Granted, Exhausted
<1> HIDE DEF new, b
<1>6. TypeOK'
  <2>1. remaining' \in 0 .. Total /\ resetAt' \in Nat
    <3>1. remaining' = RemainingNow - 1 /\ resetAt' = ResetAtNow
      BY DEF Granted, Left, resetQuotaLocked
    <3> QED BY <1>1, <1>5, <3>1, QuotaNowTypes, TimesAssumption
  <2>2. fromDiscord' \in BOOLEAN
    BY Zenon DEF Granted, resetQuotaLocked
  <2>3. bucketReadyAt' \in [Buckets -> Nat] /\ grants' \subseteq Grant
    BY <1>1, <1>2, <1>4 DEF TypeOK
  <2>4. started' \in Nat /\ pc' \in [Shards -> {"idle", "acquire", "wait"}]
        /\ wakeAt' \in [Shards -> Nat]
    BY <1>1 DEF TypeOK, Granted
  <2>5. answers' \subseteq SessionStartLimit
    <3> SUFFICES ASSUME NEW a \in answers
                 PROVE  [a EXCEPT !.granted = @ + 1] \in SessionStartLimit
      BY DEF Granted
    <3> QED BY <1>1 DEF TypeOK, SessionStartLimit
  <2> QED BY <1>1, <2>1, <2>2, <2>3, <2>4, <2>5 DEF TypeOK, Granted, told
<1>7. GateBeyondGrants'
  <2>1. ASSUME NEW g \in grants
        PROVE  g.at <= now' /\ g.at + Window <= bucketReadyAt'[g.bucket]
    BY <1>1, <1>2, <1>3, <2>1 DEF IInv, GateBeyondGrants, TypeOK
  <2>2. new.at <= now' /\ new.at + Window <= bucketReadyAt'[new.bucket]
    BY <1>1, <1>2, <1>4 DEF TypeOK
  <2> QED BY <1>2, <2>1, <2>2 DEF GateBeyondGrants
<1>8. BucketsSpaced'
  <2>1. \A g \in grants : g.bucket = b => now - g.at >= Window
    BY <1>1, <1>2, <1>3 DEF IInv, GateBeyondGrants
  <2> QED BY <1>2, <1>4, <2>1 DEF IInv, BucketsSpaced
<1>9. \A a \in answers' : \E old \in answers :
          /\ a.remaining = old.remaining /\ a.windowEnds = old.windowEnds
          /\ a.granted = old.granted + 1
          /\ a.remaining \in Nat /\ old.granted \in Nat
  <2> SUFFICES ASSUME NEW old \in answers
               PROVE  LET a == [old EXCEPT !.granted = @ + 1]
                      IN  /\ a.remaining = old.remaining /\ a.windowEnds = old.windowEnds
                          /\ a.granted = old.granted + 1
                          /\ a.remaining \in Nat /\ old.granted \in Nat
    BY DEF Granted
  <2> QED BY <1>1, TimesAssumption DEF TypeOK, SessionStartLimit
<1>10. /\ started' = started + 1 /\ started \in Nat
       /\ UNCHANGED <<discordResetAt, quotaEnds, missed>>
  BY <1>1 DEF Granted, TypeOK, told
<1>11. DiscordWindow'
  BY <1>2, <1>9, <1>10 DEF IInv, DiscordWindow
<1>12. AnswersAccounted'
  BY <1>1, <1>9, <1>10, TimesAssumption DEF IInv, AnswersAccounted
<1>13. QuotaAccounted'
  <2> SUFFICES ASSUME fromDiscord' PROVE QuotaAccounted'
    BY DEF QuotaAccounted
  <2>1. fromDiscord /\ remaining' = remaining - 1
    BY <1>1, QuotaStored DEF Granted, Left
  <2> QED BY <1>1, <1>10, <2>1, TimesAssumption DEF IInv, QuotaAccounted, TypeOK
<1> QED BY <1>6, <1>7, <1>8, <1>11, <1>12, <1>13 DEF IInv

(* An answer says what Discord's count is when it is given.                *)
LEMMA AnswerKeeps ==
    ASSUME IInv, NEW m \in Concurrencies, Answer(m) PROVE IInv'
<1> DEFINE new == [remaining |-> Total - started, resetAfter |-> discordResetAt - now,
                   maxConcurrency |-> m, windowEnds |-> discordResetAt, granted |-> 0]
<1>1. /\ answers' = answers \cup {new}
      /\ UNCHANGED <<now, limit, bucketReadyAt, acquiring, discord, grants, fromDiscord, told>>
  BY DEF Answer
<1>2. new \in SessionStartLimit
  BY TimesAssumption DEF IInv, TypeOK, DiscordWindow, SessionStartLimit, Answer
<1>3. TypeOK'
  BY <1>1, <1>2 DEF IInv, TypeOK, limit, acquiring, discord, told
<1>4. GateBeyondGrants' /\ BucketsSpaced' /\ QuotaAccounted'
  BY <1>1 DEF IInv, GateBeyondGrants, BucketsSpaced, QuotaAccounted, limit, discord, told
<1>5. DiscordWindow' /\ AnswersAccounted'
  <2>1. /\ new.windowEnds <= discordResetAt
        /\ started + new.remaining <= Total + new.granted
        /\ started + new.remaining = Total + new.granted
    BY TimesAssumption DEF IInv, TypeOK
  <2> HIDE DEF new
  <2>2. DiscordWindow'
    BY <1>1, <2>1 DEF IInv, DiscordWindow, limit, discord, told
  <2>3. AnswersAccounted'
    BY <1>1, <2>1 DEF IInv, AnswersAccounted, discord
  <2> QED BY <2>2, <2>3
<1> QED BY <1>3, <1>4, <1>5 DEF IInv

(* A refresh stores what Discord said, and keeps the gates unless the      *)
(* shards are regrouped, when the grants counted so far go too.            *)
LEMMA RefreshKeeps ==
    ASSUME IInv, NEW a \in answers, Refresh(a) PROVE IInv'
<1>1. TypeOK'
  <2>0. a \in SessionStartLimit
    BY DEF IInv, TypeOK
  <2>1. /\ remaining' \in 0 .. Total /\ resetWindow' \in Nat /\ resetAt' \in Nat
        /\ maxConcurrency' \in Concurrencies
        /\ quotaEnds' \in Nat /\ missed' \in Nat
    BY <2>0, TimesAssumption DEF IInv, TypeOK, SessionStartLimit, Refresh
  <2>2. bucketReadyAt' \in [Buckets -> Nat] /\ grants' \subseteq Grant
    BY DEF IInv, TypeOK, Refresh
  <2>3. fromDiscord' \in BOOLEAN
    BY Zenon DEF Refresh
  <2> QED BY <2>1, <2>2, <2>3 DEF IInv, TypeOK, Refresh, acquiring, discord
<1>2. GateBeyondGrants' /\ BucketsSpaced'
  BY DEF IInv, GateBeyondGrants, BucketsSpaced, Refresh
<1>3. DiscordWindow' /\ AnswersAccounted' /\ QuotaAccounted'
  BY DEF IInv, DiscordWindow, AnswersAccounted, QuotaAccounted, Refresh, discord
<1> QED BY <1>1, <1>2, <1>3 DEF IInv

(* Time passes: gates only recede, and a reset of Discord lowers its count *)
(* and begins a window that no answer under way is about.                  *)
LEMMA TickKeeps == ASSUME IInv, Tick PROVE IInv'
<1> USE TimesAssumption
<1>1. TypeOK'
  BY DEF IInv, TypeOK, Tick, limit, acquiring, discord, told
<1>2. GateBeyondGrants'
  <2>1. \A g \in grants : g.at \in Nat
    BY DEF IInv, TypeOK, Grant
  <2> QED BY <2>1 DEF IInv, GateBeyondGrants, TypeOK, Tick
<1>3. BucketsSpaced'
  BY DEF IInv, BucketsSpaced, Tick
<1>4. CASE now + 1 # discordResetAt
  <2>1. UNCHANGED <<discord, limit, answers, fromDiscord, told>> /\ now' = now + 1
    BY <1>4 DEF Tick
  <2>2. DiscordWindow'
    BY <1>4, <2>1 DEF IInv, TypeOK, DiscordWindow, discord, told
  <2>3. AnswersAccounted' /\ QuotaAccounted'
    BY <2>1 DEF IInv, AnswersAccounted, QuotaAccounted, discord, limit, told
  <2> QED BY <1>1, <1>2, <1>3, <2>2, <2>3 DEF IInv
<1>5. CASE now + 1 = discordResetAt
  <2>1. /\ started' = 0 /\ discordResetAt' = discordResetAt + Period
        /\ UNCHANGED <<limit, answers, fromDiscord, told>> /\ now' = now + 1
    BY <1>5 DEF Tick
  <2>2. /\ now \in Nat /\ started \in Nat /\ discordResetAt \in Nat /\ remaining \in 0 .. Total
        /\ quotaEnds \in Nat /\ missed \in Nat
        /\ \A a \in answers : /\ a.remaining \in 0 .. Total /\ a.windowEnds \in Nat
                              /\ a.granted \in Nat
    BY DEF IInv, TypeOK, SessionStartLimit
  <2>3. DiscordWindow'
    BY <1>5, <2>1, <2>2 DEF IInv, DiscordWindow, told
  <2>4. AnswersAccounted'
    BY <2>1, <2>2 DEF IInv, DiscordWindow, AnswersAccounted
  <2>5. QuotaAccounted'
    BY <2>1, <2>2 DEF IInv, DiscordWindow, QuotaAccounted, limit, told
  <2> QED BY <1>1, <1>2, <1>3, <2>3, <2>4, <2>5 DEF IInv
<1> QED BY <1>4, <1>5

(* The invariant is inductive.                                             *)
LEMMA NextIInv == IInv /\ [Next]_vars => IInv'
<1> SUFFICES ASSUME IInv, [Next]_vars PROVE IInv'
  OBVIOUS
<1>1. ASSUME UNCHANGED <<now, limit, bucketReadyAt, discord, answers, grants, fromDiscord,
                         told>>,
             pc' \in [Shards -> {"idle", "acquire", "wait"}], wakeAt' \in [Shards -> Nat]
      PROVE  IInv'
  BY <1>1 DEF IInv, TypeOK, GateBeyondGrants, BucketsSpaced, DiscordWindow,
              AnswersAccounted, QuotaAccounted, limit, discord, told
<1>2. ASSUME NEW s \in Shards, Acquire(s) \/ Wake(s) \/ Cancel(s)
      PROVE  IInv'
  <2>1. pc' \in [Shards -> {"idle", "acquire", "wait"}] /\ wakeAt' \in [Shards -> Nat]
    BY <1>2 DEF Acquire, Wake, Cancel, IInv, TypeOK
  <2> QED BY <1>1, <1>2, <2>1 DEF Acquire, Wake, Cancel
<1>3. ASSUME NEW s \in Shards, QuotaExhausted(s) \/ WaitForBucket(s)
      PROVE  IInv'
  <2>1. bucketReadyAt[Bucket(s, maxConcurrency)] \in Nat
    BY BucketType DEF IInv, TypeOK
  <2>2. pc' \in [Shards -> {"idle", "acquire", "wait"}] /\ wakeAt' \in [Shards -> Nat]
    BY <1>3, <2>1 DEF QuotaExhausted, WaitForBucket, IInv, TypeOK
  <2> QED BY <1>3, <2>2, NoGrantKeeps DEF QuotaExhausted, WaitForBucket
<1>4. CASE Status
  <2>1. pc' \in [Shards -> {"idle", "acquire", "wait"}] /\ wakeAt' \in [Shards -> Nat]
    BY <1>4 DEF Status, acquiring, IInv, TypeOK
  <2> QED BY <1>4, <2>1, NoGrantKeeps DEF Status
<1>5. CASE UNCHANGED vars
  <2>1. pc' \in [Shards -> {"idle", "acquire", "wait"}] /\ wakeAt' \in [Shards -> Nat]
    BY <1>5 DEF vars, acquiring, IInv, TypeOK
  <2> QED BY <1>1, <1>5, <2>1 DEF vars
<1> QED
  BY <1>2, <1>3, <1>4, <1>5, GrantedKeeps, AnswerKeeps, RefreshKeeps, TickKeeps
     DEF Next

(* The coordinator's fields keep their types: the quota stays between 0 and*)
(* the total under any number of concurrent Acquires.                      *)
THEOREM TypeCorrect == Spec => []TypeOK
<1>1. IInv => TypeOK
  BY DEF IInv
<1> QED BY <1>1, InitIInv, NextIInv, PTL DEF Spec

(* Two Identifies of one bucket are Window apart.                          *)
THEOREM Spacing == Spec => []BucketsSpaced
<1>1. IInv => BucketsSpaced
  BY DEF IInv
<1> QED BY <1>1, InitIInv, NextIInv, PTL DEF Spec

(* While its quota is Discord's the coordinator will let at most as many   *)
(* sessions start as Discord allows and the Acquires that an answer on its *)
(* way did not count, and exactly as many until Discord resets.            *)
THEOREM QuotaIsAccounted == Spec => []QuotaAccounted
<1>1. IInv => QuotaAccounted
  BY DEF IInv
<1> QED BY <1>1, InitIInv, NextIInv, PTL DEF Spec
=============================================================================
