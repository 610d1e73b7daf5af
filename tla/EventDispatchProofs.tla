-------------------------- MODULE EventDispatchProofs --------------------------
(***************************************************************************)
(* Proofs about EventDispatch, for any guilds and things, any number of    *)
(* handlers and changes, and event streams of any length: a once handler is*)
(* called once, a removed handler not after its removal, and the cache of  *)
(* StateCache agrees with itself and with what the gateway told.           *)
(***************************************************************************)
EXTENDS EventDispatch, FiniteSetTheorems, SequenceTheorems, TLAPS

-----------------------------------------------------------------------------
(* The registry and the dispatchers.                                       *)
Handler == [type : Types, once : BOOLEAN]
Registry ==
    [handlers : [Types -> Seq(Nat)], onceHandlers : [Types -> Seq(Nat)],
     added : Seq(Handler), removed : SUBSET Nat]
Dispatch == [running : BOOLEAN, passes : Seq(Types), snapshot : Seq(Nat), removed : SUBSET Nat]

RegistryTyped ==
    /\ registry \in Registry
    /\ dispatch \in [Dispatchers -> Dispatch]
    /\ registry.removed \subseteq 1 .. Len(registry.added)
    /\ calls \in Seq(Nat) /\ Len(calls) = Len(registry.added)

(* A list of registry r holds each of its handlers once, those of a type   *)
(* and kind that were added and not removed.                               *)
Holds(r, s, t, once) ==
    \A i \in 1 .. Len(s) :
        /\ s[i] \in 1 .. Len(r.added)
        /\ r.added[s[i]] = [type |-> t, once |-> once]
        /\ s[i] \notin r.removed
        /\ \A j \in 1 .. Len(s) : s[j] = s[i] => j = i
Listed(r) ==
    \A t \in Types : Holds(r, r.handlers[t], t, FALSE) /\ Holds(r, r.onceHandlers[t], t, TRUE)

(* A once handler that is yet to be called is in one place only: its list  *)
(* or one snapshot.                                                        *)
Single(r, cs, ds, d, i) ==
    LET h == ds[d].snapshot[i] IN
    /\ h \in 1 .. Len(r.added)
    /\ r.added[h].once =>
          /\ cs[h] = 0
          /\ \A t \in Types : \A j \in 1 .. Len(r.onceHandlers[t]) : r.onceHandlers[t][j] # h
          /\ \A c \in Dispatchers : \A j \in 1 .. Len(ds[c].snapshot) :
                 ds[c].snapshot[j] = h => c = d /\ j = i
Pending ==
    /\ \A t \in Types : \A i \in 1 .. Len(registry.onceHandlers[t]) :
           calls[registry.onceHandlers[t][i]] = 0
    /\ \A d \in Dispatchers : \A i \in 1 .. Len(dispatch[d].snapshot) :
           Single(registry, calls, dispatch, d, i)

(* A handler removed before an event is in no snapshot for it.             *)
Removed ==
    \A d \in Dispatchers :
        /\ dispatch[d].removed \subseteq registry.removed
        /\ \A i \in 1 .. Len(dispatch[d].snapshot) :
               dispatch[d].snapshot[i] \notin dispatch[d].removed

RInv == RegistryTyped /\ Listed(registry) /\ Pending /\ OnceOnly /\ Removed

-----------------------------------------------------------------------------
(* What is left of a list of different elements without one of them.       *)
LEMMA RemoveFirstParts ==
    ASSUME NEW S, NEW s \in Seq(S), NEW h, \A i, j \in 1 .. Len(s) : s[j] = s[i] => j = i
    PROVE  /\ RemoveFirst(s, h) \in Seq(S)
           /\ \A i \in 1 .. Len(RemoveFirst(s, h)) :
                  /\ \E k \in 1 .. Len(s) : RemoveFirst(s, h)[i] = s[k]
                  /\ RemoveFirst(s, h)[i] # h
                  /\ \A j \in 1 .. Len(RemoveFirst(s, h)) :
                         RemoveFirst(s, h)[j] = RemoveFirst(s, h)[i] => j = i
<1> DEFINE n == Len(s)
<1>0. n \in Nat /\ \A i \in 1 .. n : s[i] \in S
  BY LenProperties, ElementOfSeq
<1>1. CASE \A i \in 1 .. n : s[i] # h
  <2>1. RemoveFirst(s, h) = s
    BY <1>1 DEF RemoveFirst
  <2> QED BY <1>1, <2>1
<1>2. ASSUME NEW k \in 1 .. n, s[k] = h
      PROVE  RemoveFirst(s, h) = SubSeq(s, 1, k - 1) \o SubSeq(s, k + 1, n)
  <2>1. {i \in 1 .. n : s[i] = h} = {k}
    BY <1>2
  <2>2. Min({k}) = k
    BY <1>0 DEF Min
  <2>3. SelectInSeq(s, LAMBDA v : v = h) = k
    BY <2>1, <2>2 DEF SelectInSeq
  <2> QED BY <1>2, <2>3 DEF RemoveFirst, RemoveAt
<1>3. CASE \E k \in 1 .. n : s[k] = h
  <2>1. PICK k \in 1 .. n : s[k] = h
    BY <1>3
  <2> DEFINE a == SubSeq(s, 1, k - 1)
             b == SubSeq(s, k + 1, n)
  <2>2. /\ a \in Seq(S) /\ Len(a) = k - 1
        /\ \A i \in 1 .. k - 1 : a[i] = s[i]
    BY <1>0, SubSeqProperties
  <2>3. /\ b \in Seq(S) /\ Len(b) = n - k
        /\ \A i \in 1 .. n - k : b[i] = s[k + i]
    BY <1>0, SubSeqProperties
  <2> HIDE DEF a, b
  <2>4. /\ a \o b \in Seq(S) /\ Len(a \o b) = n - 1
        /\ \A i \in 1 .. n - 1 : (a \o b)[i] = IF i < k THEN s[i] ELSE s[i + 1]
    <3>1. /\ a \o b \in Seq(S) /\ Len(a \o b) = Len(a) + Len(b)
          /\ \A i \in 1 .. Len(a) + Len(b) :
                 (a \o b)[i] = IF i <= Len(a) THEN a[i] ELSE b[i - Len(a)]
      <4>1. a \in Seq(S) /\ b \in Seq(S)
        BY <2>2, <2>3
      <4> QED BY <4>1, ConcatProperties
    <3>2. k \in Nat /\ k <= n /\ Len(a) + Len(b) = n - 1
      BY <1>0, <2>2, <2>3
    <3>3. ASSUME NEW i \in 1 .. n - 1
          PROVE  (a \o b)[i] = IF i < k THEN s[i] ELSE s[i + 1]
      <4>1. CASE i < k
        BY <1>0, <2>2, <3>1, <3>2, <4>1
      <4>2. CASE ~(i < k)
        <5>1. (a \o b)[i] = b[i - (k - 1)]
          BY <1>0, <2>2, <3>1, <3>2, <4>2
        <5>2. i - (k - 1) \in 1 .. n - k /\ k + (i - (k - 1)) = i + 1
          BY <1>0, <3>2, <4>2
        <5> QED BY <2>3, <4>2, <5>1, <5>2
      <4> QED BY <4>1, <4>2
    <3> QED BY <3>1, <3>2, <3>3
  <2>5. RemoveFirst(s, h) = a \o b
    BY <1>2, <2>1 DEF a, b
  <2> DEFINE w == a \o b
             at(i) == IF i < k THEN i ELSE i + 1
  <2>6. ASSUME NEW i \in 1 .. n - 1
        PROVE  at(i) \in 1 .. n /\ at(i) # k /\ w[i] = s[at(i)]
    BY <1>0, <2>4
  <2>7. \A i, j \in 1 .. n - 1 : at(i) = at(j) => j = i
    BY <1>0
  <2>8. \A i, j \in 1 .. n : s[j] = s[i] => j = i
    OBVIOUS
  <2>9. w \in Seq(S) /\ Len(w) = n - 1 /\ RemoveFirst(s, h) = w
    BY <2>4, <2>5
  <2> HIDE DEF w, at
  <2>10. ASSUME NEW i \in 1 .. n - 1
         PROVE  /\ \E j \in 1 .. n : w[i] = s[j]
                /\ w[i] # h
                /\ \A j \in 1 .. n - 1 : w[j] = w[i] => j = i
    <3>1. w[i] = s[at(i)] /\ at(i) \in 1 .. n /\ at(i) # k
      BY <2>6
    <3>2. w[i] # h
      BY <2>1, <2>8, <3>1
    <3>3. ASSUME NEW j \in 1 .. n - 1, w[j] = w[i] PROVE j = i
      <4>1. w[j] = s[at(j)] /\ at(j) \in 1 .. n
        BY <2>6
      <4>2. at(j) = at(i)
        BY <2>8, <3>1, <3>3, <4>1
      <4> QED BY <2>7, <4>2
    <3> QED BY <3>1, <3>2, <3>3
  <2> QED BY <2>9, <2>10
<1> QED BY <1>1, <1>3

LEMMA WithoutHolds ==
    ASSUME NEW r \in Registry, NEW s \in Seq(Nat), NEW t, NEW once, NEW h,
           Holds(r, s, t, once)
    PROVE  /\ Without(s, h) \in Seq(Nat)
           /\ \A i \in 1 .. Len(Without(s, h)) :
                  /\ \E k \in 1 .. Len(s) : Without(s, h)[i] = s[k]
                  /\ Without(s, h)[i] # h
                  /\ \A j \in 1 .. Len(Without(s, h)) :
                         Without(s, h)[j] = Without(s, h)[i] => j = i
BY RemoveFirstParts DEF Without, Holds

(* Appending a handler of its own to a list.                               *)
LEMMA AppendHolds ==
    ASSUME NEW r \in Registry, NEW q \in Registry, NEW s \in Seq(Nat), NEW t, NEW once,
           NEW h \in Nat, h \notin 1 .. Len(r.added), Holds(r, s, t, once),
           q.added = Append(r.added, [type |-> t, once |-> once]), h = Len(r.added) + 1,
           q.removed = r.removed, h \notin r.removed, [type |-> t, once |-> once] \in Handler
    PROVE  Append(s, h) \in Seq(Nat) /\ Holds(q, Append(s, h), t, once)
<1>1. /\ Len(r.added) \in Nat /\ Len(q.added) = Len(r.added) + 1
      /\ \A i \in 1 .. Len(r.added) : q.added[i] = r.added[i]
      /\ q.added[h] = [type |-> t, once |-> once]
  BY AppendProperties, LenProperties DEF Registry
<1>2. /\ Append(s, h) \in Seq(Nat) /\ Len(s) \in Nat /\ Len(Append(s, h)) = Len(s) + 1
      /\ \A i \in 1 .. Len(s) : Append(s, h)[i] = s[i]
      /\ Append(s, h)[Len(s) + 1] = h
  BY AppendProperties, LenProperties
<1> QED BY <1>1, <1>2 DEF Holds

(* A list stays what it is while handlers are added and others removed.    *)
LEMMA HoldsStays ==
    ASSUME NEW r \in Registry, NEW q \in Registry, NEW s \in Seq(Nat), NEW t, NEW once,
           Holds(r, s, t, once), Len(r.added) <= Len(q.added),
           \A i \in 1 .. Len(r.added) : q.added[i] = r.added[i],
           \A i \in 1 .. Len(s) : s[i] \in q.removed => s[i] \in r.removed
    PROVE  Holds(q, s, t, once)
<1>1. Len(r.added) \in Nat /\ Len(q.added) \in Nat
  BY LenProperties DEF Registry
<1> QED BY <1>1 DEF Holds

(* The parts of a Registry.                                                *)
LEMMA RegistryParts ==
    ASSUME RInv
    PROVE  /\ Len(registry.added) \in Nat /\ Len(calls) = Len(registry.added)
           /\ \A h \in 1 .. Len(registry.added) : calls[h] \in Nat /\ registry.added[h] \in Handler
           /\ \A t \in Types : /\ registry.handlers[t] \in Seq(Nat)
                               /\ registry.onceHandlers[t] \in Seq(Nat)
                               /\ Len(registry.handlers[t]) \in Nat
                               /\ Len(registry.onceHandlers[t]) \in Nat
           /\ \A d \in Dispatchers : /\ dispatch[d] \in Dispatch
                                     /\ dispatch[d].snapshot \in Seq(Nat)
                                     /\ Len(dispatch[d].snapshot) \in Nat
<1>1. registry \in Registry /\ dispatch \in [Dispatchers -> Dispatch] /\ calls \in Seq(Nat)
      /\ Len(calls) = Len(registry.added)
  BY DEF RInv, RegistryTyped
<1>2. /\ registry.added \in Seq(Handler)
      /\ \A t \in Types : registry.handlers[t] \in Seq(Nat) /\ registry.onceHandlers[t] \in Seq(Nat)
  BY <1>1 DEF Registry
<1>3. \A d \in Dispatchers : dispatch[d] \in Dispatch /\ dispatch[d].snapshot \in Seq(Nat)
  BY <1>1 DEF Dispatch
<1>4. \A x \in Seq(Nat) : Len(x) \in Nat
  BY LenProperties
<1> QED BY <1>1, <1>2, <1>3, <1>4, LenProperties, ElementOfSeq

LEMMA RegisterKept ==
    ASSUME RInv, NEW t \in Types, NEW once \in BOOLEAN, Register(t, once)
    PROVE  RInv'
<1> DEFINE r == registry
           q == registry'
           n == Len(registry.added)
           h == n + 1
           new == [type |-> t, once |-> once]
<1>1. /\ r \in Registry /\ r.removed \subseteq 1 .. n /\ n \in Nat
      /\ dispatch' = dispatch /\ calls' = Append(calls, 0)
  BY RegistryParts DEF RInv, RegistryTyped, Register
<1>2. new \in Handler
  BY DEF Handler
<1>3. /\ Append(r.added, new) \in Seq(Handler) /\ Len(Append(r.added, new)) = h
      /\ \A i \in 1 .. n : Append(r.added, new)[i] = r.added[i]
      /\ Append(r.added, new)[h] = new
  BY <1>1, <1>2, AppendProperties DEF Registry
<1>4. h \in Nat /\ \A u \in Types : /\ Append(r.handlers[u], h) \in Seq(Nat)
                                   /\ Append(r.onceHandlers[u], h) \in Seq(Nat)
  BY <1>1, RegistryParts, AppendProperties
<1>5. /\ q \in Registry /\ q.added = Append(r.added, new) /\ q.removed = r.removed
      /\ \A u \in Types :
            /\ q.handlers[u] = IF u = t /\ ~once THEN Append(r.handlers[u], h) ELSE r.handlers[u]
            /\ q.onceHandlers[u] = IF u = t /\ once THEN Append(r.onceHandlers[u], h)
                                   ELSE r.onceHandlers[u]
  BY <1>1, <1>3, <1>4 DEF Register, Registry
<1>6. /\ calls' \in Seq(Nat) /\ Len(calls') = h
      /\ \A i \in 1 .. n : calls'[i] = calls[i]
      /\ calls'[h] = 0
  BY <1>1, RegistryParts, AppendProperties DEF RInv, RegistryTyped
<1>7. RegistryTyped'
  BY <1>1, <1>3, <1>5, <1>6 DEF RInv, RegistryTyped
<1>8. Listed(registry')
  <2>1. h \notin 1 .. n /\ h \notin r.removed
    BY <1>1
  <2>2. ASSUME NEW u \in Types, NEW o \in BOOLEAN, NEW s \in Seq(Nat), Holds(r, s, u, o)
        PROVE  Holds(q, s, u, o)
    <3>1. /\ q \in Registry /\ Len(r.added) <= Len(q.added) /\ q.removed = r.removed
          /\ \A i \in 1 .. Len(r.added) : q.added[i] = r.added[i]
      BY <1>1, <1>3, <1>5
    <3> HIDE DEF r, q
    <3> QED BY <1>1, <2>2, <3>1, HoldsStays
  <2>3. ASSUME NEW s \in Seq(Nat), Holds(r, s, t, once)
        PROVE  Holds(q, Append(s, h), t, once)
    BY <1>1, <1>2, <1>4, <1>5, <2>1, <2>3, AppendHolds
  <2>4. \A u \in Types : /\ r.handlers[u] \in Seq(Nat) /\ r.onceHandlers[u] \in Seq(Nat)
                         /\ Holds(r, r.handlers[u], u, FALSE) /\ Holds(r, r.onceHandlers[u], u, TRUE)
    BY RegistryParts DEF RInv, Listed
  <2>5. \A u \in Types : Holds(q, q.handlers[u], u, FALSE)
    <3> SUFFICES ASSUME NEW u \in Types PROVE Holds(q, q.handlers[u], u, FALSE)
      OBVIOUS
    <3>1. CASE u = t /\ ~once
      BY <1>5, <2>3, <2>4, <3>1
    <3>2. CASE ~(u = t /\ ~once)
      BY <1>5, <2>2, <2>4, <3>2
    <3> QED BY <3>1, <3>2
  <2>6. \A u \in Types : Holds(q, q.onceHandlers[u], u, TRUE)
    <3> SUFFICES ASSUME NEW u \in Types PROVE Holds(q, q.onceHandlers[u], u, TRUE)
      OBVIOUS
    <3>1. CASE u = t /\ once
      BY <1>5, <2>3, <2>4, <3>1
    <3>2. CASE ~(u = t /\ once)
      BY <1>5, <2>2, <2>4, <3>2
    <3> QED BY <3>1, <3>2
  <2> QED BY <2>5, <2>6 DEF Listed
<1>9. OnceOnly'
  BY <1>1, <1>3, <1>5, <1>6, RegistryParts DEF RInv, OnceOnly
<1>10. Removed'
  BY <1>1, <1>5 DEF RInv, Removed
<1>11. ASSUME NEW u \in Types, NEW j \in 1 .. Len(q.onceHandlers[u])
       PROVE  \/ q.onceHandlers[u][j] = h
              \/ j \in 1 .. Len(r.onceHandlers[u]) /\ q.onceHandlers[u][j] = r.onceHandlers[u][j]
  <2>1. CASE u = t /\ once
    <3>1. /\ Len(Append(r.onceHandlers[u], h)) = Len(r.onceHandlers[u]) + 1
          /\ \A i \in 1 .. Len(r.onceHandlers[u]) :
                 Append(r.onceHandlers[u], h)[i] = r.onceHandlers[u][i]
          /\ Append(r.onceHandlers[u], h)[Len(r.onceHandlers[u]) + 1] = h
      BY <1>4, RegistryParts, AppendProperties
    <3>2. q.onceHandlers[u] = Append(r.onceHandlers[u], h) /\ Len(r.onceHandlers[u]) \in Nat
      BY <1>5, <2>1, RegistryParts
    <3>3. \/ j \in 1 .. Len(r.onceHandlers[u])
          \/ j = Len(r.onceHandlers[u]) + 1
      BY <1>11, <3>1, <3>2
    <3> QED BY <3>1, <3>2, <3>3
  <2>2. CASE ~(u = t /\ once)
    <3>1. q.onceHandlers[u] = r.onceHandlers[u]
      BY <1>5, <2>2
    <3> QED BY <1>11, <3>1
  <2> QED BY <2>1, <2>2
<1>12. \A u \in Types : \A j \in 1 .. Len(r.onceHandlers[u]) : r.onceHandlers[u][j] \in 1 .. n
  BY DEF RInv, Listed, Holds
<1>13. Pending'
  <2>1. ASSUME NEW u \in Types, NEW j \in 1 .. Len(q.onceHandlers[u])
        PROVE  calls'[q.onceHandlers[u][j]] = 0
    <3>1. CASE q.onceHandlers[u][j] = h
      BY <1>6, <3>1
    <3>2. CASE j \in 1 .. Len(r.onceHandlers[u]) /\ q.onceHandlers[u][j] = r.onceHandlers[u][j]
      <4>1. calls[r.onceHandlers[u][j]] = 0
        BY <3>2 DEF RInv, Pending, Single
      <4> QED BY <1>6, <1>12, <3>2, <4>1
    <3> QED BY <1>11, <3>1, <3>2
  <2>2. ASSUME NEW d \in Dispatchers, NEW i \in 1 .. Len(dispatch[d].snapshot)
        PROVE  LET x == dispatch[d].snapshot[i] IN
               /\ x \in 1 .. Len(q.added)
               /\ q.added[x].once =>
                     /\ calls'[x] = 0
                     /\ \A u \in Types : \A j \in 1 .. Len(q.onceHandlers[u]) :
                            q.onceHandlers[u][j] # x
                     /\ \A c \in Dispatchers : \A j \in 1 .. Len(dispatch[c].snapshot) :
                            dispatch[c].snapshot[j] = x => c = d /\ j = i
    <3> DEFINE x == dispatch[d].snapshot[i]
    <3>1. /\ x \in 1 .. n
          /\ r.added[x].once =>
                /\ calls[x] = 0
                /\ \A u \in Types : \A j \in 1 .. Len(r.onceHandlers[u]) :
                       r.onceHandlers[u][j] # x
                /\ \A c \in Dispatchers : \A j \in 1 .. Len(dispatch[c].snapshot) :
                       dispatch[c].snapshot[j] = x => c = d /\ j = i
      BY DEF RInv, Pending, Single
    <3>2. x \in 1 .. Len(q.added) /\ q.added[x] = r.added[x] /\ calls'[x] = calls[x] /\ x # h
      BY <1>1, <1>3, <1>5, <1>6, <3>1
    <3> QED BY <1>11, <3>1, <3>2
  <2>3. dispatch' = dispatch
    BY <1>1
  <2>4. ASSUME NEW d \in Dispatchers, NEW i \in 1 .. Len(dispatch'[d].snapshot)
        PROVE  Single(registry', calls', dispatch', d, i)
    BY <2>2, <2>3 DEF Single
  <2> QED BY <2>1, <2>4 DEF Pending
<1> QED BY <1>7, <1>8, <1>9, <1>10, <1>13 DEF RInv

LEMMA RemoveKept ==
    ASSUME RInv, NEW h \in Nat, removeEventHandlerInstance(h)
    PROVE  RInv'
<1> DEFINE r == registry
           q == registry'
           t == registry.added[h].type
           n == Len(registry.added)
<1>1. /\ r \in Registry /\ n \in Nat /\ h \in 1 .. n /\ h \notin r.removed /\ t \in Types
      /\ dispatch' = dispatch /\ calls' = calls
  <2>1. h \in 1 .. n /\ h \notin r.removed /\ dispatch' = dispatch /\ calls' = calls
    BY DEF removeEventHandlerInstance
  <2> QED BY <2>1, RegistryParts DEF RInv, RegistryTyped, Handler
<1>2. \A u \in Types : /\ Holds(r, r.handlers[u], u, FALSE) /\ Holds(r, r.onceHandlers[u], u, TRUE)
                       /\ r.handlers[u] \in Seq(Nat) /\ r.onceHandlers[u] \in Seq(Nat)
  BY RegistryParts DEF RInv, Listed
<1>3. Without(r.handlers[t], h) \in Seq(Nat) /\ Without(r.onceHandlers[t], h) \in Seq(Nat)
  <2>1. /\ Holds(r, r.handlers[t], t, FALSE) /\ r.handlers[t] \in Seq(Nat)
        /\ Holds(r, r.onceHandlers[t], t, TRUE) /\ r.onceHandlers[t] \in Seq(Nat)
    BY <1>1, <1>2
  <2> HIDE DEF t
  <2>2. Without(r.handlers[t], h) \in Seq(Nat)
    BY <1>1, <2>1, WithoutHolds
  <2>3. Without(r.onceHandlers[t], h) \in Seq(Nat)
    BY <1>1, <2>1, WithoutHolds
  <2> QED BY <2>2, <2>3
<1>4. /\ q \in Registry /\ q.added = r.added /\ q.removed = r.removed \cup {h}
      /\ \A u \in Types :
            /\ q.handlers[u] = IF u = t THEN Without(r.handlers[u], h) ELSE r.handlers[u]
            /\ q.onceHandlers[u] = IF u = t THEN Without(r.onceHandlers[u], h)
                                   ELSE r.onceHandlers[u]
  BY <1>1, <1>3 DEF removeEventHandlerInstance, Unregistered, Registry
<1>5. RegistryTyped'
  BY <1>1, <1>4 DEF RInv, RegistryTyped
(* Whatever is left in the lists was there before.                         *)
<1>6. ASSUME NEW s \in Seq(Nat), NEW u \in Types, NEW o \in BOOLEAN, Holds(r, s, u, o)
      PROVE  LET w == IF u = t THEN Without(s, h) ELSE s IN
             /\ Holds(q, w, u, o)
             /\ \A i \in 1 .. Len(w) : \E k \in 1 .. Len(s) : w[i] = s[k]
  <2>1. CASE u = t
    <3>1. /\ \A i \in 1 .. Len(Without(s, h)) :
                /\ \E k \in 1 .. Len(s) : Without(s, h)[i] = s[k]
                /\ Without(s, h)[i] # h
                /\ \A j \in 1 .. Len(Without(s, h)) :
                       Without(s, h)[j] = Without(s, h)[i] => j = i
      BY <1>1, <1>6, WithoutHolds
    <3>2. q.added = r.added /\ q.removed = r.removed \cup {h}
      BY <1>4
    <3>3. \A k \in 1 .. Len(s) : /\ s[k] \in 1 .. Len(r.added)
                                /\ r.added[s[k]] = [type |-> u, once |-> o]
                                /\ s[k] \notin r.removed
      BY <1>6 DEF Holds
    <3>4. Holds(q, Without(s, h), u, o)
      <4> DEFINE w == Without(s, h)
      <4> HIDE DEF w, r, q
      <4> QED BY <3>1, <3>2, <3>3 DEF Holds, w
    <3> QED BY <2>1, <3>1, <3>4
  <2>2. CASE u # t
    <3>1. \A i \in 1 .. Len(s) : s[i] # h
      BY <1>6, <2>2 DEF Holds
    <3>2. Holds(q, s, u, o)
      BY <1>4, <1>6, <3>1 DEF Holds
    <3> QED BY <2>2, <3>2
  <2> QED BY <2>1, <2>2
<1>7. ASSUME NEW u \in Types PROVE Holds(q, q.handlers[u], u, FALSE)
  <2>1. /\ r.handlers[u] \in Seq(Nat) /\ Holds(r, r.handlers[u], u, FALSE)
        /\ q.handlers[u] = IF u = t THEN Without(r.handlers[u], h) ELSE r.handlers[u]
    BY <1>2, <1>4
  <2> HIDE DEF r, q, t
  <2> QED BY <1>6, <2>1
<1>8. ASSUME NEW u \in Types
      PROVE  /\ Holds(q, q.onceHandlers[u], u, TRUE)
             /\ \A i \in 1 .. Len(q.onceHandlers[u]) : \E k \in 1 .. Len(r.onceHandlers[u]) :
                    q.onceHandlers[u][i] = r.onceHandlers[u][k]
  <2>1. /\ r.onceHandlers[u] \in Seq(Nat) /\ Holds(r, r.onceHandlers[u], u, TRUE)
        /\ q.onceHandlers[u] = IF u = t THEN Without(r.onceHandlers[u], h)
                               ELSE r.onceHandlers[u]
    BY <1>2, <1>4
  <2> DEFINE s == r.onceHandlers[u]
             w == IF u = t THEN Without(s, h) ELSE s
  <2> HIDE DEF r, q, t
  <2>2. /\ Holds(q, w, u, TRUE)
        /\ \A i \in 1 .. Len(w) : \E k \in 1 .. Len(s) : w[i] = s[k]
    BY <1>6, <2>1
  <2>3. q.onceHandlers[u] = w
    BY <2>1
  <2> HIDE DEF w
  <2> QED BY <2>2, <2>3
<1>9. OnceOnly' /\ Removed'
  BY <1>1, <1>4 DEF RInv, OnceOnly, Removed
<1>10. Pending'
  <2>1. ASSUME NEW u \in Types, NEW j \in 1 .. Len(q.onceHandlers[u])
        PROVE  calls[q.onceHandlers[u][j]] = 0
    <3>1. PICK k \in 1 .. Len(r.onceHandlers[u]) : q.onceHandlers[u][j] = r.onceHandlers[u][k]
      BY <1>8
    <3> QED BY <3>1 DEF RInv, Pending, Single
  <2>2. ASSUME NEW d \in Dispatchers, NEW i \in 1 .. Len(dispatch[d].snapshot)
        PROVE  LET x == dispatch[d].snapshot[i] IN
               /\ x \in 1 .. Len(r.added)
               /\ r.added[x].once =>
                     /\ calls[x] = 0
                     /\ \A u \in Types : \A j \in 1 .. Len(q.onceHandlers[u]) :
                            q.onceHandlers[u][j] # x
                     /\ \A c \in Dispatchers : \A j \in 1 .. Len(dispatch[c].snapshot) :
                            dispatch[c].snapshot[j] = x => c = d /\ j = i
    <3> DEFINE x == dispatch[d].snapshot[i]
    <3>1. /\ x \in 1 .. n
          /\ r.added[x].once =>
                /\ calls[x] = 0
                /\ \A u \in Types : \A j \in 1 .. Len(r.onceHandlers[u]) :
                       r.onceHandlers[u][j] # x
                /\ \A c \in Dispatchers : \A j \in 1 .. Len(dispatch[c].snapshot) :
                       dispatch[c].snapshot[j] = x => c = d /\ j = i
      BY DEF RInv, Pending, Single
    <3>2. ASSUME NEW u \in Types, NEW j \in 1 .. Len(q.onceHandlers[u]), r.added[x].once
          PROVE  q.onceHandlers[u][j] # x
      <4>1. PICK k \in 1 .. Len(r.onceHandlers[u]) : q.onceHandlers[u][j] = r.onceHandlers[u][k]
        BY <1>8, <3>2
      <4>2. r.onceHandlers[u][k] # x
        BY <3>1, <3>2
      <4> QED BY <4>1, <4>2
    <3> HIDE DEF x
    <3> QED BY <3>1, <3>2 DEF x
  <2> QED BY <1>1, <1>4, <2>1, <2>2 DEF Pending, Single
<1> QED BY <1>5, <1>7, <1>8, <1>9, <1>10 DEF RInv, Listed

LEMMA EndedParts ==
    ASSUME NEW x \in Dispatch
    PROVE  /\ Ended(x) \in Dispatch /\ Ended(x).snapshot = x.snapshot
           /\ Ended(x).removed \subseteq x.removed
<1>1. Idle \in Dispatch
  BY EmptySeq DEF Idle, Dispatch
<1> QED BY <1>1 DEF Ended, Idle, Dispatch

(* A dispatcher goes on while the registry stays: its snapshot is a part of*)
(* what it was.                                                            *)
LEMMA DispatchKept ==
    ASSUME RInv, UNCHANGED <<registry, calls>>, NEW d \in Dispatchers, NEW x \in Dispatch,
           dispatch' = [dispatch EXCEPT ![d] = x],
           \/ x.snapshot = << >> /\ x.removed \subseteq registry.removed
           \/ x.snapshot = dispatch[d].snapshot /\ x.removed \subseteq dispatch[d].removed
    PROVE  RInv'
<1>1. RegistryTyped'
  BY DEF RInv, RegistryTyped
<1>2. Listed(registry)' /\ OnceOnly'
  BY DEF RInv, OnceOnly
<1>3. \A c \in Dispatchers : dispatch'[c] = IF c = d THEN x ELSE dispatch[c]
  BY DEF RInv, RegistryTyped
<1>4. \A c \in Dispatchers : \A i \in 1 .. Len(dispatch'[c].snapshot) :
         /\ i \in 1 .. Len(dispatch[c].snapshot)
         /\ dispatch'[c].snapshot[i] = dispatch[c].snapshot[i]
  BY <1>3, EmptySeq
<1>5. Pending'
  <2>1. ASSUME NEW c \in Dispatchers, NEW i \in 1 .. Len(dispatch'[c].snapshot)
        PROVE  Single(registry, calls, dispatch', c, i)
    <3>1. i \in 1 .. Len(dispatch[c].snapshot) /\ dispatch'[c].snapshot[i] = dispatch[c].snapshot[i]
      BY <1>4
    <3>2. Single(registry, calls, dispatch, c, i)
      BY <3>1 DEF RInv, Pending
    <3> QED BY <1>4, <3>1, <3>2 DEF Single
  <2>2. registry' = registry /\ calls' = calls
    OBVIOUS
  <2> QED BY <2>1, <2>2 DEF RInv, Pending
<1>6. Removed'
  <2>1. \A c \in Dispatchers : dispatch'[c].removed \subseteq registry.removed
    BY <1>3 DEF RInv, Removed
  <2>2. \A c \in Dispatchers : \A i \in 1 .. Len(dispatch'[c].snapshot) :
           dispatch'[c].snapshot[i] \notin dispatch'[c].removed
    BY <1>3, <1>4, EmptySeq DEF RInv, Removed
  <2> QED BY <2>1, <2>2 DEF Removed
<1> QED BY <1>1, <1>2, <1>5, <1>6 DEF RInv

LEMMA BeginKept ==
    ASSUME RInv, NEW d \in Dispatchers, NEW e, NEW passes \in Seq(Types),
           Begin(d, e, passes), UNCHANGED <<registry, calls>>
    PROVE  RInv'
<1> DEFINE x == [dispatch[d] EXCEPT !.passes = passes, !.removed = registry.removed]
<1>1. dispatch[d] \in Dispatch /\ registry.removed \in SUBSET Nat
  BY RegistryParts DEF RInv, RegistryTyped, Registry
<1>2. x \in Dispatch /\ x.snapshot = << >> /\ x.removed = registry.removed
  <2>1. dispatch[d].snapshot = << >>
    BY DEF Begin, Idle
  <2> QED BY <1>1, <2>1 DEF Dispatch
<1>3. dispatch' = [dispatch EXCEPT ![d] = x]
  BY <1>1 DEF Begin, RInv, RegistryTyped
<1> HIDE DEF x
<1> QED BY <1>2, <1>3, DispatchKept

LEMMA HandlerEndsKept ==
    ASSUME RInv, NEW d \in Dispatchers, HandlerEnds(d) PROVE RInv'
<1> DEFINE x == [dispatch[d] EXCEPT !.running = FALSE]
<1>1. x \in Dispatch /\ x.snapshot = dispatch[d].snapshot /\ x.removed = dispatch[d].removed
  BY RegistryParts DEF Dispatch
<1>2. dispatch' = [dispatch EXCEPT ![d] = Ended(x)] /\ UNCHANGED <<registry, calls>>
  BY DEF HandlerEnds
<1> HIDE DEF x
<1> QED BY <1>1, <1>2, EndedParts, DispatchKept

(* The handlers of a snapshot: those of a type, then its once handlers.    *)
Joined(s, a, b) ==
    /\ s \in Seq(Nat) /\ Len(a) \in Nat /\ Len(b) \in Nat /\ Len(s) = Len(a) + Len(b)
    /\ \A i \in 1 .. Len(a) + Len(b) : s[i] = IF i <= Len(a) THEN a[i] ELSE b[i - Len(a)]

OnceIn(r, s, b, t, i) ==
    r.added[s[i]].once =>
        /\ r.added[s[i]].type = t
        /\ \E k \in 1 .. Len(b) : s[i] = b[k]
        /\ \A j \in 1 .. Len(s) : s[j] = s[i] => j = i

LEMMA JoinedHolds ==
    ASSUME NEW r \in Registry, NEW s, NEW a, NEW b, NEW t, Joined(s, a, b),
           Holds(r, a, t, FALSE), Holds(r, b, t, TRUE), NEW i \in 1 .. Len(s)
    PROVE  /\ s[i] \in 1 .. Len(r.added) /\ s[i] \notin r.removed
           /\ OnceIn(r, s, b, t, i)
<1>1. /\ Len(a) \in Nat /\ Len(b) \in Nat /\ Len(s) = Len(a) + Len(b)
      /\ \A j \in 1 .. Len(a) + Len(b) : s[j] = IF j <= Len(a) THEN a[j] ELSE b[j - Len(a)]
  BY DEF Joined
<1>2. ASSUME NEW j \in 1 .. Len(s)
      PROVE  \/ /\ j \in 1 .. Len(a) /\ s[j] = a[j]
                /\ r.added[s[j]] = [type |-> t, once |-> FALSE]
             \/ /\ j - Len(a) \in 1 .. Len(b) /\ s[j] = b[j - Len(a)]
                /\ r.added[s[j]] = [type |-> t, once |-> TRUE]
  <2>1. CASE j <= Len(a)
    <3>1. j \in 1 .. Len(a) /\ s[j] = a[j]
      BY <1>1, <1>2, <2>1
    <3>2. r.added[a[j]] = [type |-> t, once |-> FALSE]
      BY <3>1 DEF Holds
    <3> QED BY <3>1, <3>2
  <2>2. CASE ~(j <= Len(a))
    <3>1. j - Len(a) \in 1 .. Len(b) /\ s[j] = b[j - Len(a)]
      BY <1>1, <1>2, <2>2
    <3>2. r.added[b[j - Len(a)]] = [type |-> t, once |-> TRUE]
      BY <3>1 DEF Holds
    <3> QED BY <3>1, <3>2
  <2> QED BY <2>1, <2>2
<1>4. s[i] \in 1 .. Len(r.added) /\ s[i] \notin r.removed
  BY <1>2 DEF Holds
<1>5. ASSUME r.added[s[i]] # [type |-> t, once |-> FALSE]
      PROVE  /\ r.added[s[i]].type = t
             /\ \E k \in 1 .. Len(b) : s[i] = b[k]
             /\ \A j \in 1 .. Len(s) : s[j] = s[i] => j = i
  <2>1. /\ i - Len(a) \in 1 .. Len(b) /\ s[i] = b[i - Len(a)]
        /\ r.added[s[i]] = [type |-> t, once |-> TRUE]
    BY <1>2, <1>5
  <2>2. ASSUME NEW j \in 1 .. Len(s), s[j] = s[i] PROVE j = i
    <3>1. j - Len(a) \in 1 .. Len(b) /\ s[j] = b[j - Len(a)]
      BY <1>2, <1>5, <2>2
    <3>2. j - Len(a) = i - Len(a)
      BY <2>1, <2>2, <3>1 DEF Holds
    <3>3. i \in Int /\ j \in Int
      OBVIOUS
    <3> QED BY <1>1, <3>2, <3>3
  <2> QED BY <2>1, <2>2
<1>6. r.added[s[i]].once => r.added[s[i]] # [type |-> t, once |-> FALSE]
  OBVIOUS
<1> QED BY <1>4, <1>5, <1>6 DEF OnceIn

LEMMA SnapshotKept ==
    ASSUME RInv, NEW d \in Dispatchers, snapshotEventHandlers(d) PROVE RInv'
<1> DEFINE r == registry
           q == registry'
           n == Len(registry.added)
           t == Head(dispatch[d].passes)
           a == registry.handlers[t]
           b == registry.onceHandlers[t]
           s == a \o b
           x == [dispatch[d] EXCEPT !.passes = Tail(@), !.snapshot = s]
<1>1. /\ t \in Types /\ Tail(dispatch[d].passes) \in Seq(Types)
      /\ dispatch[d] \in Dispatch /\ r \in Registry
  <2>1. dispatch[d] \in Dispatch /\ dispatch[d].passes # << >>
    BY RegistryParts DEF snapshotEventHandlers
  <2> QED BY <2>1, HeadTailProperties DEF Dispatch, RInv, RegistryTyped
<1>2. a \in Seq(Nat) /\ b \in Seq(Nat) /\ Len(a) \in Nat /\ Len(b) \in Nat
  BY <1>1, RegistryParts
<1>3. Holds(r, a, t, FALSE) /\ Holds(r, b, t, TRUE)
  BY <1>1 DEF RInv, Listed
<1>4. /\ s \in Seq(Nat) /\ Len(s) = Len(a) + Len(b)
      /\ \A i \in 1 .. Len(a) + Len(b) : s[i] = IF i <= Len(a) THEN a[i] ELSE b[i - Len(a)]
  BY <1>2, ConcatProperties
<1>5. x \in Dispatch /\ x.snapshot = s /\ x.removed = dispatch[d].removed
  BY <1>1, <1>4 DEF Dispatch
<1>6. /\ q = [r EXCEPT !.onceHandlers[t] = << >>] /\ calls' = calls
      /\ dispatch' = [dispatch EXCEPT ![d] = Ended(x)]
  BY DEF snapshotEventHandlers, Consumed
<1>7. /\ q \in Registry /\ q.added = r.added /\ q.removed = r.removed
      /\ \A u \in Types : /\ q.handlers[u] = r.handlers[u]
                          /\ q.onceHandlers[u] = IF u = t THEN << >> ELSE r.onceHandlers[u]
  BY <1>1, <1>6, EmptySeq DEF Registry
<1>8. Ended(x) \in Dispatch /\ Ended(x).snapshot = s /\ Ended(x).removed \subseteq dispatch[d].removed
  BY <1>5, EndedParts
<1>9. \A c \in Dispatchers : dispatch'[c] = IF c = d THEN Ended(x) ELSE dispatch[c]
  BY <1>6 DEF RInv, RegistryTyped
<1> HIDE DEF x, s
<1>10. RegistryTyped'
  BY <1>6, <1>7, <1>8 DEF RInv, RegistryTyped
<1>11. ASSUME NEW u \in Types
       PROVE  Holds(q, q.handlers[u], u, FALSE) /\ Holds(q, q.onceHandlers[u], u, TRUE)
  <2>1. Holds(r, r.handlers[u], u, FALSE) /\ Holds(r, r.onceHandlers[u], u, TRUE)
    BY DEF RInv, Listed
  <2>2. Holds(q, << >>, u, TRUE)
    BY EmptySeq DEF Holds
  <2>3. Holds(q, r.handlers[u], u, FALSE) /\ Holds(q, r.onceHandlers[u], u, TRUE)
    BY <1>7, <2>1 DEF Holds
  <2> QED BY <1>7, <2>2, <2>3
<1>12. OnceOnly'
  BY <1>6, <1>7 DEF RInv, OnceOnly
<1>13. ASSUME NEW i \in 1 .. Len(s)
       PROVE  /\ s[i] \in 1 .. n /\ s[i] \notin r.removed
              /\ r.added[s[i]].once =>
                    /\ r.added[s[i]].type = t
                    /\ \E k \in 1 .. Len(b) : s[i] = b[k]
                    /\ \A j \in 1 .. Len(s) : s[j] = s[i] => j = i
  <2>1. Joined(s, a, b) /\ r \in Registry
    BY <1>1, <1>2, <1>4 DEF Joined
  <2> HIDE DEF a, b, t
  <2>2. s[i] \in 1 .. n /\ s[i] \notin r.removed /\ OnceIn(r, s, b, t, i)
    BY <1>3, <2>1, JoinedHolds
  <2> QED BY <2>2 DEF OnceIn
<1>14. Removed'
  <2>1. \A c \in Dispatchers : dispatch'[c].removed \subseteq registry'.removed
    BY <1>7, <1>8, <1>9 DEF RInv, Removed
  <2>2. \A c \in Dispatchers : \A i \in 1 .. Len(dispatch'[c].snapshot) :
           dispatch'[c].snapshot[i] \notin dispatch'[c].removed
    <3> SUFFICES ASSUME NEW c \in Dispatchers, NEW i \in 1 .. Len(dispatch'[c].snapshot)
                 PROVE  dispatch'[c].snapshot[i] \notin dispatch'[c].removed
      OBVIOUS
    <3>1. CASE c = d
      BY <1>8, <1>9, <1>13, <3>1 DEF RInv, Removed
    <3>2. CASE c # d
      BY <1>9, <3>2 DEF RInv, Removed
    <3> QED BY <3>1, <3>2
  <2> QED BY <2>1, <2>2 DEF Removed
<1>15. ASSUME NEW k \in 1 .. Len(b) PROVE calls[b[k]] = 0 /\ r.added[b[k]].type = t
  <2>1. calls[b[k]] = 0
    <3>1. Pending
      BY DEF RInv
    <3> QED BY <1>1, <3>1 DEF Pending
  <2>2. r.added[b[k]] = [type |-> t, once |-> TRUE]
    BY <1>3 DEF Holds
  <2> QED BY <2>1, <2>2
<1>16. ASSUME NEW u \in Types, NEW j \in 1 .. Len(q.onceHandlers[u])
       PROVE  /\ u # t /\ q.onceHandlers[u] = r.onceHandlers[u]
              /\ r.added[r.onceHandlers[u][j]].type = u
  <2>1. u # t /\ q.onceHandlers[u] = r.onceHandlers[u]
    BY <1>7, <1>16, EmptySeq
  <2>2. Holds(r, r.onceHandlers[u], u, TRUE)
    BY DEF RInv, Listed
  <2>3. r.added[r.onceHandlers[u][j]] = [type |-> u, once |-> TRUE]
    BY <1>16, <2>1, <2>2 DEF Holds
  <2> QED BY <2>1, <2>3
<1>17. ASSUME NEW c \in Dispatchers, NEW i \in 1 .. Len(dispatch[c].snapshot)
       PROVE  LET h == dispatch[c].snapshot[i] IN
              /\ h \in 1 .. n
              /\ r.added[h].once =>
                    /\ calls[h] = 0
                    /\ \A u \in Types : \A j \in 1 .. Len(r.onceHandlers[u]) :
                           r.onceHandlers[u][j] # h
                    /\ \A k \in Dispatchers : \A j \in 1 .. Len(dispatch[k].snapshot) :
                           dispatch[k].snapshot[j] = h => k = c /\ j = i
  BY DEF RInv, Pending, Single
<1>18. Pending'
  <2>1. ASSUME NEW c \in Dispatchers, NEW i \in 1 .. Len(dispatch'[c].snapshot),
               NEW h, h = dispatch'[c].snapshot[i]
        PROVE  /\ h \in 1 .. n
               /\ r.added[h].once =>
                     /\ calls[h] = 0
                     /\ \A u \in Types : \A j \in 1 .. Len(q.onceHandlers[u]) :
                            q.onceHandlers[u][j] # h
                     /\ \A k \in Dispatchers : \A j \in 1 .. Len(dispatch'[k].snapshot) :
                            dispatch'[k].snapshot[j] = h => k = c /\ j = i
    <3>1. CASE c = d
      <4>1. i \in 1 .. Len(s) /\ h = s[i]
        BY <1>8, <1>9, <2>1, <3>1
      <4>2. SUFFICES ASSUME r.added[h].once
                     PROVE  /\ calls[h] = 0
                            /\ \A u \in Types : \A j \in 1 .. Len(q.onceHandlers[u]) :
                                   q.onceHandlers[u][j] # h
                            /\ \A k \in Dispatchers : \A j \in 1 .. Len(dispatch'[k].snapshot) :
                                   dispatch'[k].snapshot[j] = h => k = c /\ j = i
        BY <1>13, <4>1
      <4>3. PICK m \in 1 .. Len(b) : h = b[m]
        BY <1>13, <4>1, <4>2
      <4>4. calls[h] = 0 /\ r.added[h].type = t
        BY <1>15, <4>3
      <4>5. ASSUME NEW u \in Types, NEW j \in 1 .. Len(q.onceHandlers[u])
            PROVE  q.onceHandlers[u][j] # h
        BY <1>16, <4>4, <4>5
      <4>6. ASSUME NEW k \in Dispatchers, NEW j \in 1 .. Len(dispatch'[k].snapshot),
                   dispatch'[k].snapshot[j] = h
            PROVE  k = c /\ j = i
        <5>1. CASE k = d
          BY <1>8, <1>9, <1>13, <3>1, <4>1, <4>2, <4>6, <5>1
        <5>2. CASE k # d
          <6>1. j \in 1 .. Len(dispatch[k].snapshot) /\ dispatch[k].snapshot[j] = h
            BY <1>9, <4>6, <5>2
          <6>2. \A u \in Types : \A v \in 1 .. Len(r.onceHandlers[u]) :
                   r.onceHandlers[u][v] # dispatch[k].snapshot[j]
            BY <1>17, <4>2, <6>1
          <6> QED BY <1>1, <4>3, <6>1, <6>2
        <5> QED BY <5>1, <5>2
      <4> QED BY <4>4, <4>5, <4>6
    <3>2. CASE c # d
      <4>1. i \in 1 .. Len(dispatch[c].snapshot) /\ h = dispatch[c].snapshot[i]
        BY <1>9, <2>1, <3>2
      <4>2. SUFFICES ASSUME r.added[h].once
                     PROVE  /\ calls[h] = 0
                            /\ \A u \in Types : \A j \in 1 .. Len(q.onceHandlers[u]) :
                                   q.onceHandlers[u][j] # h
                            /\ \A k \in Dispatchers : \A j \in 1 .. Len(dispatch'[k].snapshot) :
                                   dispatch'[k].snapshot[j] = h => k = c /\ j = i
        BY <1>17, <4>1
      <4>3. /\ calls[h] = 0
            /\ \A u \in Types : \A j \in 1 .. Len(r.onceHandlers[u]) : r.onceHandlers[u][j] # h
            /\ \A k \in Dispatchers : \A j \in 1 .. Len(dispatch[k].snapshot) :
                   dispatch[k].snapshot[j] = h => k = c /\ j = i
        BY <1>17, <4>1, <4>2
      <4>4. ASSUME NEW u \in Types, NEW j \in 1 .. Len(q.onceHandlers[u])
            PROVE  q.onceHandlers[u][j] # h
        BY <1>16, <4>3, <4>4
      <4>5. ASSUME NEW k \in Dispatchers, NEW j \in 1 .. Len(dispatch'[k].snapshot),
                   dispatch'[k].snapshot[j] = h
            PROVE  k = c /\ j = i
        <5>1. CASE k = d
          <6>1. j \in 1 .. Len(s) /\ s[j] = h
            BY <1>8, <1>9, <4>5, <5>1
          <6>2. PICK m \in 1 .. Len(b) : h = b[m]
            BY <1>13, <4>2, <6>1
          <6> QED BY <1>1, <4>3, <6>2
        <5>2. CASE k # d
          BY <1>9, <4>3, <4>5, <5>2
        <5> QED BY <5>1, <5>2
      <4> QED BY <4>3, <4>4, <4>5
    <3> QED BY <3>1, <3>2
  <2>2. \A u \in Types : \A j \in 1 .. Len(q.onceHandlers[u]) : calls[q.onceHandlers[u][j]] = 0
    <3>1. Pending
      BY DEF RInv
    <3> QED BY <1>16, <3>1 DEF Pending
  <2>3. q.added = r.added /\ calls' = calls
    BY <1>6, <1>7
  <2> QED BY <2>1, <2>2, <2>3 DEF Pending, Single
<1> QED BY <1>10, <1>11, <1>12, <1>14, <1>18 DEF RInv, Listed

LEMMA CallKept ==
    ASSUME RInv, NEW d \in Dispatchers, callEventHandler(d) PROVE RInv'
<1> DEFINE s == dispatch[d].snapshot
           first == Head(s)
           x == [dispatch[d] EXCEPT !.snapshot = Tail(@), !.running = left.SyncEvents = 1]
           n == Len(registry.added)
<1>1. dispatch[d] \in Dispatch /\ s \in Seq(Nat) /\ s # << >> /\ Len(s) \in Nat
  BY RegistryParts DEF callEventHandler
<1>2. /\ Tail(s) \in Seq(Nat) /\ Len(Tail(s)) = Len(s) - 1
      /\ \A i \in 1 .. Len(Tail(s)) : Tail(s)[i] = s[i + 1]
      /\ 1 \in 1 .. Len(s) /\ first = s[1]
  BY <1>1, HeadTailProperties, EmptySeq
<1>3. x \in Dispatch /\ x.snapshot = Tail(s) /\ x.removed = dispatch[d].removed
  BY <1>1, <1>2 DEF Dispatch
<1>4. /\ calls' = [calls EXCEPT ![first] = @ + 1]
      /\ dispatch' = [dispatch EXCEPT ![d] = Ended(x)]
      /\ UNCHANGED registry
  BY DEF callEventHandler
<1>5. Ended(x) \in Dispatch /\ Ended(x).snapshot = Tail(s)
      /\ Ended(x).removed \subseteq dispatch[d].removed
  BY <1>3, EndedParts
<1>6. \A c \in Dispatchers : dispatch'[c] = IF c = d THEN Ended(x) ELSE dispatch[c]
  BY <1>4 DEF RInv, RegistryTyped
<1> HIDE DEF x
<1>7. /\ first \in 1 .. n
      /\ registry.added[first].once =>
            /\ calls[first] = 0
            /\ \A t \in Types : \A j \in 1 .. Len(registry.onceHandlers[t]) :
                   registry.onceHandlers[t][j] # first
            /\ \A c \in Dispatchers : \A j \in 1 .. Len(dispatch[c].snapshot) :
                   dispatch[c].snapshot[j] = first => c = d /\ j = 1
  BY <1>2 DEF RInv, Pending, Single
<1>8. /\ calls' \in Seq(Nat) /\ Len(calls') = n
      /\ \A h \in 1 .. n : calls'[h] = IF h = first THEN calls[h] + 1 ELSE calls[h]
  <2>1. first \in 1 .. Len(calls) /\ calls[first] + 1 \in Nat /\ Len(calls) = n
    BY <1>7, RegistryParts
  <2> QED BY <1>4, <2>1, ExceptSeq DEF RInv, RegistryTyped
<1>9. RegistryTyped' /\ Listed(registry)'
  BY <1>4, <1>5, <1>8 DEF RInv, RegistryTyped
<1>10. OnceOnly'
  <2>1. ASSUME NEW h \in 1 .. n, registry.added[h].once PROVE calls'[h] <= 1
    <3>1. h \in 1 .. Len(calls)
      BY RegistryParts
    <3>2. calls[h] <= 1
      BY <2>1, <3>1 DEF RInv, OnceOnly
    <3> QED BY <1>7, <1>8, <2>1, <3>2
  <2> QED BY <1>4, <1>8, <2>1 DEF OnceOnly
<1>11. ASSUME NEW c \in Dispatchers, NEW i \in 1 .. Len(dispatch'[c].snapshot)
       PROVE  LET k == IF c = d THEN i + 1 ELSE i IN
              k \in 1 .. Len(dispatch[c].snapshot) /\ dispatch'[c].snapshot[i] = dispatch[c].snapshot[k]
  <2>1. CASE c = d
    <3>1. dispatch'[c].snapshot = Tail(s)
      BY <1>5, <1>6, <2>1
    <3> HIDE DEF s
    <3>2. i + 1 \in 1 .. Len(s) /\ Tail(s)[i] = s[i + 1]
      BY <1>1, <1>2, <1>11, <3>1
    <3> QED BY <2>1, <3>1, <3>2 DEF s
  <2>2. CASE c # d
    BY <1>6, <1>11, <2>2
  <2> QED BY <2>1, <2>2
<1>12. Removed'
  <2>1. \A c \in Dispatchers : dispatch'[c].removed \subseteq registry'.removed
    BY <1>4, <1>5, <1>6 DEF RInv, Removed
  <2>2. ASSUME NEW c \in Dispatchers, NEW i \in 1 .. Len(dispatch'[c].snapshot)
        PROVE  dispatch'[c].snapshot[i] \notin dispatch'[c].removed
    <3>1. PICK k \in 1 .. Len(dispatch[c].snapshot) : dispatch'[c].snapshot[i] = dispatch[c].snapshot[k]
      BY <1>11
    <3>2. dispatch[c].snapshot[k] \notin dispatch[c].removed
      BY DEF RInv, Removed
    <3> QED BY <1>5, <1>6, <3>1, <3>2
  <2> QED BY <2>1, <2>2 DEF Removed
<1>13. Pending'
  <2>1. ASSUME NEW t \in Types, NEW j \in 1 .. Len(registry.onceHandlers[t])
        PROVE  calls'[registry.onceHandlers[t][j]] = 0
    <3>1. /\ registry.onceHandlers[t][j] \in 1 .. n
          /\ registry.added[registry.onceHandlers[t][j]].once
          /\ calls[registry.onceHandlers[t][j]] = 0
      <4>1. Holds(registry, registry.onceHandlers[t], t, TRUE)
        BY DEF RInv, Listed
      <4>2. calls[registry.onceHandlers[t][j]] = 0
        BY DEF RInv, Pending, Single
      <4> QED BY <4>1, <4>2 DEF Holds
    <3> QED BY <1>7, <1>8, <3>1
  <2>2. ASSUME NEW c \in Dispatchers, NEW i \in 1 .. Len(dispatch'[c].snapshot),
               NEW h, h = dispatch'[c].snapshot[i]
        PROVE  /\ h \in 1 .. n
               /\ registry.added[h].once =>
                     /\ calls'[h] = 0
                     /\ \A t \in Types : \A j \in 1 .. Len(registry.onceHandlers[t]) :
                            registry.onceHandlers[t][j] # h
                     /\ \A b \in Dispatchers : \A j \in 1 .. Len(dispatch'[b].snapshot) :
                            dispatch'[b].snapshot[j] = h => b = c /\ j = i
    <3> DEFINE k == IF c = d THEN i + 1 ELSE i
    <3>1. k \in 1 .. Len(dispatch[c].snapshot) /\ h = dispatch[c].snapshot[k]
      BY <1>11, <2>2
    <3>2. /\ h \in 1 .. n
          /\ registry.added[h].once =>
                /\ calls[h] = 0
                /\ \A t \in Types : \A j \in 1 .. Len(registry.onceHandlers[t]) :
                       registry.onceHandlers[t][j] # h
                /\ \A b \in Dispatchers : \A j \in 1 .. Len(dispatch[b].snapshot) :
                       dispatch[b].snapshot[j] = h => b = c /\ j = k
      <4> HIDE DEF k
      <4> QED BY <3>1 DEF RInv, Pending, Single
    <3>3. ASSUME registry.added[h].once PROVE calls'[h] = 0
      <4>1. h # first
        BY <1>7, <3>1, <3>3
      <4> QED BY <1>8, <3>2, <3>3, <4>1
    <3>4. ASSUME registry.added[h].once, NEW b \in Dispatchers,
                 NEW j \in 1 .. Len(dispatch'[b].snapshot), dispatch'[b].snapshot[j] = h
          PROVE  b = c /\ j = i
      <4> DEFINE m == IF b = d THEN j + 1 ELSE j
      <4>1. m \in 1 .. Len(dispatch[b].snapshot) /\ dispatch'[b].snapshot[j] = dispatch[b].snapshot[m]
        BY <1>11
      <4>2. b = c /\ m = k
        BY <3>2, <3>4, <4>1
      <4>3. j \in Int /\ i \in Int
        BY <2>2, <3>4
      <4> QED BY <4>2, <4>3
    <3> QED BY <3>2, <3>3, <3>4
  <2>3. registry' = registry
    BY <1>4
  <2>4. ASSUME NEW c \in Dispatchers, NEW i \in 1 .. Len(dispatch'[c].snapshot)
        PROVE  Single(registry', calls', dispatch', c, i)
    BY <2>2, <2>3 DEF Single
  <2> QED BY <2>1, <2>3, <2>4 DEF Pending
<1> QED BY <1>9, <1>10, <1>12, <1>13 DEF RInv

LEMMA RegistryInit == Init => RInv
<1> SUFFICES ASSUME Init PROVE RInv
  OBVIOUS
<1>1. << >> \in Seq(Nat) /\ << >> \in Seq(Types) /\ << >> \in Seq(Handler) /\ Len(<< >>) = 0
  BY EmptySeq
<1>2. RegistryTyped
  BY <1>1 DEF Init, RegistryTyped, Registry, Dispatch, Idle
<1>3. Listed(registry)
  BY <1>1 DEF Init, Listed, Holds
<1>4. Pending /\ Removed
  BY <1>1 DEF Init, Pending, Single, Removed, Idle
<1>5. OnceOnly
  BY <1>1 DEF Init, OnceOnly
<1> QED BY <1>2, <1>3, <1>4, <1>5 DEF RInv

(* The variables of the registry are left alone.                           *)
LEMMA RegistryStays ==
    ASSUME RInv, UNCHANGED <<registry, dispatch, calls>> PROVE RInv'
BY DEF RInv, RegistryTyped, Pending, OnceOnly, Removed

LEMMA RegistryNext == RInv /\ [Next]_vars => RInv'
<1> SUFFICES ASSUME RInv, [Next]_vars PROVE RInv'
  OBVIOUS
<1>1. ASSUME NEW t \in Types, AddHandler(t) \/ AddHandlerOnce(t) PROVE RInv'
  BY <1>1, RegisterKept DEF AddHandler, AddHandlerOnce
<1>2. ASSUME NEW h \in 1 .. Len(registry.added), removeEventHandlerInstance(h) PROVE RInv'
  BY <1>2, RemoveKept
<1>3. CASE onEvent
  <2>1. <<"interface", "typed", "interface">> \in Seq(Types) /\ Listener \in Dispatchers
    BY DEF Types, Dispatchers
  <2>2. Begin(Listener, Head(stream), <<"interface", "typed", "interface">>)
        /\ UNCHANGED <<registry, calls>>
    BY <1>3 DEF onEvent
  <2> QED BY <2>1, <2>2, BeginKept
<1>4. ASSUME NEW d \in Dispatchers, RateLimitEvent(d) PROVE RInv'
  <2> DEFINE e == [type |-> "RATE_LIMIT", guild |-> CHOOSE g \in Guilds : TRUE]
  <2>1. <<"interface", "rateLimit">> \in Seq(Types)
    BY DEF Types
  <2>2. Begin(d, e, <<"interface", "rateLimit">>) /\ UNCHANGED <<registry, calls>>
    BY <1>4 DEF RateLimitEvent
  <2> HIDE DEF e
  <2> QED BY <2>1, <2>2, BeginKept
<1>5. ASSUME NEW d \in Dispatchers,
             snapshotEventHandlers(d) \/ callEventHandler(d) \/ HandlerEnds(d)
      PROVE  RInv'
  BY <1>5, SnapshotKept, CallKept, HandlerEndsKept
<1>6. ASSUME NEW g \in Guilds,
             \/ Joins(g) \/ Leaves(g) \/ Tells(g)
             \/ \E k \in Kinds, i \in Ids : Changes(g, k, i)
             \/ \E t \in Ids, users \in (SUBSET Ids) \ {{}} : ThreadMember(g, t, users)
             \/ \E c, m \in Ids : Message(g, c, m)
      PROVE  UNCHANGED <<registry, dispatch, calls>>
  <2>1. Joins(g) \/ Leaves(g) \/ Tells(g)
        => UNCHANGED <<registry, dispatch, calls>>
    BY DEF Joins, Leaves, Tells
  <2>2. \A k \in Kinds, i \in Ids : Changes(g, k, i) => UNCHANGED <<registry, dispatch, calls>>
    BY DEF Changes
  <2>3. \A t, users : ThreadMember(g, t, users) => UNCHANGED <<registry, dispatch, calls>>
    BY DEF ThreadMember
  <2>4. \A c, m \in Ids : Message(g, c, m) => UNCHANGED <<registry, dispatch, calls>>
    BY DEF Message
  <2> QED BY <1>6, <2>1, <2>2, <2>3, <2>4
<1>7. ASSUME SessionLost \/ NewSession \/ UNCHANGED vars
      PROVE  UNCHANGED <<registry, dispatch, calls>>
  BY <1>7 DEF SessionLost, NewSession, vars
<1> QED BY <1>1, <1>2, <1>3, <1>4, <1>5, <1>6, <1>7, RegistryStays DEF Next

(* A handler added with AddHandlerOnce is called once, whichever events are*)
(* handled at the same time, and whatever is added and removed meanwhile.  *)
THEOREM OnceHandlersOnce == Spec => []OnceOnly
<1>1. RInv => OnceOnly
  BY DEF RInv
<1> QED BY RegistryInit, RegistryNext, <1>1, PTL DEF Spec

(* An event whose handling begins after the handler's remove function has  *)
(* returned does not call that handler.                                    *)
THEOREM RemovedAreNotCalled == Spec => []RemovedNotCalled
<1>1. RInv => RemovedNotCalled
  <2> SUFFICES ASSUME RInv, NEW d \in Dispatchers, NEW h,
                      h \in Range(dispatch[d].snapshot), h \in dispatch[d].removed
               PROVE  FALSE
    BY DEF RemovedNotCalled
  <2>1. dispatch[d].snapshot \in Seq(Nat)
    BY RegistryParts
  <2>2. DOMAIN dispatch[d].snapshot = 1 .. Len(dispatch[d].snapshot)
    BY <2>1, LenProperties
  <2>3. PICK i \in 1 .. Len(dispatch[d].snapshot) : h = dispatch[d].snapshot[i]
    BY <2>2 DEF Range
  <2> QED BY <2>3 DEF RInv, Removed
<1> QED BY RegistryInit, RegistryNext, <1>1, PTL DEF Spec
-----------------------------------------------------------------------------
(* What the cache holds of a guild, and what Discord has of it.            *)
Slot == [list : Int, map : Int, same : BOOLEAN]
Cached ==
    [known : BOOLEAN, listed : BOOLEAN, unavailable : BOOLEAN, count : Int,
     slots : [Kinds -> [Ids -> Slot]], messages : [Ids -> Seq(Ids)],
     threadMembers : [Ids -> Seq(Ids)]]
States == [Guilds -> Cached]
Guild ==
    [in : BOOLEAN, has : [Kinds -> [Ids -> Nat \cup {Gone}]],
     threadMembers : [Ids -> SUBSET Ids], messages : [Ids -> SUBSET Ids]]

At(s, k, i) == s.slots[k][i]
Messages(s, c) == s.messages[c]
Has(d, k, i) == d.has[k][i]
Said(d, c) == d.messages[c]

(* Only members have a presence.                                           *)
Present(d) == \A u \in Ids : Has(d, "presence", u) > 0 => Has(d, "member", u) > 0

(* A thing that is found where it is listed; one that is found as listed,  *)
(* if it is listed.                                                        *)
Tied(slot) == slot.map = slot.list /\ (slot.list # 0 => slot.same)
Reached(slot) == slot.list # 0 => slot.map = slot.list /\ slot.same

(* A slot as it may be in any state, when Discord has v in its place.      *)
Good(k, slot, v, known, available) ==
    /\ k = "member" => Tied(slot) /\ (~known => slot.list = 0)
    /\ k = "role" => (known /\ available => Tied(slot))
    /\ k \in ChannelKinds => Reached(slot) /\ (slot.map # 0 => v # 0)

(* A thread is listed as it is, or it is archived or in channelMap only.   *)
Threaded(slot, v) ==
    \/ slot.list = v
    \/ slot.list = 0 /\ (Archived(v) \/ slot.map # 0)

(* A slot that shows what Discord has, v.                                  *)
Shown(k, slot, v) ==
    /\ k = "member" => slot.list \in {0} \cup (IF v > 0 THEN {Partial, v} ELSE {})
    /\ k = "presence" => (Online(Version(v)) => slot.list = Version(v))
    /\ k = "thread" => Threaded(slot, Version(v))
    /\ k \notin {"member", "presence", "thread"} => slot.list = Version(v)

Distinct(messages) == \A i, j \in 1 .. Len(messages) : messages[i] = messages[j] => i = j
Chat(messages, v) == (messages # << >> => v # 0) /\ Distinct(messages)

Sound(s, d) ==
    \A i \in Ids :
        /\ \A k \in Kinds : Good(k, At(s, k, i), Has(d, k, i), s.known, ~s.unavailable)
        /\ Chat(Messages(s, i), Has(d, "channel", i))
Mirrored(s, d) ==
    /\ s.known /\ ~s.unavailable
    /\ \A i \in Ids :
          /\ \A k \in Kinds : Shown(k, At(s, k, i), Has(d, k, i))
          /\ Has(d, "channel", i) > 0 => Range(Messages(s, i)) \subseteq Said(d, i)

-----------------------------------------------------------------------------
LEMMA SlotParts ==
    /\ Empty \in Slot /\ Empty.list = 0 /\ Empty.map = 0 /\ Empty.same = FALSE
    /\ \A slot \in Slot : slot.list \in Int /\ slot.map \in Int /\ slot.same \in BOOLEAN
    /\ \A slot \in Slot, v \in Int :
          /\ Put(slot, v) \in Slot /\ Fresh(v) \in Slot /\ Take(slot) \in Slot
          /\ [slot EXCEPT !.list = v] \in Slot
          /\ [slot EXCEPT !.list = v, !.same = FALSE] \in Slot
          /\ [Empty EXCEPT !.list = v] \in Slot
<1>1. Empty \in Slot /\ Empty.list = 0 /\ Empty.map = 0 /\ Empty.same = FALSE
  BY DEF Slot, Empty
<1>2. \A slot \in Slot : slot.list \in Int /\ slot.map \in Int /\ slot.same \in BOOLEAN
  BY DEF Slot
<1>3. ASSUME NEW slot \in Slot, NEW v \in Int
      PROVE  /\ Put(slot, v) \in Slot /\ Fresh(v) \in Slot /\ Take(slot) \in Slot
             /\ [slot EXCEPT !.list = v] \in Slot
             /\ [slot EXCEPT !.list = v, !.same = FALSE] \in Slot
             /\ [Empty EXCEPT !.list = v] \in Slot
  <2>1. Fresh(v) \in Slot
    BY DEF Fresh, Slot
  <2>2. Take(slot) \in Slot
    BY <1>1 DEF Take
  <2>3. Put(slot, v) \in Slot
    BY DEF Put, Slot
  <2>4. [slot EXCEPT !.list = v] \in Slot /\ [slot EXCEPT !.list = v, !.same = FALSE] \in Slot
    BY DEF Slot
  <2>5. [Empty EXCEPT !.list = v] \in Slot
    BY <1>1 DEF Slot
  <2> QED BY <2>1, <2>2, <2>3, <2>4, <2>5
<1> QED BY <1>1, <1>2, <1>3

LEMMA PutShows ==
    ASSUME NEW slot \in Slot, NEW v \in Int, v # 0
    PROVE  /\ Tied(slot) => Tied(Put(slot, v)) /\ Put(slot, v).list = v
           /\ Reached(slot) =>
                 /\ Reached(Put(slot, v))
                 /\ slot.map # 0 => (slot.list # 0 => Put(slot, v).list = v)
                 /\ slot.map = 0 => Put(slot, v).list = v
BY DEF Slot, Put, Tied, Reached

LEMMA TakeHides ==
    ASSUME NEW slot \in Slot
    PROVE  /\ Tied(slot) => Tied(Take(slot)) /\ Take(slot).list = 0
           /\ Reached(slot) => Reached(Take(slot)) /\ Take(slot).list = 0
BY DEF Slot, Take, Tied, Reached, Empty

LEMMA FreshShows ==
    ASSUME NEW v \in Int
    PROVE  Tied(Fresh(v)) /\ Reached(Fresh(v)) /\ Fresh(v).list = v /\ Fresh(v).map = v
BY DEF Fresh, Tied, Reached

LEMMA KindsAre ==
    Kinds = {"channel", "thread", "member", "role", "emoji", "voice", "presence", "sound"}
BY DEF Kinds, ChannelKinds, GuildMaps

LEMMA CachedParts ==
    ASSUME NEW s \in Cached
    PROVE  /\ s.known \in BOOLEAN /\ s.listed \in BOOLEAN /\ s.unavailable \in BOOLEAN
           /\ s.count \in Int /\ s.slots \in [Kinds -> [Ids -> Slot]]
           /\ s.messages \in [Ids -> Seq(Ids)] /\ s.threadMembers \in [Ids -> Seq(Ids)]
           /\ \A k \in Kinds, i \in Ids : At(s, k, i) \in Slot
           /\ \A i \in Ids : Messages(s, i) \in Seq(Ids)
BY DEF Cached, At, Messages

LEMMA GuildParts ==
    ASSUME NEW d \in Guild
    PROVE  /\ d.in \in BOOLEAN
           /\ \A k \in Kinds, i \in Ids : Has(d, k, i) \in Nat \cup {Gone}
           /\ \A i \in Ids : Said(d, i) \in SUBSET Ids
BY DEF Guild, Has, Said

LEMMA Versions ==
    ASSUME NEW v \in Nat \cup {Gone}
    PROVE  /\ v \in Int /\ Version(v) \in Nat
           /\ v > 0 => Version(v) = v
           /\ ~(v > 0) => Version(v) = 0
BY DEF Gone, Version

(* One slot is set: everything else stays.                                 *)
LEMMA SlotSet ==
    ASSUME NEW st \in States, NEW g \in Guilds, NEW k \in Kinds, NEW i \in Ids, NEW slot \in Slot
    PROVE  LET new == Set(st, g, k, i, slot)
               c == new[g]
           IN  /\ new = [st EXCEPT ![g] = c] /\ c \in Cached
               /\ c.known = st[g].known /\ c.unavailable = st[g].unavailable
               /\ c.listed = st[g].listed /\ c.count = st[g].count
               /\ c.messages = st[g].messages
               /\ At(c, k, i) = slot
               /\ \A l \in Kinds, j \in Ids : l # k \/ j # i => At(c, l, j) = At(st[g], l, j)
<1> DEFINE s == st[g]
           new == Set(st, g, k, i, slot)
           slots == [s.slots EXCEPT ![k][i] = slot]
           c == [s EXCEPT !.slots = slots]
<1>1. s \in Cached
  BY DEF States
<1>2. new = [st EXCEPT ![g] = c]
  BY DEF Set
<1>3. new[g] = c
  BY <1>2 DEF States
<1>4. slots \in [Kinds -> [Ids -> Slot]]
  BY <1>1, CachedParts
<1>5. c \in Cached
  BY <1>1, <1>4 DEF Cached
<1>6. /\ c.known = s.known /\ c.unavailable = s.unavailable /\ c.listed = s.listed
      /\ c.count = s.count /\ c.messages = s.messages /\ c.slots = slots
  BY <1>1 DEF Cached
<1>7. slots[k][i] = slot /\ \A l \in Kinds, j \in Ids : l # k \/ j # i => slots[l][j] = s.slots[l][j]
  BY <1>1, CachedParts
<1> HIDE DEF c, slots, new, s
<1>8. At(c, k, i) = slot /\ \A l \in Kinds, j \in Ids : l # k \/ j # i => At(c, l, j) = At(s, l, j)
  BY <1>6, <1>7 DEF At
<1> QED BY <1>2, <1>3, <1>5, <1>6, <1>8 DEF s, new

(* What an event does: only its guild changes, which then shows what       *)
(* Discord has, e, with n members more.                                    *)
Only(st, g, new) == new = [st EXCEPT ![g] = new[g]] /\ new[g] \in Cached
Counts(s, c, n) == c.listed = s.listed /\ c.count = s.count + n
Step(st, g, new, e, n) ==
    Only(st, g, new) /\ Sound(new[g], e) /\ Mirrored(new[g], e) /\ Counts(st[g], new[g], n)

SameSlot(s, c, d, e, k, i) == At(c, k, i) = At(s, k, i) /\ Has(e, k, i) = Has(d, k, i)
SameChat(s, c, d, e, i) ==
    /\ Messages(c, i) = Messages(s, i) /\ Said(e, i) = Said(d, i)
    /\ Has(e, "channel", i) = Has(d, "channel", i)
FineSlot(slot, v, k) == Good(k, slot, v, TRUE, TRUE) /\ Shown(k, slot, v)
FineChat(messages, v, said) == Chat(messages, v) /\ (v > 0 => Range(messages) \subseteq said)

(* Each slot and each channel's messages on their own.                     *)
LEMMA Fine ==
    ASSUME NEW c, NEW e, c.known, ~c.unavailable,
           \A k \in Kinds, i \in Ids : FineSlot(At(c, k, i), Has(e, k, i), k),
           \A i \in Ids : FineChat(Messages(c, i), Has(e, "channel", i), Said(e, i))
    PROVE  Sound(c, e) /\ Mirrored(c, e)
<1>1. \A k \in Kinds, i \in Ids :
          /\ Good(k, At(c, k, i), Has(e, k, i), c.known, ~c.unavailable)
          /\ Shown(k, At(c, k, i), Has(e, k, i))
  BY DEF FineSlot, Good
<1>2. Sound(c, e)
  BY <1>1 DEF Sound, FineChat
<1>3. Mirrored(c, e)
  BY <1>1 DEF Mirrored, FineChat
<1> QED BY <1>2, <1>3

LEMMA FineBefore ==
    ASSUME NEW s, NEW d, Sound(s, d), Mirrored(s, d)
    PROVE  /\ s.known /\ ~s.unavailable
           /\ \A k \in Kinds, i \in Ids : FineSlot(At(s, k, i), Has(d, k, i), k)
           /\ \A i \in Ids : FineChat(Messages(s, i), Has(d, "channel", i), Said(d, i))
<1>1. s.known /\ ~s.unavailable
  BY DEF Mirrored
<1>2. \A k \in Kinds, i \in Ids :
          /\ Good(k, At(s, k, i), Has(d, k, i), s.known, ~s.unavailable)
          /\ Shown(k, At(s, k, i), Has(d, k, i))
  BY DEF Sound, Mirrored
<1>3. \A k \in Kinds, i \in Ids : FineSlot(At(s, k, i), Has(d, k, i), k)
  BY <1>1, <1>2 DEF FineSlot, Good
<1>4. \A i \in Ids : FineChat(Messages(s, i), Has(d, "channel", i), Said(d, i))
  BY DEF Sound, Mirrored, FineChat
<1> QED BY <1>1, <1>3, <1>4

LEMMA Changed ==
    ASSUME NEW s, NEW c, NEW d, NEW e, Sound(s, d), Mirrored(s, d), c.known, ~c.unavailable,
           \A k \in Kinds, i \in Ids :
               SameSlot(s, c, d, e, k, i) \/ FineSlot(At(c, k, i), Has(e, k, i), k),
           \A i \in Ids :
               \/ SameChat(s, c, d, e, i)
               \/ FineChat(Messages(c, i), Has(e, "channel", i), Said(e, i))
    PROVE  Sound(c, e) /\ Mirrored(c, e)
<1>1. \A k \in Kinds, i \in Ids : FineSlot(At(c, k, i), Has(e, k, i), k)
  BY FineBefore DEF SameSlot
<1>2. \A i \in Ids : FineChat(Messages(c, i), Has(e, "channel", i), Said(e, i))
  BY FineBefore DEF SameChat
<1> QED BY <1>1, <1>2, Fine

(* One slot is set.                                                        *)
LEMMA SetStep ==
    ASSUME NEW st \in States, NEW g \in Guilds, NEW k \in Kinds, NEW i \in Ids, NEW slot \in Slot,
           NEW d, NEW e, Sound(st[g], d), Mirrored(st[g], d),
           e.messages = d.messages,
           \A l \in Kinds, j \in Ids : l # k \/ j # i =>
               Has(e, l, j) = Has(d, l, j) \/ (l = "presence" /\ Has(e, l, j) = Gone),
           FineSlot(slot, Has(e, k, i), k),
           k = "channel" => FineChat(Messages(st[g], i), Has(e, "channel", i), Said(e, i))
    PROVE  Step(st, g, Set(st, g, k, i, slot), e, 0)
<1> DEFINE c == Set(st, g, k, i, slot)[g]
<1>1. /\ Only(st, g, Set(st, g, k, i, slot)) /\ c.known = st[g].known
      /\ c.unavailable = st[g].unavailable /\ c.messages = st[g].messages
      /\ c.listed = st[g].listed /\ c.count = st[g].count
      /\ At(c, k, i) = slot
      /\ \A l \in Kinds, j \in Ids : l # k \/ j # i => At(c, l, j) = At(st[g], l, j)
  BY SlotSet DEF Only
<1>2. st[g].known /\ ~st[g].unavailable /\ st[g].count \in Int
  BY FineBefore, CachedParts DEF States
<1>3. \A l \in Kinds, j \in Ids :
          SameSlot(st[g], c, d, e, l, j) \/ FineSlot(At(c, l, j), Has(e, l, j), l)
  <2>1. \A x : FineSlot(x, Gone, "presence")
    BY DEF FineSlot, Good, Shown, ChannelKinds, Online, Version, Gone
  <2> QED BY <1>1, <2>1 DEF SameSlot
<1>4. ASSUME NEW j \in Ids
      PROVE  \/ SameChat(st[g], c, d, e, j)
             \/ FineChat(Messages(c, j), Has(e, "channel", j), Said(e, j))
  <2>1. Messages(c, j) = Messages(st[g], j) /\ Said(e, j) = Said(d, j)
    BY <1>1 DEF Messages, Said
  <2>2. CASE k = "channel" /\ j = i
    BY <2>1, <2>2
  <2>3. CASE ~(k = "channel" /\ j = i)
    BY <2>1, <2>3, KindsAre DEF SameChat
  <2> QED BY <2>2, <2>3
<1> HIDE DEF c
<1>5. Sound(c, e) /\ Mirrored(c, e)
  BY <1>1, <1>2, <1>3, <1>4, Changed
<1>6. Counts(st[g], c, 0)
  BY <1>1, <1>2 DEF Counts
<1> QED BY <1>1, <1>5, <1>6 DEF Step, c

LEMMA ListPutSets ==
    ASSUME NEW st \in States, NEW g \in Guilds, NEW k \in Kinds, NEW i \in Ids, NEW v \in Int,
           st[g].known
    PROVE  ListPut(st, g, k, i, v) = Set(st, g, k, i, [At(st[g], k, i) EXCEPT !.list = v])
BY DEF ListPut, Set, At

LEMMA PutFine ==
    ASSUME NEW slot \in Slot, NEW k \in ChannelKinds \cup {"member", "role"},
           NEW now \in Nat \cup {Gone}, NEW v \in Int, v = Version(now) + 1,
           k \in ChannelKinds => now # Gone, FineSlot(slot, now, k)
    PROVE  FineSlot(Put(slot, v), v, k)
<1>1. v > 0 /\ Version(v) = v /\ v # 0
  BY Versions DEF Version
<1>2. CASE k = "member"
  <2>1. Tied(slot)
    BY <1>2 DEF FineSlot, Good
  <2>2. Tied(Put(slot, v)) /\ Put(slot, v).list = v
    BY <1>1, <2>1, PutShows
  <2> QED BY <1>1, <1>2, <2>2 DEF FineSlot, Good, Shown, ChannelKinds
<1>3. CASE k = "role"
  <2>1. Tied(slot)
    BY <1>3 DEF FineSlot, Good
  <2>2. Tied(Put(slot, v)) /\ Put(slot, v).list = v
    BY <1>1, <2>1, PutShows
  <2> QED BY <1>1, <1>3, <2>2 DEF FineSlot, Good, Shown, ChannelKinds
<1>4. CASE k = "channel"
  <2>1. Reached(slot) /\ (slot.map # 0 => now # 0) /\ slot.list = Version(now)
    BY <1>4 DEF FineSlot, Good, Shown, ChannelKinds
  <2>2. slot.map # 0 => slot.list # 0
    BY <1>4, <2>1, Versions DEF Gone
  <2>3. Reached(Put(slot, v)) /\ Put(slot, v).list = v
    BY <1>1, <2>1, <2>2, PutShows
  <2> QED BY <1>1, <1>4, <2>3 DEF FineSlot, Good, Shown, ChannelKinds
<1>5. CASE k = "thread"
  <2>1. Reached(slot)
    BY <1>5 DEF FineSlot, Good, ChannelKinds
  <2>2. Reached(Put(slot, v)) /\ (Put(slot, v).list = v \/ (Put(slot, v).list = 0 /\ Put(slot, v).map = v))
    BY <1>1, <2>1 DEF Slot, Put, Reached
  <2>3. Threaded(Put(slot, v), v)
    BY <1>1, <2>2 DEF Threaded
  <2> QED BY <1>1, <1>5, <2>2, <2>3 DEF FineSlot, Good, Shown, ChannelKinds
<1> QED BY <1>2, <1>3, <1>4, <1>5 DEF ChannelKinds

LEMMA PutStep ==
    ASSUME NEW st \in States, NEW g \in Guilds, NEW i \in Ids, NEW d \in Guild, NEW e \in Guild,
           NEW k \in ChannelKinds \cup {"member", "role"}, NEW v \in Int,
           Sound(st[g], d), Mirrored(st[g], d), e.messages = d.messages,
           v = Version(Has(d, k, i)) + 1, Has(e, k, i) = v,
           k \in ChannelKinds => Has(d, k, i) # Gone,
           \A l \in Kinds, j \in Ids : l # k \/ j # i => Has(e, l, j) = Has(d, l, j)
    PROVE  Step(st, g, Set(st, g, k, i, Put(At(st[g], k, i), v)), e, 0)
<1>1. k \in Kinds
  BY DEF Kinds, GuildMaps
<1>2. st[g] \in Cached /\ At(st[g], k, i) \in Slot /\ Has(d, k, i) \in Nat \cup {Gone}
  BY <1>1, CachedParts, GuildParts DEF States
<1>3. FineSlot(At(st[g], k, i), Has(d, k, i), k)
  BY <1>1, FineBefore
<1>4. FineSlot(Put(At(st[g], k, i), v), Has(e, k, i), k)
  BY <1>2, <1>3, PutFine
<1>5. Put(At(st[g], k, i), v) \in Slot
  BY <1>2, SlotParts
<1>6. CASE k = "channel"
  <2>1. FineChat(Messages(st[g], i), Has(d, "channel", i), Said(d, i))
    BY FineBefore
  <2>2. Said(e, i) = Said(d, i)
    BY DEF Said
  <2>3. Has(d, "channel", i) # Gone /\ v > 0
    BY <1>2, <1>6, Versions DEF ChannelKinds
  <2>4. Has(d, "channel", i) > 0 \/ Messages(st[g], i) = << >>
    BY <1>2, <1>6, <2>1, <2>3 DEF FineChat, Chat
  <2>5. Range(Messages(st[g], i)) \subseteq Said(d, i)
    <3>1. CASE Messages(st[g], i) = << >>
      BY <3>1 DEF Range
    <3>2. CASE Has(d, "channel", i) > 0
      BY <3>2, <2>1 DEF FineChat
    <3> QED BY <2>4, <3>1, <3>2
  <2>6. FineChat(Messages(st[g], i), Has(e, "channel", i), Said(e, i))
    BY <1>6, <2>1, <2>2, <2>3, <2>5 DEF FineChat, Chat
  <2> QED BY <1>1, <1>4, <1>5, <2>6, SetStep
<1>7. CASE k # "channel"
  BY <1>1, <1>4, <1>5, <1>7, SetStep
<1> QED BY <1>6, <1>7

(* What the handling of an event comes to.                                 *)
More(st, g, n) == [st EXCEPT ![g].count = @ + n]

LEMMA PutHandled ==
    ASSUME NEW st, NEW g, NEW k, NEW i, NEW v, NEW e, st[g].known,
           e.type = "PUT", e.guild = g, e.kind = k, e.id = i, e.v = v
    PROVE  /\ k \in ChannelKinds => OnInterface(st, e) = ChannelAdd(st, g, k, i, v)
           /\ k = "role" => OnInterface(st, e) = RoleAdd(st, g, i, v)
           /\ k = "member" => OnInterface(st, e) = memberAdd(st, g, i, v)
           /\ k = "presence" => OnInterface(st, e) = PresenceUpdate(st, g, i, v)
           /\ k \in {"voice", "sound"} => OnInterface(st, e) = ListPut(st, g, k, i, v)
BY DEF OnInterface, ChannelKinds

LEMMA TakeHandled ==
    ASSUME NEW st, NEW g, NEW k, NEW i, NEW e, st[g].known,
           e.type = "TAKE", e.guild = g, e.kind = k, e.id = i
    PROVE  /\ k \in ChannelKinds => OnInterface(st, e) = ChannelRemove(st, g, k, i)
           /\ k = "role" => OnInterface(st, e) = RoleRemove(st, g, i)
           /\ k \in {"voice", "sound"} => OnInterface(st, e) = ListPut(st, g, k, i, 0)
BY DEF OnInterface, ChannelKinds

LEMMA MemberAddHandled ==
    ASSUME NEW st, NEW g, NEW i, NEW v, NEW n, n = 1, NEW e, st[g].known,
           e.type = "GUILD_MEMBER_ADD", e.guild = g, e.id = i, e.v = v
    PROVE  OnInterface(st, e) = memberAdd(More(st, g, n), g, i, v)
BY DEF OnInterface, More

LEMMA MemberRemoveHandled ==
    ASSUME NEW st, NEW g, NEW i, NEW n, n = -1, NEW e, st[g].known,
           e.type = "GUILD_MEMBER_REMOVE", e.guild = g, e.id = i
    PROVE  OnInterface(st, e) = MemberRemove(More(st, g, n), g, i)
BY DEF OnInterface, More

LEMMA OnPut ==
    ASSUME NEW st, NEW g, NEW k, NEW i, NEW v \in Int, v > 0, st[g].known,
           k # "emoji", k = "member" => v # 1
    PROVE  LET new == OnInterface(st, Change(g, k, i, v)) IN
           /\ k \in ChannelKinds \cup {"role", "member"} =>
                 new = Set(st, g, k, i, Put(At(st[g], k, i), v))
           /\ k \in {"voice", "sound"} => new = ListPut(st, g, k, i, v)
           /\ k = "presence" => new = PresenceUpdate(st, g, i, v)
<1> DEFINE e == Change(g, k, i, v)
<1>1. e = [type |-> "PUT", guild |-> g, kind |-> k, id |-> i, v |-> v]
  BY DEF Change
<1>2. e.type = "PUT" /\ e.guild = g /\ e.kind = k /\ e.id = i /\ e.v = v
  BY <1>1
<1> HIDE DEF e
<1>3. /\ k \in ChannelKinds => OnInterface(st, e) = ChannelAdd(st, g, k, i, v)
      /\ k = "role" => OnInterface(st, e) = RoleAdd(st, g, i, v)
      /\ k = "member" => OnInterface(st, e) = memberAdd(st, g, i, v)
      /\ k = "presence" => OnInterface(st, e) = PresenceUpdate(st, g, i, v)
      /\ k \in {"voice", "sound"} => OnInterface(st, e) = ListPut(st, g, k, i, v)
  BY <1>2, PutHandled
<1>4. /\ ChannelAdd(st, g, k, i, v) = Set(st, g, k, i, Put(At(st[g], k, i), v))
      /\ RoleAdd(st, g, i, v) = Set(st, g, "role", i, Put(At(st[g], "role", i), v))
      /\ memberAdd(st, g, i, v) = Set(st, g, "member", i, Put(At(st[g], "member", i), v))
  BY DEF ChannelAdd, RoleAdd, memberAdd, At
<1> QED BY <1>3, <1>4 DEF e

LEMMA OnTake ==
    ASSUME NEW st, NEW g, NEW k, NEW i, st[g].known, k \notin {"emoji", "member"}
    PROVE  LET new == OnInterface(st, Change(g, k, i, Gone)) IN
           /\ k \in ChannelKinds => new = ChannelRemove(st, g, k, i)
           /\ k = "role" => new = Set(st, g, k, i, Take(At(st[g], k, i)))
           /\ k \in {"voice", "sound"} => new = ListPut(st, g, k, i, 0)
<1> DEFINE e == Change(g, k, i, Gone)
<1>1. e = [type |-> "TAKE", guild |-> g, kind |-> k, id |-> i]
  BY DEF Change, Gone
<1>2. e.type = "TAKE" /\ e.guild = g /\ e.kind = k /\ e.id = i
  BY <1>1
<1> HIDE DEF e
<1>3. /\ k \in ChannelKinds => OnInterface(st, e) = ChannelRemove(st, g, k, i)
      /\ k = "role" => OnInterface(st, e) = RoleRemove(st, g, i)
      /\ k \in {"voice", "sound"} => OnInterface(st, e) = ListPut(st, g, k, i, 0)
  BY <1>2, TakeHandled
<1>4. RoleRemove(st, g, i) = Set(st, g, "role", i, Take(At(st[g], "role", i)))
  BY DEF RoleRemove, At
<1> QED BY <1>3, <1>4 DEF e

LEMMA OnMember ==
    ASSUME NEW st, NEW g, NEW i, NEW v, NEW n, st[g].known
    PROVE  LET new == OnInterface(st, Change(g, "member", i, v)) IN
           /\ v = 1 /\ n = 1 => new = memberAdd(More(st, g, n), g, i, v)
           /\ v = Gone /\ n = -1 => new = MemberRemove(More(st, g, n), g, i)
<1> DEFINE e == Change(g, "member", i, v)
<1>1. v = 1 => e = [type |-> "GUILD_MEMBER_ADD", guild |-> g, id |-> i, v |-> v]
  BY DEF Change
<1>2. v = Gone => e = [type |-> "GUILD_MEMBER_REMOVE", guild |-> g, id |-> i]
  BY DEF Change, Gone
<1>3. v = 1 => e.type = "GUILD_MEMBER_ADD" /\ e.guild = g /\ e.id = i /\ e.v = v
  BY <1>1
<1>4. v = Gone => e.type = "GUILD_MEMBER_REMOVE" /\ e.guild = g /\ e.id = i
  BY <1>2
<1> HIDE DEF e
<1>5. v = 1 /\ n = 1 => OnInterface(st, e) = memberAdd(More(st, g, n), g, i, v)
  BY <1>3, MemberAddHandled
<1>6. v = Gone /\ n = -1 => OnInterface(st, e) = MemberRemove(More(st, g, n), g, i)
  BY <1>4, MemberRemoveHandled
<1> QED BY <1>5, <1>6 DEF e

(* A thing is put in the guild, or has a new version.                      *)
LEMMA PutChange ==
    ASSUME NEW st \in States, NEW g \in Guilds, NEW k \in Kinds, NEW i \in Ids,
           NEW d \in Guild, NEW e \in Guild, NEW v \in Int,
           Sound(st[g], d), Mirrored(st[g], d), e.messages = d.messages,
           v = Version(Has(d, k, i)) + 1, Has(e, k, i) = v,
           Has(d, k, i) = Gone => k \in Returning,
           \A l \in Kinds, j \in Ids : l # k \/ j # i => Has(e, l, j) = Has(d, l, j),
           k \notin {"emoji", "presence"}, k = "member" => v # 1
    PROVE  Step(st, g, OnInterface(st, Change(g, k, i, v)), e, 0)
<1>1. /\ v > 0 /\ Version(v) = v /\ st[g].known /\ st[g] \in Cached /\ At(st[g], k, i) \in Slot
      /\ Has(d, k, i) \in Nat \cup {Gone}
  <2>1. Has(d, k, i) \in Nat \cup {Gone}
    BY GuildParts
  <2>2. v > 0 /\ Version(v) = v
    <3>1. Version(Has(d, k, i)) \in Nat
      BY <2>1, Versions
    <3>2. v > 0
      BY <3>1
    <3> QED BY <3>2 DEF Version
  <2>3. st[g] \in Cached /\ At(st[g], k, i) \in Slot
    BY CachedParts DEF States
  <2>4. st[g].known
    BY FineBefore
  <2> QED BY <2>1, <2>2, <2>3, <2>4
<1>2. CASE k \in ChannelKinds \cup {"role", "member"}
  <2>1. OnInterface(st, Change(g, k, i, v)) = Set(st, g, k, i, Put(At(st[g], k, i), v))
    BY <1>1, <1>2, OnPut
  <2>2. k \in ChannelKinds => Has(d, k, i) # Gone
    BY DEF ChannelKinds, Returning
  <2> QED BY <1>2, <2>1, <2>2, PutStep
<1>3. CASE k \in {"voice", "sound"}
  <2> DEFINE slot == [At(st[g], k, i) EXCEPT !.list = v]
  <2>1. slot \in Slot /\ slot.list = v
    BY <1>1 DEF Slot
  <2>2. OnInterface(st, Change(g, k, i, v)) = Set(st, g, k, i, slot)
    BY <1>1, <1>3, OnPut, ListPutSets
  <2> HIDE DEF slot
  <2>3. FineSlot(slot, Has(e, k, i), k)
    BY <1>1, <1>3, <2>1 DEF FineSlot, Good, Shown, ChannelKinds
  <2> QED BY <1>3, <2>1, <2>2, <2>3, SetStep
<1> QED BY <1>2, <1>3, KindsAre DEF ChannelKinds

(* A thing is taken out of the guild.                                      *)
LEMMA TakeChange ==
    ASSUME NEW st \in States, NEW g \in Guilds, NEW k \in {"role", "voice", "sound"}, NEW i \in Ids,
           NEW d \in Guild, NEW e \in Guild,
           Sound(st[g], d), Mirrored(st[g], d), e.messages = d.messages,
           Has(e, k, i) = Gone,
           \A l \in Kinds, j \in Ids : l # k \/ j # i => Has(e, l, j) = Has(d, l, j)
    PROVE  Step(st, g, OnInterface(st, Change(g, k, i, Gone)), e, 0)
<1>1. /\ k \in Kinds /\ st[g].known /\ st[g] \in Cached /\ At(st[g], k, i) \in Slot
      /\ Version(Gone) = 0
  BY KindsAre, CachedParts, FineBefore DEF States, Version, Gone
<1>2. CASE k = "role"
  <2> DEFINE slot == Take(At(st[g], k, i))
  <2>1. FineSlot(At(st[g], k, i), Has(d, k, i), k)
    BY <1>1, FineBefore
  <2>2. Tied(At(st[g], k, i))
    BY <1>2, <2>1 DEF FineSlot, Good
  <2>3. slot \in Slot /\ Tied(slot) /\ slot.list = 0
    BY <1>1, <2>2, SlotParts, TakeHides
  <2>4. OnInterface(st, Change(g, k, i, Gone)) = Set(st, g, k, i, slot)
    BY <1>1, <1>2, OnTake
  <2> HIDE DEF slot
  <2>5. FineSlot(slot, Has(e, k, i), k)
    BY <1>1, <1>2, <2>3 DEF FineSlot, Good, Shown, ChannelKinds
  <2> QED BY <1>1, <1>2, <2>3, <2>4, <2>5, SetStep
<1>3. CASE k \in {"voice", "sound"}
  <2> DEFINE slot == [At(st[g], k, i) EXCEPT !.list = 0]
  <2>1. slot \in Slot /\ slot.list = 0
    BY <1>1 DEF Slot
  <2>2. OnInterface(st, Change(g, k, i, Gone)) = Set(st, g, k, i, slot)
    BY <1>1, <1>3, OnTake, ListPutSets
  <2> HIDE DEF slot
  <2>3. FineSlot(slot, Has(e, k, i), k)
    BY <1>1, <1>3, <2>1 DEF FineSlot, Good, Shown, ChannelKinds
  <2> QED BY <1>1, <1>3, <2>1, <2>2, <2>3, SetStep
<1> QED BY <1>2, <1>3

(* A channel or a thread that is found is deleted, with what was said there.*)
LEMMA FoundTaken ==
    ASSUME NEW st \in States, NEW g \in Guilds, NEW k \in ChannelKinds, NEW i \in Ids,
           NEW d \in Guild, NEW e \in Guild,
           Sound(st[g], d), Mirrored(st[g], d), At(st[g], k, i).map # 0,
           Has(d, k, i) > 0, Has(e, k, i) = Gone,
           \A j \in Ids : k # "channel" \/ j # i => Said(e, j) = Said(d, j),
           \A l \in Kinds, j \in Ids : l # k \/ j # i => Has(e, l, j) = Has(d, l, j)
    PROVE  Step(st, g, OnInterface(st, Change(g, k, i, Gone)), e, 0)
<1> DEFINE s == st[g]
           new == OnInterface(st, Change(g, k, i, Gone))
           set == Set(st, g, k, i, Empty)[g]
           c == Cleared(set, k, i)
<1>1. /\ k \in Kinds /\ s.known /\ ~s.unavailable /\ s \in Cached /\ At(s, k, i) \in Slot
      /\ Version(Gone) = 0 /\ Empty \in Slot /\ Empty.list = 0 /\ Empty.map = 0
      /\ s.count \in Int
  <2>1. k \in Kinds /\ Version(Gone) = 0
    BY KindsAre DEF Version, Gone, ChannelKinds
  <2>2. s \in Cached
    BY DEF States
  <2>3. s.known /\ ~s.unavailable
    BY FineBefore
  <2>4. At(s, k, i) \in Slot /\ s.count \in Int
    BY <2>1, <2>2, CachedParts
  <2> QED BY <2>1, <2>2, <2>3, <2>4, SlotParts
<1>2. s.slots[k][i].map # 0
  BY DEF At
<1>3. /\ Set(st, g, k, i, Empty) = [st EXCEPT ![g] = set] /\ set \in Cached
      /\ set.known = s.known /\ set.unavailable = s.unavailable
      /\ set.listed = s.listed /\ set.count = s.count
      /\ set.messages = s.messages
      /\ At(set, k, i) = Empty
      /\ \A l \in Kinds, j \in Ids : l # k \/ j # i => At(set, l, j) = At(s, l, j)
  <2>1. k \in Kinds /\ Empty \in Slot
    BY <1>1
  <2> HIDE DEF set
  <2>2. SUFFICES ASSUME NEW slot \in Slot, slot = Empty
                 PROVE  LET x == Set(st, g, k, i, slot)[g] IN
                        /\ Set(st, g, k, i, slot) = [st EXCEPT ![g] = x] /\ x \in Cached
                        /\ x.known = s.known /\ x.unavailable = s.unavailable
                        /\ x.listed = s.listed /\ x.count = s.count
                        /\ x.messages = s.messages
                        /\ At(x, k, i) = slot
                        /\ \A l \in Kinds, j \in Ids : l # k \/ j # i => At(x, l, j) = At(s, l, j)
    BY <2>1 DEF set
  <2> QED BY <2>1, SlotSet
<1>4. new = [Set(st, g, k, i, Empty) EXCEPT ![g] = Cleared(@, k, i)]
  <2>1. new = ChannelRemove(st, g, k, i)
    BY <1>1, OnTake, KindsAre DEF ChannelKinds
  <2> QED BY <1>1, <1>2, <2>1 DEF ChannelRemove
<1> HIDE DEF new, set
<1>5. new = [st EXCEPT ![g] = c]
  <2> DEFINE x == Set(st, g, k, i, Empty)
  <2>1. x = [st EXCEPT ![g] = set]
    BY <1>3
  <2>2. x[g] = set
    BY <2>1 DEF States
  <2>3. new = [x EXCEPT ![g] = Cleared(x[g], k, i)]
    BY <1>4
  <2> HIDE DEF x
  <2>4. new = [x EXCEPT ![g] = c]
    BY <2>2, <2>3
  <2> HIDE DEF c
  <2> QED BY <2>1, <2>4 DEF States
<1>6. new[g] = c
  BY <1>5 DEF States
<1>7. /\ c \in Cached /\ c.known = set.known /\ c.unavailable = set.unavailable
      /\ c.listed = set.listed /\ c.count = set.count /\ c.slots = set.slots
      /\ \A j \in Ids : c.messages[j] = IF k = "channel" /\ j = i THEN << >> ELSE set.messages[j]
  <2>1. << >> \in Seq(Ids)
    OBVIOUS
  <2>2. /\ set.messages \in [Ids -> Seq(Ids)] /\ set.threadMembers \in [Ids -> Seq(Ids)]
    BY <1>3, CachedParts
  <2>3. /\ [set.messages EXCEPT ![i] = IF k = "channel" THEN << >> ELSE @] \in [Ids -> Seq(Ids)]
        /\ [set.threadMembers EXCEPT ![i] = IF k = "thread" THEN << >> ELSE @] \in [Ids -> Seq(Ids)]
    BY <2>1, <2>2
  <2>4. c \in Cached
    BY <1>3, <2>3 DEF Cached, Cleared
  <2>5. /\ c.known = set.known /\ c.unavailable = set.unavailable
        /\ c.listed = set.listed /\ c.count = set.count /\ c.slots = set.slots
        /\ c.messages = [set.messages EXCEPT ![i] = IF k = "channel" THEN << >> ELSE @]
    BY <1>3 DEF Cached, Cleared
  <2> HIDE DEF c
  <2>6. \A j \in Ids : c.messages[j] = IF k = "channel" /\ j = i THEN << >> ELSE set.messages[j]
    BY <2>2, <2>5
  <2> QED BY <2>4, <2>5, <2>6
<1> HIDE DEF c
<1>8. ASSUME NEW l \in Kinds, NEW j \in Ids
      PROVE  SameSlot(s, c, d, e, l, j) \/ FineSlot(At(c, l, j), Has(e, l, j), l)
  <2>1. At(c, l, j) = At(set, l, j)
    BY <1>7 DEF At
  <2>2. CASE l = k /\ j = i
    BY <1>1, <1>3, <2>1, <2>2 DEF FineSlot, Good, Shown, Threaded, ChannelKinds, Reached
  <2>3. CASE l # k \/ j # i
    BY <1>3, <2>1, <2>3 DEF SameSlot
  <2> QED BY <2>2, <2>3
<1>9. ASSUME NEW j \in Ids
      PROVE  \/ SameChat(s, c, d, e, j)
             \/ FineChat(Messages(c, j), Has(e, "channel", j), Said(e, j))
  <2>1. CASE k = "channel" /\ j = i
    <3>1. Messages(c, j) = << >> /\ Has(e, "channel", j) = Gone
      BY <1>7, <2>1 DEF Messages
    <3>2. ~(Gone > 0) /\ Distinct(<< >>)
      BY DEF Gone, Distinct
    <3> QED BY <3>1, <3>2 DEF FineChat, Chat
  <2>2. CASE ~(k = "channel" /\ j = i)
    <3>1. Messages(c, j) = Messages(s, j) /\ Said(e, j) = Said(d, j)
      BY <1>3, <1>7, <2>2 DEF Messages
    <3> QED BY <2>2, <3>1, KindsAre DEF SameChat
  <2> QED BY <2>1, <2>2
<1>10. Sound(c, e) /\ Mirrored(c, e)
  BY <1>1, <1>3, <1>7, <1>8, <1>9, Changed
<1>11. Counts(s, c, 0)
  BY <1>1, <1>3, <1>7 DEF Counts
<1> QED BY <1>5, <1>6, <1>7, <1>10, <1>11 DEF Step, Only, new

(* An archived thread may be unknown to the cache: nothing is taken out.   *)
LEMMA ChannelTaken ==
    ASSUME NEW st \in States, NEW g \in Guilds, NEW k \in ChannelKinds, NEW i \in Ids,
           NEW d \in Guild, NEW e \in Guild,
           Sound(st[g], d), Mirrored(st[g], d),
           Has(d, k, i) > 0, Has(e, k, i) = Gone,
           \A j \in Ids : k # "channel" \/ j # i => Said(e, j) = Said(d, j),
           \A l \in Kinds, j \in Ids : l # k \/ j # i => Has(e, l, j) = Has(d, l, j)
    PROVE  Step(st, g, OnInterface(st, Change(g, k, i, Gone)), e, 0)
<1> DEFINE s == st[g]
           new == OnInterface(st, Change(g, k, i, Gone))
<1>1. /\ k \in Kinds /\ s \in Cached /\ s.known /\ ~s.unavailable /\ s.count \in Int
      /\ FineSlot(At(s, k, i), Has(d, k, i), k) /\ Has(d, k, i) \in Nat \cup {Gone}
      /\ Version(Gone) = 0
  <2>1. k \in Kinds /\ Version(Gone) = 0
    BY KindsAre DEF Version, Gone, ChannelKinds
  <2>2. s \in Cached
    BY DEF States
  <2> QED BY <2>1, <2>2, CachedParts, GuildParts, FineBefore
<1>2. CASE At(s, k, i).map # 0
  BY <1>2, FoundTaken
<1>3. CASE At(s, k, i).map = 0
  <2>1. new = st
    <3>1. new = ChannelRemove(st, g, k, i)
      BY <1>1, OnTake, KindsAre DEF ChannelKinds
    <3> QED BY <1>3, <3>1 DEF ChannelRemove, At
  <2>2. At(s, k, i).list = 0 /\ k = "thread"
    <3>1. Reached(At(s, k, i))
      BY <1>1 DEF FineSlot, Good
    <3>2. At(s, k, i).list = 0
      BY <1>3, <3>1 DEF Reached
    <3>3. Version(Has(d, k, i)) # 0
      <4>1. Has(d, k, i) \in Nat \cup {Gone} /\ Has(d, k, i) > 0
        BY <1>1
      <4>2. Version(Has(d, k, i)) = Has(d, k, i)
        BY <4>1, Versions
      <4>3. \A n : n \in Int /\ n > 0 => n # 0
        OBVIOUS
      <4> QED BY <4>1, <4>2, <4>3, Versions
    <3>4. k # "channel"
      BY <1>1, <3>2, <3>3 DEF FineSlot, Shown
    <3> QED BY <3>2, <3>4 DEF ChannelKinds
  <2>3. FineSlot(At(s, k, i), Has(e, k, i), k)
    BY <1>1, <1>3, <2>2 DEF FineSlot, Good, Shown, Threaded, Reached, ChannelKinds, Gone
  <2>4. ASSUME NEW l \in Kinds, NEW j \in Ids
        PROVE  SameSlot(s, s, d, e, l, j) \/ FineSlot(At(s, l, j), Has(e, l, j), l)
    BY <2>3 DEF SameSlot
  <2>5. \A j \in Ids : SameChat(s, s, d, e, j)
    BY <2>2, KindsAre DEF SameChat
  <2> HIDE DEF s, new
  <2>6. Sound(s, e) /\ Mirrored(s, e)
    BY <1>1, <2>4, <2>5, Changed DEF s
  <2>7. Counts(s, s, 0)
    BY <1>1 DEF Counts
  <2>8. new = [st EXCEPT ![g] = s]
    BY <2>1 DEF States, s
  <2> QED BY <1>1, <2>1, <2>6, <2>7, <2>8 DEF Step, Only, new, s
<1> QED BY <1>2, <1>3

(* Members come and go, and are counted.                                   *)
LEMMA Counted ==
    ASSUME NEW st \in States, NEW g \in Guilds, NEW n \in Int, NEW d,
           Sound(st[g], d), Mirrored(st[g], d)
    PROVE  LET more == More(st, g, n) IN
           /\ more \in States /\ more[g].known /\ more[g].count = st[g].count + n
           /\ more[g].listed = st[g].listed
           /\ \A k \in Kinds, i \in Ids : At(more[g], k, i) = At(st[g], k, i)
           /\ Sound(more[g], d) /\ Mirrored(more[g], d)
           /\ \A new : Only(more, g, new) => Only(st, g, new)
<1> DEFINE more == More(st, g, n)
           s == st[g]
           c == [s EXCEPT !.count = @ + n]
<1>1. s \in Cached /\ s.known /\ s.count + n \in Int
  BY CachedParts, FineBefore DEF States
<1>2. more = [st EXCEPT ![g] = c]
  BY DEF More
<1>3. /\ c \in Cached /\ c.known = s.known /\ c.unavailable = s.unavailable
      /\ c.listed = s.listed /\ c.count = s.count + n /\ c.slots = s.slots
      /\ c.messages = s.messages
  BY <1>1 DEF Cached
<1> HIDE DEF c, more
<1>4. more[g] = c /\ more \in States
  BY <1>2, <1>3 DEF States
<1>5. \A new : Only(more, g, new) => Only(st, g, new)
  BY <1>2 DEF States, Only
<1>6. \A k \in Kinds, i \in Ids : At(c, k, i) = At(s, k, i)
  BY <1>3 DEF At
<1>7. \A i \in Ids : Messages(c, i) = Messages(s, i)
  BY <1>3 DEF Messages
<1>8. Sound(c, d) /\ Mirrored(c, d)
  BY <1>3, <1>6, <1>7 DEF Sound, Mirrored
<1> QED BY <1>1, <1>3, <1>4, <1>5, <1>6, <1>8 DEF more

LEMMA CountedStep ==
    ASSUME NEW st \in States, NEW g \in Guilds, NEW n \in Int, NEW i \in Ids, NEW slot \in Slot,
           NEW d, NEW e,
           NEW k \in Kinds, k = "member",
           Sound(st[g], d), Mirrored(st[g], d), e.messages = d.messages,
           \A l \in Kinds, j \in Ids : l # k \/ j # i =>
               Has(e, l, j) = Has(d, l, j) \/ (l = "presence" /\ Has(e, l, j) = Gone),
           FineSlot(slot, Has(e, k, i), k)
    PROVE  Step(st, g, Set(More(st, g, n), g, k, i, slot), e, n)
<1> DEFINE more == More(st, g, n)
           new == Set(more, g, k, i, slot)
<1>1. /\ more \in States /\ more[g].count = st[g].count + n /\ more[g].listed = st[g].listed
      /\ Sound(more[g], d) /\ Mirrored(more[g], d)
      /\ \A x : Only(more, g, x) => Only(st, g, x)
  BY Counted
<1> HIDE DEF more
<1>2. Step(more, g, new, e, 0)
  BY <1>1, KindsAre, SetStep
<1>3. more[g].count \in Int
  BY <1>1, CachedParts DEF States
<1>4. Only(st, g, new)
  BY <1>1, <1>2 DEF Step
<1>5. Counts(st[g], new[g], n)
  BY <1>1, <1>2, <1>3 DEF Step, Counts
<1> QED BY <1>2, <1>4, <1>5 DEF Step, more

LEMMA MemberComes ==
    ASSUME NEW st \in States, NEW g \in Guilds, NEW i \in Ids, NEW d \in Guild, NEW e \in Guild,
           NEW k \in Kinds, NEW v \in Int, k = "member", v = 1,
           Sound(st[g], d), Mirrored(st[g], d), e.messages = d.messages,
           ~(Has(d, k, i) > 0), Has(e, k, i) = v,
           \A l \in Kinds, j \in Ids : l # k \/ j # i => Has(e, l, j) = Has(d, l, j)
    PROVE  Step(st, g, OnInterface(st, Change(g, k, i, v)), e, v)
<1> DEFINE slot == Put(At(st[g], k, i), v)
           more == More(st, g, v)
<1>1. /\ st[g].known /\ st[g] \in Cached /\ At(st[g], k, i) \in Slot
      /\ Has(d, k, i) \in Nat \cup {Gone}
      /\ FineSlot(At(st[g], k, i), Has(d, k, i), k)
  BY CachedParts, GuildParts, FineBefore DEF States
<1>2. OnInterface(st, Change(g, k, i, v)) = memberAdd(more, g, i, v)
  BY <1>1, OnMember
<1>3. more[g].known /\ At(more[g], k, i) = At(st[g], k, i)
  BY <1>1, Counted
<1> HIDE DEF more
<1>4. memberAdd(more, g, i, v) = Set(more, g, k, i, slot)
  BY <1>3 DEF memberAdd, At
<1>5. FineSlot(slot, v, k) /\ slot \in Slot
  <2>1. v = Version(Has(d, k, i)) + 1
    <3>1. Version(Has(d, k, i)) = 0
      BY DEF Version
    <3> QED BY <3>1
  <2>2. FineSlot(slot, v, k)
    BY <1>1, <2>1, PutFine DEF ChannelKinds
  <2>3. slot \in Slot
    BY <1>1, SlotParts
  <2> QED BY <2>2, <2>3
<1> HIDE DEF slot
<1> QED BY <1>1, <1>2, <1>4, <1>5, CountedStep DEF more

LEMMA MemberGoes ==
    ASSUME NEW st \in States, NEW g \in Guilds, NEW i \in Ids, NEW d \in Guild, NEW e \in Guild,
           NEW k \in Kinds, NEW n \in Int, k = "member", n = -1,
           Sound(st[g], d), Mirrored(st[g], d), e.messages = d.messages,
           Has(e, k, i) = Gone,
           \A l \in Kinds, j \in Ids : l # k \/ j # i =>
               Has(e, l, j) = Has(d, l, j) \/ (l = "presence" /\ Has(e, l, j) = Gone)
    PROVE  Step(st, g, OnInterface(st, Change(g, k, i, Gone)), e, n)
<1> DEFINE slot == Take(At(st[g], k, i))
           more == More(st, g, n)
<1>1. /\ st[g].known /\ st[g] \in Cached /\ At(st[g], k, i) \in Slot
      /\ FineSlot(At(st[g], k, i), Has(d, k, i), k)
  BY CachedParts, FineBefore DEF States
<1>2. OnInterface(st, Change(g, k, i, Gone)) = MemberRemove(more, g, i)
  BY <1>1, OnMember
<1>3. more[g].known /\ At(more[g], k, i) = At(st[g], k, i)
  BY <1>1, Counted
<1> HIDE DEF more
<1>4. MemberRemove(more, g, i) = Set(more, g, k, i, slot)
  BY <1>3 DEF MemberRemove, At
<1>5. slot \in Slot /\ Tied(slot) /\ slot.list = 0
  <2>1. Tied(At(st[g], k, i))
    BY <1>1 DEF FineSlot, Good
  <2> QED BY <1>1, <2>1, TakeHides, SlotParts
<1> HIDE DEF slot
<1>6. FineSlot(slot, Gone, k)
  BY <1>5 DEF FineSlot, Good, Shown, ChannelKinds, Gone
<1> QED BY <1>1, <1>2, <1>4, <1>5, <1>6, CountedStep DEF more

(* Two steps are one.                                                      *)
LEMMA StepTwice ==
    ASSUME NEW st \in States, NEW g \in Guilds, NEW a, NEW b, NEW e, NEW f,
           Step(st, g, a, e, 0), Step(a, g, b, f, 0)
    PROVE  Step(st, g, b, f, 0) /\ a \in States
<1>1. a = [st EXCEPT ![g] = a[g]] /\ a[g] \in Cached /\ b = [a EXCEPT ![g] = b[g]] /\ b[g] \in Cached
  BY DEF Step, Only
<1>2. a \in States /\ b = [st EXCEPT ![g] = b[g]]
  BY <1>1 DEF States
<1>3. st[g].count \in Int /\ a[g].count \in Int
  BY <1>1, CachedParts DEF States
<1>4. Counts(st[g], b[g], 0)
  BY <1>3 DEF Step, Counts
<1> QED BY <1>1, <1>2, <1>4 DEF Step, Only

(* A presence, and the member it may add with its user only.               *)
LEMMA PresenceChange ==
    ASSUME NEW st \in States, NEW g \in Guilds, NEW i \in Ids, NEW d \in Guild, NEW e \in Guild,
           NEW k \in Kinds, NEW m \in Kinds, NEW v \in Int, k = "presence", m = "member", v > 0,
           Sound(st[g], d), Mirrored(st[g], d), e.messages = d.messages,
           Has(d, m, i) > 0, Has(e, k, i) = v,
           \A l \in Kinds, j \in Ids : l # k \/ j # i => Has(e, l, j) = Has(d, l, j)
    PROVE  Step(st, g, OnInterface(st, Change(g, k, i, v)), e, 0)
<1> DEFINE slot == [At(st[g], k, i) EXCEPT !.list = v]
           after == Set(st, g, k, i, slot)
           new == OnInterface(st, Change(g, k, i, v))
<1>1. st[g].known /\ At(st[g], k, i) \in Slot /\ Version(v) = v
  BY CachedParts, FineBefore DEF States, Version
<1>2. slot \in Slot /\ slot.list = v
  BY <1>1 DEF Slot
<1>3. ListPut(st, g, k, i, v) = after
  BY <1>1, ListPutSets
<1> HIDE DEF slot
<1>4. FineSlot(slot, Has(e, k, i), k)
  BY <1>1, <1>2 DEF FineSlot, Good, Shown, ChannelKinds
<1>5. Step(st, g, after, e, 0)
  BY <1>2, <1>4, SetStep
<1>6. new = PresenceUpdate(st, g, i, v)
  BY <1>1, OnPut
<1> HIDE DEF after, new
<1>7. after \in States /\ after[g].known /\ Sound(after[g], e) /\ Mirrored(after[g], e)
  BY <1>5 DEF Step, Only, States, Mirrored
<1>8. new = after \/ new = memberAdd(after, g, i, Partial)
  BY <1>3, <1>6 DEF PresenceUpdate
<1> DEFINE x == Put(At(after[g], m, i), Partial)
<1>9. /\ At(after[g], m, i) \in Slot /\ FineSlot(At(after[g], m, i), Has(e, m, i), m)
      /\ Has(e, m, i) > 0
  BY <1>7, CachedParts, FineBefore DEF States
<1>10. x \in Slot /\ Tied(x) /\ x.list = Partial
  <2>1. Partial \in Int /\ Partial # 0
    BY DEF Partial
  <2>2. Tied(At(after[g], m, i))
    BY <1>9 DEF FineSlot, Good
  <2> QED BY <1>9, <2>1, <2>2, SlotParts, PutShows
<1>11. memberAdd(after, g, i, Partial) = Set(after, g, m, i, x)
  BY <1>7 DEF memberAdd, At
<1> HIDE DEF x
<1>12. FineSlot(x, Has(e, m, i), m)
  BY <1>9, <1>10 DEF FineSlot, Good, Shown, ChannelKinds
<1>13. Step(after, g, Set(after, g, m, i, x), e, 0)
  BY <1>7, <1>10, <1>12, SetStep
<1>14. Step(st, g, memberAdd(after, g, i, Partial), e, 0)
  BY <1>5, <1>11, <1>13, StepTwice
<1> QED BY <1>5, <1>8, <1>14 DEF new

-----------------------------------------------------------------------------
(* Events that replace the cached guild, c.                                *)
LEMMA StepBy ==
    ASSUME NEW st \in States, NEW g \in Guilds, NEW new, NEW c \in Cached, NEW e, NEW n,
           new = [st EXCEPT ![g] = c], Sound(c, e), Mirrored(c, e), Counts(st[g], c, n)
    PROVE  Step(st, g, new, e, n)
<1>1. new[g] = c
  BY DEF States
<1> QED BY <1>1 DEF Step, Only

With(st, g, c) == [st EXCEPT ![g] = c]

(* The slots of a kind are replaced.                                       *)
Slots(s, k, f) == [s EXCEPT !.slots[k] = f]

LEMMA SlotsStep ==
    ASSUME NEW st \in States, NEW g \in Guilds, NEW k \in Kinds, NEW f \in [Ids -> Slot], NEW new,
           NEW d, NEW e, Sound(st[g], d), Mirrored(st[g], d), k # "channel",
           new = With(st, g, Slots(st[g], k, f)), e.messages = d.messages,
           \A l \in Kinds, j \in Ids : l # k => Has(e, l, j) = Has(d, l, j),
           \A i \in Ids : FineSlot(f[i], Has(e, k, i), k)
    PROVE  Step(st, g, new, e, 0)
<1> DEFINE s == st[g]
           c == Slots(s, k, f)
           slots == [s.slots EXCEPT ![k] = f]
<1>1. s \in Cached /\ s.known /\ ~s.unavailable /\ s.slots \in [Kinds -> [Ids -> Slot]]
      /\ s.count \in Int
  BY CachedParts, FineBefore DEF States
<1>2. slots \in [Kinds -> [Ids -> Slot]] /\ slots[k] = f
      /\ \A l \in Kinds : l # k => slots[l] = s.slots[l]
  BY <1>1
<1>3. c = [s EXCEPT !.slots = slots]
  BY DEF Slots
<1> HIDE DEF slots
<1>4. /\ c \in Cached /\ c.known = s.known /\ c.unavailable = s.unavailable
      /\ c.listed = s.listed /\ c.count = s.count /\ c.messages = s.messages /\ c.slots = slots
  BY <1>1, <1>2, <1>3 DEF Cached
<1> HIDE DEF c
<1>5. ASSUME NEW l \in Kinds, NEW j \in Ids
      PROVE  SameSlot(s, c, d, e, l, j) \/ FineSlot(At(c, l, j), Has(e, l, j), l)
  <2>1. CASE l = k
    <3>1. At(c, l, j) = f[j]
      BY <1>2, <1>4, <2>1 DEF At
    <3> QED BY <2>1, <3>1
  <2>2. CASE l # k
    <3>1. At(c, l, j) = At(s, l, j)
      BY <1>2, <1>4, <2>2 DEF At
    <3> QED BY <2>2, <3>1 DEF SameSlot
  <2> QED BY <2>1, <2>2
<1>6. \A j \in Ids : SameChat(s, c, d, e, j)
  BY <1>4, KindsAre DEF SameChat, Messages, Said
<1>7. Sound(c, e) /\ Mirrored(c, e)
  BY <1>1, <1>4, <1>5, <1>6, Changed
<1>8. Counts(s, c, 0)
  BY <1>1, <1>4 DEF Counts
<1>9. new = [st EXCEPT ![g] = c]
  BY DEF c, With
<1> QED BY <1>4, <1>7, <1>8, <1>9, StepBy

(* GUILD_EMOJIS_UPDATE.                                                    *)
EmojiSlots(s, emojis) ==
    [i \in Ids |-> [s.slots["emoji"][i] EXCEPT !.list = emojis[i], !.same = FALSE]]

LEMMA EmojisHandled ==
    ASSUME NEW st, NEW e, st[e.guild].known, e.type = "GUILD_EMOJIS_UPDATE"
    PROVE  OnInterface(st, e)
           = With(st, e.guild, Slots(st[e.guild], "emoji", EmojiSlots(st[e.guild], e.emojis)))
BY DEF OnInterface, Slots, EmojiSlots, With

LEMMA EmojisStep ==
    ASSUME NEW st \in States, NEW g \in Guilds, NEW k \in Kinds, NEW d \in Guild, NEW e \in Guild,
           NEW emojis, NEW event, k = "emoji",
           event.type = "GUILD_EMOJIS_UPDATE", event.guild = g, event.emojis = emojis,
           Sound(st[g], d), Mirrored(st[g], d), e.messages = d.messages,
           \A l \in Kinds, j \in Ids : l # k => Has(e, l, j) = Has(d, l, j),
           \A i \in Ids : emojis[i] = Version(Has(e, k, i))
    PROVE  Step(st, g, OnInterface(st, event), e, 0)
<1> DEFINE s == st[g]
           f == EmojiSlots(s, emojis)
<1>1. s \in Cached /\ s.known
  BY FineBefore DEF States
<1>2. ASSUME NEW i \in Ids
      PROVE  f[i] \in Slot /\ f[i].list = emojis[i]
  <2> DEFINE slot == s.slots["emoji"][i]
  <2>1. f[i] = [slot EXCEPT !.list = emojis[i], !.same = FALSE]
    BY DEF EmojiSlots
  <2>2. slot \in Slot /\ emojis[i] \in Int
    <3>1. At(s, k, i) \in Slot
      BY <1>1, CachedParts
    <3>2. emojis[i] \in Int
      BY GuildParts, Versions
    <3> QED BY <3>1, <3>2 DEF At
  <2> HIDE DEF slot, f
  <2> QED BY <2>1, <2>2 DEF Slot
<1>3. f \in [Ids -> Slot]
  <2>1. f = [i \in Ids |-> f[i]]
    BY DEF EmojiSlots
  <2> QED BY <1>2, <2>1
<1>4. \A i \in Ids : FineSlot(f[i], Has(e, k, i), k)
  BY <1>2 DEF FineSlot, Good, Shown, ChannelKinds
<1>5. OnInterface(st, event) = With(st, g, Slots(s, k, f))
  BY <1>1, EmojisHandled
<1> HIDE DEF f
<1> QED BY <1>3, <1>4, <1>5, SlotsStep

-----------------------------------------------------------------------------
(* GUILD_MEMBERS_CHUNK: all members, and the presences of some.            *)
Chunked(s, members, presences) ==
    [s EXCEPT !.slots = [@ EXCEPT
        !["member"] = [u \in Ids |->
            IF members[u] = 0 THEN s.slots["member"][u] ELSE Put(s.slots["member"][u], members[u])],
        !["presence"] = [u \in Ids |->
            IF presences[u] = 0 THEN s.slots["presence"][u]
            ELSE [s.slots["presence"][u] EXCEPT !.list = presences[u]]]]]

LEMMA ChunkHandled ==
    ASSUME NEW st, NEW e, st[e.guild].known, e.type = "GUILD_MEMBERS_CHUNK"
    PROVE  OnInterface(st, e)
           = With(st, e.guild, Chunked(st[e.guild], e.members, e.presences))
<1>1. OnInterface(st, e) = MembersChunk(st, e.guild, e.members, e.presences)
  BY DEF OnInterface
<1> QED BY <1>1 DEF MembersChunk, Chunked, With

ChunkTo(s, c, members, presences) ==
    /\ c \in Cached /\ c.known = s.known /\ c.unavailable = s.unavailable
    /\ c.listed = s.listed /\ c.count = s.count /\ c.messages = s.messages
    /\ \A k \in Kinds, i \in Ids :
          /\ k = "member" => At(c, k, i) = IF members[i] = 0 THEN At(s, k, i)
                                           ELSE Put(At(s, k, i), members[i])
          /\ k = "presence" => /\ presences[i] = 0 => At(c, k, i) = At(s, k, i)
                               /\ presences[i] # 0 => At(c, k, i).list = presences[i]
          /\ k \notin {"member", "presence"} => At(c, k, i) = At(s, k, i)

LEMMA ChunkParts ==
    ASSUME NEW s \in Cached, NEW members \in [Ids -> Int], NEW presences \in [Ids -> Int]
    PROVE  ChunkTo(s, Chunked(s, members, presences), members, presences)
<1> DEFINE c == Chunked(s, members, presences)
           m == [u \in Ids |-> IF members[u] = 0 THEN s.slots["member"][u]
                               ELSE Put(s.slots["member"][u], members[u])]
           p == [u \in Ids |-> IF presences[u] = 0 THEN s.slots["presence"][u]
                               ELSE [s.slots["presence"][u] EXCEPT !.list = presences[u]]]
           slots == [s.slots EXCEPT !["member"] = m, !["presence"] = p]
<1>1. s.slots \in [Kinds -> [Ids -> Slot]] /\ "member" \in Kinds /\ "presence" \in Kinds
  BY CachedParts, KindsAre
<1>2. \A i \in Ids : /\ s.slots["member"][i] \in Slot /\ s.slots["presence"][i] \in Slot
                     /\ members[i] \in Int /\ presences[i] \in Int
  BY <1>1
<1>3. m \in [Ids -> Slot]
  BY <1>2, SlotParts
<1>4. p \in [Ids -> Slot]
  BY <1>2, SlotParts
<1>5. c = [s EXCEPT !.slots = slots]
  BY DEF Chunked
<1>6. \A i \in Ids : /\ m[i] = IF members[i] = 0 THEN s.slots["member"][i]
                               ELSE Put(s.slots["member"][i], members[i])
                     /\ presences[i] = 0 => p[i] = s.slots["presence"][i]
  OBVIOUS
<1>7. \A i \in Ids : presences[i] # 0 => p[i].list = presences[i]
  BY <1>2 DEF Slot
<1> HIDE DEF m, p
<1>8. /\ slots \in [Kinds -> [Ids -> Slot]]
      /\ slots["member"] = m /\ slots["presence"] = p
      /\ \A k \in Kinds : k \notin {"member", "presence"} => slots[k] = s.slots[k]
  BY <1>1, <1>3, <1>4
<1> HIDE DEF slots, c
<1>9. /\ c \in Cached /\ c.known = s.known /\ c.unavailable = s.unavailable
      /\ c.listed = s.listed /\ c.count = s.count /\ c.messages = s.messages /\ c.slots = slots
  BY <1>5, <1>8 DEF Cached
<1>10. ASSUME NEW k \in Kinds, NEW i \in Ids
       PROVE  /\ k = "member" => At(c, k, i) = IF members[i] = 0 THEN At(s, k, i)
                                               ELSE Put(At(s, k, i), members[i])
              /\ k = "presence" =>
                    /\ presences[i] = 0 => At(c, k, i) = At(s, k, i)
                    /\ presences[i] # 0 => At(c, k, i).list = presences[i]
              /\ k \notin {"member", "presence"} => At(c, k, i) = At(s, k, i)
  BY <1>6, <1>7, <1>8, <1>9 DEF At
<1> QED BY <1>9, <1>10 DEF c, ChunkTo

LEMMA ChunkStep ==
    ASSUME NEW st \in States, NEW g \in Guilds, NEW d \in Guild, NEW event,
           NEW members \in [Ids -> Int], NEW presences \in [Ids -> Int],
           event.type = "GUILD_MEMBERS_CHUNK", event.guild = g,
           event.members = members, event.presences = presences,
           Sound(st[g], d), Mirrored(st[g], d),
           \A k \in Kinds, i \in Ids :
              /\ k = "member" => members[i] = Version(Has(d, k, i))
              /\ k = "presence" => presences[i] \in {0, Version(Has(d, k, i))}
    PROVE  Step(st, g, OnInterface(st, event), d, 0)
<1> DEFINE s == st[g]
           c == Chunked(s, members, presences)
           new == OnInterface(st, event)
<1>1. s \in Cached /\ s.known /\ ~s.unavailable /\ s.count \in Int
  BY CachedParts, FineBefore DEF States
<1>2. new = With(st, g, c)
  BY <1>1, ChunkHandled
<1>3. /\ c \in Cached /\ c.known = s.known /\ c.unavailable = s.unavailable
      /\ c.listed = s.listed /\ c.count = s.count /\ c.messages = s.messages
      /\ \A k \in Kinds, i \in Ids :
            /\ k = "member" => At(c, k, i) = IF members[i] = 0 THEN At(s, k, i)
                                             ELSE Put(At(s, k, i), members[i])
            /\ k = "presence" =>
                  /\ presences[i] = 0 => At(c, k, i) = At(s, k, i)
                  /\ presences[i] # 0 => At(c, k, i).list = presences[i]
            /\ k \notin {"member", "presence"} => At(c, k, i) = At(s, k, i)
  <2>1. ChunkTo(s, c, members, presences)
    BY <1>1, ChunkParts
  <2> HIDE DEF c, s
  <2> QED BY <2>1 DEF ChunkTo
<1> HIDE DEF c, new
<1>4. ASSUME NEW k \in Kinds, NEW i \in Ids
      PROVE  SameSlot(s, c, d, d, k, i) \/ FineSlot(At(c, k, i), Has(d, k, i), k)
  <2>1. CASE k = "member"
    <3>1. CASE members[i] = 0
      BY <1>3, <2>1, <3>1 DEF SameSlot
    <3>2. CASE members[i] # 0
      <4> DEFINE slot == At(s, k, i)
                 v == members[i]
      <4>1. /\ slot \in Slot /\ v \in Int /\ FineSlot(slot, Has(d, k, i), k)
            /\ At(c, k, i) = Put(slot, v) /\ Has(d, k, i) \in Nat \cup {Gone}
        BY <1>1, <1>3, <2>1, <3>2, CachedParts, FineBefore, GuildParts
      <4>2. v = Version(Has(d, k, i)) /\ v # 0
        BY <2>1, <3>2
      <4>3. Has(d, k, i) > 0 /\ v = Has(d, k, i)
        BY <4>1, <4>2, Versions
      <4> HIDE DEF slot, v
      <4>4. Tied(slot)
        BY <2>1, <4>1 DEF FineSlot, Good
      <4>5. Tied(Put(slot, v)) /\ Put(slot, v).list = v
        BY <4>1, <4>2, <4>4, PutShows
      <4> QED BY <2>1, <4>1, <4>3, <4>5 DEF FineSlot, Good, Shown, ChannelKinds
    <3> QED BY <3>1, <3>2
  <2>2. CASE k = "presence"
    BY <1>3, <2>2 DEF SameSlot, FineSlot, Good, Shown, ChannelKinds
  <2>3. CASE k \notin {"member", "presence"}
    BY <1>3, <2>3 DEF SameSlot
  <2> QED BY <2>1, <2>2, <2>3
<1>5. \A j \in Ids : SameChat(s, c, d, d, j)
  BY <1>3 DEF SameChat, Messages
<1>6. Sound(c, d) /\ Mirrored(c, d)
  BY <1>1, <1>3, <1>4, <1>5, Changed
<1>7. Counts(s, c, 0)
  BY <1>1, <1>3 DEF Counts
<1> QED BY <1>2, <1>3, <1>6, <1>7, StepBy DEF With, new

-----------------------------------------------------------------------------
(* THREAD_LIST_SYNC and THREAD_MEMBERS_UPDATE.                             *)
Replacing(s, threads, synced, t) == threads[t] # 0 \/ MakesWay(At(s, "thread", t), t, synced)
Synced(s, threads, synced) ==
    [s EXCEPT
        !.slots["thread"] = [t \in Ids |->
            IF Replacing(s, threads, synced, t) THEN Fresh(threads[t]) ELSE s.slots["thread"][t]],
        !.threadMembers = [t \in Ids |->
            IF Replacing(s, threads, synced, t) THEN << >> ELSE s.threadMembers[t]]]

SyncTo(s, c, threads, synced) ==
    /\ c \in Cached /\ c.known = s.known /\ c.unavailable = s.unavailable
    /\ c.listed = s.listed /\ c.count = s.count /\ c.messages = s.messages
    /\ \A k \in Kinds, i \in Ids :
          /\ k # "thread" => At(c, k, i) = At(s, k, i)
          /\ k = "thread" => At(c, k, i) = IF Replacing(s, threads, synced, i)
                                           THEN Fresh(threads[i]) ELSE At(s, k, i)

LEMMA SyncHandled ==
    ASSUME NEW st, NEW e, st[e.guild].known, e.type = "THREAD_LIST_SYNC"
    PROVE  OnInterface(st, e) = With(st, e.guild, Synced(st[e.guild], e.threads, e.synced))
<1>1. OnInterface(st, e) = ThreadListSync(st, e.guild, e.threads, e.synced)
  BY DEF OnInterface
<1> QED BY <1>1 DEF ThreadListSync, Synced, With, Replacing, At

LEMMA SyncParts ==
    ASSUME NEW s \in Cached, NEW threads \in [Ids -> Int], NEW synced
    PROVE  SyncTo(s, Synced(s, threads, synced), threads, synced)
<1> DEFINE c == Synced(s, threads, synced)
           f == [t \in Ids |-> IF Replacing(s, threads, synced, t) THEN Fresh(threads[t])
                               ELSE s.slots["thread"][t]]
           m == [t \in Ids |-> IF Replacing(s, threads, synced, t) THEN << >>
                               ELSE s.threadMembers[t]]
           slots == [s.slots EXCEPT !["thread"] = f]
<1>1. s.slots \in [Kinds -> [Ids -> Slot]] /\ "thread" \in Kinds /\ s.threadMembers \in [Ids -> Seq(Ids)]
  BY CachedParts, KindsAre
<1>2. f \in [Ids -> Slot]
  BY <1>1, SlotParts
<1>3. m \in [Ids -> Seq(Ids)]
  <2>1. << >> \in Seq(Ids)
    OBVIOUS
  <2> QED BY <1>1, <2>1
<1>4. c = [s EXCEPT !.slots = slots, !.threadMembers = m]
  BY DEF Synced
<1>5. \A i \in Ids : f[i] = IF Replacing(s, threads, synced, i) THEN Fresh(threads[i])
                            ELSE s.slots["thread"][i]
  OBVIOUS
<1> HIDE DEF f, m
<1>6. /\ slots \in [Kinds -> [Ids -> Slot]] /\ slots["thread"] = f
      /\ \A k \in Kinds : k # "thread" => slots[k] = s.slots[k]
  BY <1>1, <1>2
<1> HIDE DEF slots, c
<1>7. /\ c \in Cached /\ c.known = s.known /\ c.unavailable = s.unavailable
      /\ c.listed = s.listed /\ c.count = s.count /\ c.messages = s.messages /\ c.slots = slots
  BY <1>3, <1>4, <1>6 DEF Cached
<1>8. ASSUME NEW k \in Kinds, NEW i \in Ids
      PROVE  /\ k # "thread" => At(c, k, i) = At(s, k, i)
             /\ k = "thread" => At(c, k, i) = IF Replacing(s, threads, synced, i)
                                              THEN Fresh(threads[i]) ELSE At(s, k, i)
  BY <1>5, <1>6, <1>7 DEF At
<1> QED BY <1>7, <1>8 DEF c, SyncTo

LEMMA SyncStep ==
    ASSUME NEW st \in States, NEW g \in Guilds, NEW d \in Guild, NEW event,
           NEW threads \in [Ids -> Int], NEW synced,
           event.type = "THREAD_LIST_SYNC", event.guild = g, event.threads = threads,
           event.synced = synced, Sound(st[g], d), Mirrored(st[g], d),
           \A k \in Kinds, i \in Ids : k = "thread" =>
               threads[i] = IF i \in synced /\ ~Archived(Version(Has(d, k, i)))
                            THEN Version(Has(d, k, i)) ELSE 0
    PROVE  Step(st, g, OnInterface(st, event), d, 0)
<1> DEFINE s == st[g]
           c == Synced(s, threads, synced)
           new == OnInterface(st, event)
<1>1. s \in Cached /\ s.known /\ ~s.unavailable /\ s.count \in Int
  BY CachedParts, FineBefore DEF States
<1>2. new = With(st, g, c)
  BY <1>1, SyncHandled
<1>3. SyncTo(s, c, threads, synced)
  BY <1>1, SyncParts
<1> HIDE DEF c, new
<1>4. ASSUME NEW k \in Kinds, NEW i \in Ids
      PROVE  SameSlot(s, c, d, d, k, i) \/ FineSlot(At(c, k, i), Has(d, k, i), k)
  <2>1. CASE k = "thread" /\ Replacing(s, threads, synced, i)
    <3> DEFINE v == threads[i]
               now == Has(d, k, i)
               slot == At(s, k, i)
    <3>1. /\ At(c, k, i) = Fresh(v) /\ v \in Int /\ now \in Nat \cup {Gone}
          /\ FineSlot(slot, now, k) /\ slot \in Slot
          /\ v # 0 \/ MakesWay(slot, i, synced)
      BY <1>1, <1>3, <2>1, GuildParts, CachedParts, FineBefore DEF SyncTo, Replacing
    <3>2. v = IF i \in synced /\ ~Archived(Version(now)) THEN Version(now) ELSE 0
      BY <2>1
    <3> HIDE DEF v, now, slot
    <3>3. Reached(Fresh(v)) /\ Fresh(v).list = v /\ Fresh(v).map = v
      BY <3>1, FreshShows
    <3>4. v # 0 => now # 0 /\ v = Version(now)
      BY <3>1, <3>2, Versions
    <3>5. v = 0 => Archived(Version(now))
      <4> SUFFICES ASSUME v = 0 PROVE Archived(Version(now))
        OBVIOUS
      <4>1. slot.list # 0 /\ (i \in synced \/ Archived(slot.list))
        BY <3>1 DEF MakesWay
      <4>2. slot.list = Version(now)
        BY <2>1, <3>1, <4>1 DEF FineSlot, Shown, Threaded
      <4> QED BY <3>2, <4>1, <4>2
    <3>6. Threaded(Fresh(v), Version(now))
      BY <3>3, <3>4, <3>5 DEF Threaded
    <3> QED BY <2>1, <3>1, <3>3, <3>4, <3>6 DEF FineSlot, Good, Shown, ChannelKinds, now
  <2>2. CASE k = "thread" /\ ~Replacing(s, threads, synced, i)
    BY <1>3, <2>2 DEF SyncTo, SameSlot
  <2>3. CASE k # "thread"
    BY <1>3, <2>3 DEF SameSlot, SyncTo
  <2> QED BY <2>1, <2>2, <2>3
<1>5. \A j \in Ids : SameChat(s, c, d, d, j)
  BY <1>3 DEF SameChat, Messages, SyncTo
<1>6. c.known /\ ~c.unavailable /\ c \in Cached /\ Counts(s, c, 0)
  BY <1>1, <1>3 DEF Counts, SyncTo
<1>7. Sound(c, d) /\ Mirrored(c, d)
  BY <1>4, <1>5, <1>6, Changed
<1> QED BY <1>2, <1>6, <1>7, StepBy DEF With, new

Appended(added, withMembers) == IF withMembers THEN SubSeq(added, 1, 1) ELSE added
Joining(s, t, joined) == [s EXCEPT !.threadMembers[t] = @ \o joined]

LEMMA ThreadMembersHandled ==
    ASSUME NEW st, NEW e, e.type = "THREAD_MEMBERS_UPDATE"
    PROVE  \/ OnInterface(st, e) = st
           \/ OnInterface(st, e) = With(st, e.guild,
                 Joining(st[e.guild], e.id, Appended(e.added, e.withMembers)))
<1>1. OnInterface(st, e) = ThreadMembersUpdate(st, e.guild, e.id, e.added, e.withMembers)
  BY DEF OnInterface
<1> QED BY <1>1 DEF ThreadMembersUpdate, Joining, Appended, With

LEMMA AppendedAre ==
    ASSUME NEW added \in Seq(Ids), NEW withMembers \in BOOLEAN, withMembers => added # << >>
    PROVE  Appended(added, withMembers) \in Seq(Ids)
<1>1. CASE withMembers
  <2>1. Len(added) \in Nat /\ Len(added) # 0 /\ \A n \in 1 .. Len(added) : added[n] \in Ids
    BY <1>1, EmptySeq, ElementOfSeq, LenProperties
  <2>2. SubSeq(added, 1, 1) \in Seq(Ids)
    BY <2>1, SubSeqProperties
  <2> QED BY <1>1, <2>2 DEF Appended
<1>2. CASE ~withMembers
  BY <1>2 DEF Appended
<1> QED BY <1>1, <1>2

LEMMA ThreadMembersStep ==
    ASSUME NEW st \in States, NEW g \in Guilds, NEW d \in Guild, NEW e \in Guild, NEW event,
           NEW t \in Ids, NEW added \in Seq(Ids),
           event.type = "THREAD_MEMBERS_UPDATE", event.guild = g, event.id = t,
           Appended(event.added, event.withMembers) = added,
           Sound(st[g], d), Mirrored(st[g], d),
           e.messages = d.messages, e.has = d.has
    PROVE  Step(st, g, OnInterface(st, event), e, 0)
<1> DEFINE s == st[g]
           c == Joining(s, t, added)
           new == OnInterface(st, event)
<1>1. s \in Cached /\ s.known /\ ~s.unavailable /\ s.count \in Int /\ s.threadMembers \in [Ids -> Seq(Ids)]
  BY CachedParts, FineBefore DEF States
<1>2. new = st \/ new = With(st, g, c)
  BY ThreadMembersHandled
<1>3. \A x : x.slots = s.slots /\ x.messages = s.messages /\ x.known = s.known
             /\ x.unavailable = s.unavailable => Sound(x, e) /\ Mirrored(x, e)
  <2> SUFFICES ASSUME NEW x, x.slots = s.slots, x.messages = s.messages, x.known = s.known,
                      x.unavailable = s.unavailable
               PROVE  Sound(x, e) /\ Mirrored(x, e)
    OBVIOUS
  <2>1. \A k \in Kinds, i \in Ids : SameSlot(s, x, d, e, k, i)
    BY DEF SameSlot, At, Has
  <2>2. \A i \in Ids : SameChat(s, x, d, e, i)
    BY DEF SameChat, Messages, Said, Has
  <2> QED BY <1>1, <2>1, <2>2, Changed
<1>4. /\ c \in Cached /\ c.known = s.known /\ c.unavailable = s.unavailable
      /\ c.listed = s.listed /\ c.count = s.count /\ c.messages = s.messages /\ c.slots = s.slots
  <2> DEFINE m == [s.threadMembers EXCEPT ![t] = @ \o added]
  <2>1. s.threadMembers[t] \o added \in Seq(Ids)
    BY <1>1, ConcatProperties
  <2>2. m \in [Ids -> Seq(Ids)]
    BY <1>1, <2>1
  <2>3. c = [s EXCEPT !.threadMembers = m]
    BY DEF Joining
  <2> HIDE DEF m, c
  <2> QED BY <1>1, <2>2, <2>3 DEF Cached
<1> HIDE DEF c, new
<1>5. CASE new = st
  <2>1. new = [st EXCEPT ![g] = s]
    BY <1>5 DEF States
  <2>2. Sound(s, e) /\ Mirrored(s, e)
    BY <1>3
  <2>3. Counts(s, s, 0)
    BY <1>1 DEF Counts
  <2> QED BY <1>1, <2>1, <2>2, <2>3, StepBy DEF new
<1>6. CASE new = With(st, g, c)
  <2>1. new = [st EXCEPT ![g] = c]
    BY <1>6 DEF With
  <2>2. Sound(c, e) /\ Mirrored(c, e)
    BY <1>3, <1>4
  <2>3. Counts(s, c, 0)
    BY <1>1, <1>4 DEF Counts
  <2> QED BY <1>4, <2>1, <2>2, <2>3, StepBy DEF new
<1> QED BY <1>2, <1>5, <1>6

(* What is left of a list of different elements without one of them.       *)
-----------------------------------------------------------------------------
(* MESSAGE and MESSAGE_DELETE.                                             *)
Chatted(s, i, messages) == [s EXCEPT !.messages[i] = messages]

LEMMA ChatStep ==
    ASSUME NEW st \in States, NEW g \in Guilds, NEW i \in Ids, NEW messages \in Seq(Ids), NEW new,
           NEW d, NEW e, Sound(st[g], d), Mirrored(st[g], d),
           new = With(st, g, Chatted(st[g], i, messages)), e.has = d.has,
           \A j \in Ids : j # i => Said(e, j) = Said(d, j),
           FineChat(messages, Has(e, "channel", i), Said(e, i))
    PROVE  Step(st, g, new, e, 0)
<1> DEFINE s == st[g]
           c == Chatted(s, i, messages)
           m == [s.messages EXCEPT ![i] = messages]
<1>1. s \in Cached /\ s.known /\ ~s.unavailable /\ s.count \in Int /\ s.messages \in [Ids -> Seq(Ids)]
  BY CachedParts, FineBefore DEF States
<1>2. m \in [Ids -> Seq(Ids)] /\ m[i] = messages /\ \A j \in Ids : j # i => m[j] = s.messages[j]
  BY <1>1
<1>3. c = [s EXCEPT !.messages = m]
  BY DEF Chatted
<1> HIDE DEF m, c
<1>4. /\ c \in Cached /\ c.known = s.known /\ c.unavailable = s.unavailable
      /\ c.listed = s.listed /\ c.count = s.count /\ c.messages = m /\ c.slots = s.slots
  BY <1>1, <1>2, <1>3 DEF Cached
<1>5. \A k \in Kinds, j \in Ids : SameSlot(s, c, d, e, k, j)
  BY <1>4 DEF SameSlot, At, Has
<1>6. ASSUME NEW j \in Ids
      PROVE  \/ SameChat(s, c, d, e, j)
             \/ FineChat(Messages(c, j), Has(e, "channel", j), Said(e, j))
  <2>1. CASE j = i
    <3>1. Messages(c, j) = messages
      BY <1>2, <1>4, <2>1 DEF Messages
    <3> QED BY <2>1, <3>1
  <2>2. CASE j # i
    BY <1>2, <1>4, <2>2 DEF SameChat, Messages, Has
  <2> QED BY <2>1, <2>2
<1>7. Sound(c, e) /\ Mirrored(c, e)
  BY <1>1, <1>4, <1>5, <1>6, Changed
<1>8. Counts(s, c, 0) /\ new = [st EXCEPT ![g] = c]
  BY <1>1, <1>4 DEF Counts, With, c
<1> QED BY <1>4, <1>7, <1>8, StepBy

(* The messages of a channel after one more.                               *)
Latest(all) ==
    IF Len(all) > MaxMessageCount THEN SubSeq(all, Len(all) - MaxMessageCount + 1, Len(all)) ELSE all

LEMMA LatestParts ==
    ASSUME NEW s \in Seq(Ids), NEW m \in Ids, Distinct(s), ~Contains(s, m)
    PROVE  LET new == Latest(Append(s, m)) IN
           new \in Seq(Ids) /\ Distinct(new) /\ Range(new) \subseteq Range(s) \cup {m}
<1> DEFINE all == Append(s, m)
           n == Len(all)
           new == Latest(all)
<1>1. /\ all \in Seq(Ids) /\ n = Len(s) + 1 /\ Len(s) \in Nat
      /\ \A i \in 1 .. Len(s) : all[i] = s[i]
      /\ all[n] = m
  BY AppendProperties, LenProperties
<1>2. \A i \in 1 .. Len(s) : s[i] # m /\ s[i] \in Range(s)
  BY DEF Contains, Range
<1>3. \A i, j \in 1 .. n : all[i] = all[j] => i = j
  BY <1>1, <1>2 DEF Distinct
<1>4. \A i \in 1 .. n : all[i] \in Range(s) \cup {m}
  BY <1>1, <1>2
<1> HIDE DEF all
<1>5. CASE n > MaxMessageCount
  <2> DEFINE a == n - MaxMessageCount + 1
             sub == SubSeq(all, a, n)
  <2>1. a \in 1 .. n /\ n \in Nat
    BY <1>1, <1>5, StateAssumption
  <2>2. /\ sub \in Seq(Ids) /\ Len(sub) = n - a + 1
        /\ \A i \in 1 .. n - a + 1 : sub[i] = all[a + i - 1]
    <3>1. /\ SubSeq(all, a, n) \in Seq(Ids)
          /\ Len(SubSeq(all, a, n)) = IF a <= n THEN n - a + 1 ELSE 0
          /\ \A i \in 1 .. n - a + 1 : SubSeq(all, a, n)[i] = all[a + i - 1]
      BY <1>1, <2>1, SubSeqProperties
    <3> QED BY <2>1, <3>1
  <2> HIDE DEF a, sub
  <2>3. \A i \in 1 .. Len(sub) : a + i - 1 \in 1 .. n /\ sub[i] = all[a + i - 1]
    BY <2>1, <2>2
  <2>4. Distinct(sub)
    <3> SUFFICES ASSUME NEW i \in 1 .. Len(sub), NEW j \in 1 .. Len(sub), sub[i] = sub[j]
                 PROVE  i = j
      BY DEF Distinct
    <3>1. a + i - 1 = a + j - 1
      BY <1>3, <2>3
    <3> QED BY <2>1, <3>1
  <2>5. Range(sub) \subseteq Range(s) \cup {m}
    BY <1>4, <2>2, <2>3 DEF Range
  <2>6. new = sub
    BY <1>5 DEF Latest, sub, a
  <2> QED BY <2>2, <2>4, <2>5, <2>6 DEF all
<1>6. CASE ~(n > MaxMessageCount)
  <2>1. new = all
    BY <1>6 DEF Latest
  <2>2. Distinct(all)
    BY <1>3 DEF Distinct
  <2>3. Range(all) \subseteq Range(s) \cup {m}
    BY <1>1, <1>4 DEF Range
  <2> QED BY <1>1, <2>1, <2>2, <2>3 DEF all
<1> QED BY <1>5, <1>6

(* An event that changes nothing in the cache.                             *)
LEMMA StayStep ==
    ASSUME NEW st \in States, NEW g \in Guilds, NEW d \in Guild, NEW e \in Guild,
           Sound(st[g], d), Mirrored(st[g], d), e.has = d.has,
           \A i \in Ids : Said(d, i) \subseteq Said(e, i)
    PROVE  Step(st, g, st, e, 0)
<1> DEFINE s == st[g]
<1>1. s \in Cached /\ s.known /\ ~s.unavailable /\ s.count \in Int
  BY CachedParts, FineBefore DEF States
<1>2. \A k \in Kinds, i \in Ids : SameSlot(s, s, d, e, k, i)
  BY DEF SameSlot, Has
<1>3. ASSUME NEW i \in Ids
      PROVE  FineChat(Messages(s, i), Has(e, "channel", i), Said(e, i))
  <2>1. FineChat(Messages(s, i), Has(d, "channel", i), Said(d, i))
    BY FineBefore
  <2>2. Has(e, "channel", i) = Has(d, "channel", i)
    BY DEF Has
  <2> QED BY <2>1, <2>2 DEF FineChat
<1>4. Sound(s, e) /\ Mirrored(s, e)
  BY <1>1, <1>2, <1>3, Changed
<1>5. Counts(s, s, 0) /\ st = [st EXCEPT ![g] = s]
  BY <1>1 DEF Counts, States
<1> QED BY <1>1, <1>4, <1>5, StepBy

LEMMA MessageHandled ==
    ASSUME NEW st, NEW e, e.type = "MESSAGE"
    PROVE  \/ OnInterface(st, e) = st
              /\ (At(st[e.guild], "channel", e.id).map = 0
                  \/ Contains(Messages(st[e.guild], e.id), e.message))
           \/ OnInterface(st, e)
              = With(st, e.guild,
                     Chatted(st[e.guild], e.id, Latest(Append(Messages(st[e.guild], e.id), e.message))))
              /\ ~Contains(Messages(st[e.guild], e.id), e.message)
<1>1. OnInterface(st, e) = MessageAdd(st, e.guild, e.id, e.message)
  BY DEF OnInterface
<1> QED BY <1>1 DEF MessageAdd, Chatted, With, Latest, Messages, At

LEMMA DeleteHandled ==
    ASSUME NEW st, NEW e, e.type = "MESSAGE_DELETE"
    PROVE  \/ OnInterface(st, e) = st /\ At(st[e.guild], "channel", e.id).map = 0
           \/ OnInterface(st, e)
              = With(st, e.guild,
                     Chatted(st[e.guild], e.id, RemoveFirst(Messages(st[e.guild], e.id), e.message)))
<1>1. OnInterface(st, e) = MessageRemove(st, e.guild, e.id, e.message)
  BY DEF OnInterface
<1> QED BY <1>1 DEF MessageRemove, Chatted, With, Messages, At

LEMMA MessageStep ==
    ASSUME NEW st \in States, NEW g \in Guilds, NEW i \in Ids, NEW m \in Ids,
           NEW d \in Guild, NEW e \in Guild, NEW event,
           event.type = "MESSAGE", event.guild = g, event.id = i, event.message = m,
           Sound(st[g], d), Mirrored(st[g], d), e.has = d.has, Has(d, "channel", i) > 0,
           Said(e, i) = Said(d, i) \cup {m},
           \A j \in Ids : j # i => Said(e, j) = Said(d, j)
    PROVE  Step(st, g, OnInterface(st, event), e, 0)
<1> DEFINE s == st[g]
           old == Messages(s, i)
           new == Latest(Append(old, m))
<1>1. \/ OnInterface(st, event) = st
      \/ OnInterface(st, event) = With(st, g, Chatted(s, i, new)) /\ ~Contains(old, m)
  BY MessageHandled
<1>2. CASE OnInterface(st, event) = st
  <2>1. \A j \in Ids : Said(d, j) \subseteq Said(e, j)
    OBVIOUS
  <2> QED BY <1>2, <2>1, StayStep
<1>3. CASE OnInterface(st, event) = With(st, g, Chatted(s, i, new)) /\ ~Contains(old, m)
  <2>1. s \in Cached /\ old \in Seq(Ids)
    BY CachedParts DEF States
  <2>2. FineChat(old, Has(d, "channel", i), Said(d, i))
    BY FineBefore
  <2>3. Distinct(old)
    BY <2>2 DEF FineChat, Chat
  <2>4. new \in Seq(Ids) /\ Distinct(new) /\ Range(new) \subseteq Range(old) \cup {m}
    BY <1>3, <2>1, <2>3, LatestParts
  <2>5. Has(e, "channel", i) = Has(d, "channel", i)
    BY DEF Has
  <2> HIDE DEF old, new
  <2>6. FineChat(new, Has(e, "channel", i), Said(e, i))
    <3>1. Range(old) \subseteq Said(d, i)
      BY <2>2 DEF FineChat
    <3>2. Range(new) \subseteq Said(e, i)
      BY <2>4, <3>1
    <3>3. Has(e, "channel", i) # 0
      <4>1. Has(d, "channel", i) \in Nat \cup {Gone}
        BY GuildParts, KindsAre
      <4> QED BY <2>5, <4>1 DEF Gone
    <3> QED BY <2>4, <3>2, <3>3 DEF FineChat, Chat
  <2> DEFINE after == OnInterface(st, event)
  <2>7. after = With(st, g, Chatted(st[g], i, new))
    BY <1>3
  <2> HIDE DEF after
  <2>8. new \in Seq(Ids)
    BY <2>4
  <2>9. Step(st, g, after, e, 0)
    BY <2>6, <2>7, <2>8, ChatStep, ZenonT(30)
  <2> QED BY <2>9 DEF after
<1> QED BY <1>1, <1>2, <1>3

LEMMA DeleteStep ==
    ASSUME NEW st \in States, NEW g \in Guilds, NEW i \in Ids, NEW m \in Ids,
           NEW d \in Guild, NEW e \in Guild, NEW event,
           event.type = "MESSAGE_DELETE", event.guild = g, event.id = i, event.message = m,
           Sound(st[g], d), Mirrored(st[g], d), e.has = d.has, Has(d, "channel", i) > 0,
           Said(e, i) = Said(d, i) \ {m},
           \A j \in Ids : j # i => Said(e, j) = Said(d, j)
    PROVE  Step(st, g, OnInterface(st, event), e, 0)
<1> DEFINE s == st[g]
           old == Messages(s, i)
           new == RemoveFirst(old, m)
<1>1. \/ OnInterface(st, event) = st /\ At(s, "channel", i).map = 0
      \/ OnInterface(st, event) = With(st, g, Chatted(s, i, new))
  BY DeleteHandled
<1>2. s \in Cached /\ old \in Seq(Ids)
  BY CachedParts DEF States
<1>3. Has(d, "channel", i) # 0 /\ Version(Has(d, "channel", i)) # 0
  <2>1. Has(d, "channel", i) \in Nat \cup {Gone}
    BY GuildParts, KindsAre
  <2> QED BY <2>1, Versions DEF Gone
<1>4. At(s, "channel", i).map # 0
  <2>1. FineSlot(At(s, "channel", i), Has(d, "channel", i), "channel")
    BY FineBefore, KindsAre
  <2>2. At(s, "channel", i).list # 0 /\ Reached(At(s, "channel", i))
    BY <1>3, <2>1 DEF FineSlot, Good, Shown, ChannelKinds
  <2> QED BY <2>2 DEF Reached
<1>5. FineChat(old, Has(d, "channel", i), Said(d, i))
  BY FineBefore
<1>6. Distinct(old) /\ Range(old) \subseteq Said(d, i)
  BY <1>5 DEF FineChat, Chat
<1>7. /\ new \in Seq(Ids)
      /\ \A j \in 1 .. Len(new) :
             /\ \E k \in 1 .. Len(old) : new[j] = old[k]
             /\ new[j] # m
             /\ \A k \in 1 .. Len(new) : new[k] = new[j] => k = j
  <2>1. \A j, k \in 1 .. Len(old) : old[k] = old[j] => k = j
    BY <1>6 DEF Distinct
  <2> HIDE DEF old
  <2> QED BY <1>2, <2>1, RemoveFirstParts
<1>8. Has(e, "channel", i) = Has(d, "channel", i)
  BY DEF Has
<1> HIDE DEF old, new
<1>9. FineChat(new, Has(e, "channel", i), Said(e, i))
  <2>1. Distinct(new)
    BY <1>7 DEF Distinct
  <2>2. DOMAIN new = 1 .. Len(new) /\ DOMAIN old = 1 .. Len(old)
    BY <1>2, <1>7, LenProperties
  <2>3. ASSUME NEW j \in 1 .. Len(new) PROVE new[j] \in Said(e, i)
    <3>1. PICK k \in 1 .. Len(old) : new[j] = old[k]
      BY <1>7
    <3>2. old[k] \in Range(old)
      BY <2>2, <3>1 DEF Range
    <3> QED BY <1>6, <1>7, <3>1, <3>2
  <2>4. Range(new) \subseteq Said(e, i)
    BY <2>2, <2>3 DEF Range
  <2> QED BY <1>3, <1>8, <2>1, <2>4 DEF FineChat, Chat
<1>10. OnInterface(st, event) = With(st, g, Chatted(s, i, new))
  BY <1>1, <1>4
<1>11. new \in Seq(Ids)
  BY <1>7
<1> QED BY <1>9, <1>10, <1>11, ChatStep
-----------------------------------------------------------------------------
(* GUILD_CREATE and GUILD_UPDATE: the guild with the payload's lists.      *)
Added(s, payload) ==
    [known |-> TRUE, listed |-> s.listed \/ ~s.known, unavailable |-> FALSE,
     count |-> IF payload.count = 0 /\ s.known THEN s.count ELSE payload.count,
     slots |-> [k \in Kinds |-> [i \in Ids |->
         IF k \in DOMAIN payload.lists THEN Replaced(k, s.slots[k][i], payload.lists[k][i])
         ELSE Kept(s.known, s.slots[k][i])]],
     messages |-> [c \in Ids |->
         IF "channel" \in DOMAIN payload.lists /\ payload.lists["channel"][c] # 0
         THEN << >> ELSE s.messages[c]],
     threadMembers |-> [t \in Ids |->
         IF "thread" \in DOMAIN payload.lists /\ payload.lists["thread"][t] # 0
         THEN << >> ELSE s.threadMembers[t]]]

LEMMA AddHandled ==
    ASSUME NEW st, NEW e, e.type \in {"GUILD_CREATE", "GUILD_UPDATE"}
    PROVE  OnInterface(st, e) = With(st, e.guild, Added(st[e.guild], e.payload))
<1>1. OnInterface(st, e) = GuildAdd(st, e.guild, e.payload)
  BY DEF OnInterface
<1> QED BY <1>1 DEF GuildAdd, Added, With

AddTo(s, c, count, lists) ==
    /\ c \in Cached /\ c.known /\ ~c.unavailable
    /\ c.listed <=> s.listed \/ ~s.known
    /\ c.count = IF count = 0 /\ s.known THEN s.count ELSE count
    /\ \A k \in Kinds, i \in Ids :
          /\ k \in DOMAIN lists => At(c, k, i) = Replaced(k, At(s, k, i), lists[k][i])
          /\ k \notin DOMAIN lists => At(c, k, i) = Kept(s.known, At(s, k, i))
    /\ \A i \in Ids :
          /\ "channel" \notin DOMAIN lists => Messages(c, i) = Messages(s, i)
          /\ "channel" \in DOMAIN lists =>
                Messages(c, i) = IF lists["channel"][i] # 0 THEN << >> ELSE Messages(s, i)

LEMMA ReplacedParts ==
    ASSUME NEW slot \in Slot, NEW v \in Int, NEW k \in Kinds
    PROVE  /\ Replaced(k, slot, v) \in Slot
           /\ k \in GuildMaps => Replaced(k, slot, v) = Fresh(v)
           /\ k \in ChannelKinds /\ v # 0 => Replaced(k, slot, v) = Fresh(v)
           /\ k \in ChannelKinds /\ v = 0 =>
                 Replaced(k, slot, v).list = 0 /\ Replaced(k, slot, v).map = slot.map
           /\ k \notin GuildMaps \cup ChannelKinds => Replaced(k, slot, v).list = v
           /\ \A known \in BOOLEAN : Kept(known, slot) \in Slot
<1>1. k \notin GuildMaps \/ k \notin ChannelKinds
  BY DEF GuildMaps, ChannelKinds
<1>2. Fresh(v) \in Slot /\ [slot EXCEPT !.list = 0, !.same = FALSE] \in Slot
      /\ [Empty EXCEPT !.list = v] \in Slot
  BY SlotParts
<1>3. CASE k \in GuildMaps
  <2>1. Replaced(k, slot, v) = Fresh(v)
    BY <1>1, <1>3 DEF Replaced
  <2> QED BY <1>1, <1>2, <1>3, <2>1 DEF Kept
<1>4. CASE k \in ChannelKinds
  <2>1. Replaced(k, slot, v) = IF v # 0 THEN Fresh(v) ELSE [slot EXCEPT !.list = 0, !.same = FALSE]
    BY <1>1, <1>4 DEF Replaced
  <2>2. LET f == [slot EXCEPT !.list = 0, !.same = FALSE] IN f.list = 0 /\ f.map = slot.map
    BY DEF Slot
  <2> QED BY <1>1, <1>2, <1>4, <2>1, <2>2 DEF Kept
<1>5. CASE k \notin GuildMaps \cup ChannelKinds
  <2>1. Replaced(k, slot, v) = [Empty EXCEPT !.list = v]
    BY <1>5 DEF Replaced
  <2>2. [Empty EXCEPT !.list = v].list = v
    BY DEF Empty
  <2> QED BY <1>2, <1>5, <2>1, <2>2 DEF Kept
<1> QED BY <1>3, <1>4, <1>5

LEMMA AddParts ==
    ASSUME NEW s \in Cached, NEW K \in SUBSET Kinds, NEW lists \in [K -> [Ids -> Int]],
           NEW payload, payload.lists = lists, payload.count \in Int
    PROVE  AddTo(s, Added(s, payload), payload.count, lists)
<1> DEFINE c == Added(s, payload)
           slots == [k \in Kinds |-> [i \in Ids |->
               IF k \in K THEN Replaced(k, s.slots[k][i], lists[k][i])
               ELSE Kept(s.known, s.slots[k][i])]]
           m == [i \in Ids |-> IF "channel" \in K /\ lists["channel"][i] # 0
                               THEN << >> ELSE s.messages[i]]
           t == [i \in Ids |-> IF "thread" \in K /\ lists["thread"][i] # 0
                               THEN << >> ELSE s.threadMembers[i]]
<1>1. /\ s.known \in BOOLEAN /\ s.listed \in BOOLEAN /\ s.count \in Int
      /\ s.slots \in [Kinds -> [Ids -> Slot]] /\ s.messages \in [Ids -> Seq(Ids)]
      /\ s.threadMembers \in [Ids -> Seq(Ids)]
  BY CachedParts
<1>2. DOMAIN lists = K
  OBVIOUS
<1>3. /\ c.known = TRUE /\ c.unavailable = FALSE /\ c.listed = (s.listed \/ ~s.known)
      /\ c.count = IF payload.count = 0 /\ s.known THEN s.count ELSE payload.count
      /\ c.slots = slots /\ c.messages = m
  BY <1>2 DEF Added
<1>4. c = [known |-> TRUE, listed |-> s.listed \/ ~s.known, unavailable |-> FALSE,
           count |-> IF payload.count = 0 /\ s.known THEN s.count ELSE payload.count,
           slots |-> slots, messages |-> m, threadMembers |-> t]
  BY <1>2 DEF Added
<1>5. ASSUME NEW k \in Kinds, NEW i \in Ids
      PROVE  (IF k \in K THEN Replaced(k, s.slots[k][i], lists[k][i])
              ELSE Kept(s.known, s.slots[k][i])) \in Slot
  <2>1. s.slots[k][i] \in Slot
    BY <1>1
  <2>2. CASE k \in K
    <3>1. lists[k][i] \in Int
      BY <2>2
    <3> QED BY <2>1, <2>2, <3>1, ReplacedParts
  <2>3. CASE k \notin K
    <3>1. 0 \in Int
      OBVIOUS
    <3> QED BY <1>1, <2>1, <2>3, <3>1, ReplacedParts
  <2> QED BY <2>2, <2>3
<1>6. slots \in [Kinds -> [Ids -> Slot]]
  BY <1>5
<1>7. << >> \in Seq(Ids)
  BY EmptySeq
<1>8. m \in [Ids -> Seq(Ids)] /\ t \in [Ids -> Seq(Ids)]
  BY <1>1, <1>7
<1>9. \A k \in Kinds, i \in Ids :
         slots[k][i] = IF k \in K THEN Replaced(k, s.slots[k][i], lists[k][i])
                       ELSE Kept(s.known, s.slots[k][i])
  OBVIOUS
<1>10. \A i \in Ids : m[i] = IF "channel" \in K /\ lists["channel"][i] # 0
                             THEN << >> ELSE s.messages[i]
  OBVIOUS
<1> HIDE DEF slots, m, t, c
<1>11. c \in Cached
  <2>1. (IF payload.count = 0 /\ s.known THEN s.count ELSE payload.count) \in Int
    BY <1>1
  <2>2. (s.listed \/ ~s.known) \in BOOLEAN
    OBVIOUS
  <2> QED BY <1>4, <1>6, <1>8, <2>1, <2>2 DEF Cached
<1>12. \A k \in Kinds, i \in Ids :
          /\ k \in DOMAIN lists => At(c, k, i) = Replaced(k, At(s, k, i), lists[k][i])
          /\ k \notin DOMAIN lists => At(c, k, i) = Kept(s.known, At(s, k, i))
  BY <1>2, <1>3, <1>9 DEF At
<1>13. \A i \in Ids :
          /\ "channel" \notin DOMAIN lists => Messages(c, i) = Messages(s, i)
          /\ "channel" \in DOMAIN lists =>
                Messages(c, i) = IF lists["channel"][i] # 0 THEN << >> ELSE Messages(s, i)
  BY <1>2, <1>3, <1>10 DEF Messages
<1>14. c.listed <=> s.listed \/ ~s.known
  BY <1>3
<1> QED BY <1>3, <1>11, <1>12, <1>13, <1>14 DEF AddTo, c

(* What GUILD_CREATE tells of the guild: some of its members, all else.    *)
Complete(lists, d) ==
    /\ lists \in [Kinds -> [Ids -> Int]]
    /\ \A k \in Kinds, i \in Ids :
          /\ k = "member" => lists[k][i] \in {0, Version(Has(d, k, i))}
          /\ k = "presence" => (Has(d, "member", i) > 0 /\ Online(Version(Has(d, k, i)))
                                => lists[k][i] = Version(Has(d, k, i)))
          /\ k = "thread" => lists[k][i] = IF Archived(Version(Has(d, k, i))) THEN 0
                                           ELSE Version(Has(d, k, i))
          /\ k \notin {"member", "presence", "thread"} => lists[k][i] = Version(Has(d, k, i))

Comes(st, g, new, d, count) ==
    /\ Only(st, g, new) /\ Sound(new[g], d) /\ Mirrored(new[g], d)
    /\ new[g].listed <=> st[g].listed \/ ~st[g].known
    /\ new[g].count = IF count = 0 /\ st[g].known THEN st[g].count ELSE count

LEMMA ComesBy ==
    ASSUME NEW st \in States, NEW g \in Guilds, NEW new, NEW c \in Cached, NEW d, NEW count,
           new = With(st, g, c), Sound(c, d), Mirrored(c, d),
           c.listed <=> st[g].listed \/ ~st[g].known,
           c.count = IF count = 0 /\ st[g].known THEN st[g].count ELSE count
    PROVE  Comes(st, g, new, d, count)
<1>1. new[g] = c
  BY DEF With, States
<1> QED BY <1>1 DEF Comes, Only, With

LEMMA CreateStep ==
    ASSUME NEW st \in States, NEW g \in Guilds, NEW d \in Guild, NEW payload, NEW lists, NEW event,
           event.type = "GUILD_CREATE", event.guild = g, event.payload = payload,
           payload.lists = lists, payload.count \in Int, Complete(lists, d),
           Sound(st[g], d), Present(d)
    PROVE  Comes(st, g, OnInterface(st, event), d, payload.count)
<1> DEFINE s == st[g]
           c == Added(s, payload)
<1>1. s \in Cached
  BY DEF States
<1>2. OnInterface(st, event) = With(st, g, c)
  BY AddHandled
<1>3. lists \in [Kinds -> [Ids -> Int]] /\ DOMAIN lists = Kinds
  BY DEF Complete
<1>4. AddTo(s, c, payload.count, lists)
  BY <1>1, <1>3, AddParts
<1> HIDE DEF c
<1>5. ASSUME NEW k \in Kinds, NEW i \in Ids
      PROVE  FineSlot(At(c, k, i), Has(d, k, i), k)
  <2> DEFINE slot == At(s, k, i)
             now == Has(d, k, i)
             v == lists[k][i]
  <2>1. /\ slot \in Slot /\ now \in Nat \cup {Gone} /\ v \in Int
        /\ At(c, k, i) = Replaced(k, slot, v)
    BY <1>1, <1>3, <1>4, CachedParts, GuildParts DEF AddTo
  <2>2. Good(k, slot, now, s.known, ~s.unavailable)
    BY DEF Sound
  <2>3. /\ k = "member" => v \in {0, Version(now)}
        /\ k = "presence" => (Online(Version(now)) => v = Version(now))
        /\ k = "thread" => v = Version(now) \/ (v = 0 /\ Archived(Version(now)))
        /\ k \notin {"member", "presence", "thread"} => v = Version(now)
    <3>1. k = "presence" /\ Online(Version(now)) => Has(d, "member", i) > 0
      <4>1. ASSUME k = "presence", ~(now > 0) PROVE ~Online(Version(now))
        <5>1. Version(now) = 0
          BY <2>1, <4>1, Versions
        <5>2. 0 % 2 # 1
          OBVIOUS
        <5> QED BY <5>1, <5>2 DEF Online
      <4>2. now > 0 /\ k = "presence" => Has(d, "member", i) > 0
        BY DEF Present
      <4> QED BY <4>1, <4>2
    <3> QED BY <3>1 DEF Complete
  <2> HIDE DEF slot, now, v
  <2>4. /\ now > 0 => Version(now) = now
        /\ ~(now > 0) => Version(now) = 0
    BY <2>1, Versions
  <2>5. Tied(Fresh(v)) /\ Reached(Fresh(v)) /\ Fresh(v).list = v /\ Fresh(v).map = v
    BY <2>1, FreshShows
  <2>6. CASE k \in GuildMaps
    <3>1. At(c, k, i) = Fresh(v)
      BY <2>1, <2>6, ReplacedParts
    <3> QED BY <2>3, <2>4, <2>5, <2>6, <3>1 DEF FineSlot, Good, Shown, GuildMaps, ChannelKinds, now
  <2>7. CASE k \in ChannelKinds /\ v # 0
    <3>1. At(c, k, i) = Fresh(v)
      BY <2>1, <2>7, ReplacedParts
    <3>2. now # 0 /\ v = Version(now)
      BY <2>1, <2>3, <2>4, <2>7 DEF ChannelKinds, Gone
    <3> QED BY <2>5, <2>7, <3>1, <3>2 DEF FineSlot, Good, Shown, Threaded, ChannelKinds, now
  <2>8. CASE k \in ChannelKinds /\ v = 0
    <3>1. At(c, k, i).list = 0 /\ At(c, k, i).map = slot.map
      <4>1. Replaced(k, slot, v).list = 0 /\ Replaced(k, slot, v).map = slot.map
        BY <2>1, <2>8, ReplacedParts
      <4> QED BY <2>1, <4>1
    <3>2. Reached(At(c, k, i)) /\ (At(c, k, i).map # 0 => now # 0)
      BY <2>2, <2>8, <3>1 DEF Good, Reached
    <3>3. CASE k = "thread"
      <4>1. Threaded(At(c, k, i), Version(now))
        BY <2>3, <2>8, <3>1, <3>3 DEF Threaded
      <4> QED BY <3>2, <3>3, <4>1 DEF FineSlot, Good, Shown, ChannelKinds, now
    <3>4. CASE k = "channel"
      BY <2>3, <2>8, <3>1, <3>2, <3>4 DEF FineSlot, Good, Shown, ChannelKinds, now
    <3> QED BY <2>8, <3>3, <3>4 DEF ChannelKinds
  <2>9. CASE k \notin GuildMaps \cup ChannelKinds
    <3>1. At(c, k, i).list = v
      BY <2>1, <2>9, ReplacedParts
    <3> QED BY <2>3, <2>9, <3>1 DEF FineSlot, Good, Shown, GuildMaps, ChannelKinds, now
  <2> QED BY <2>6, <2>7, <2>8, <2>9
<1>6. ASSUME NEW i \in Ids
      PROVE  FineChat(Messages(c, i), Has(d, "channel", i), Said(d, i))
  <2> DEFINE now == Has(d, "channel", i)
             v == lists["channel"][i]
  <2>1. now \in Nat \cup {Gone} /\ v = Version(now)
    BY GuildParts, KindsAre DEF Complete
  <2>2. Messages(c, i) = IF v # 0 THEN << >> ELSE Messages(s, i)
    BY <1>3, <1>4, KindsAre DEF AddTo
  <2>3. Chat(Messages(s, i), now)
    BY DEF Sound
  <2> HIDE DEF now, v
  <2>4. CASE v # 0
    <3>1. Range(<< >>) = {} /\ Len(<< >>) = 0
      BY DEF Range
    <3>2. FineChat(<< >>, now, Said(d, i))
      BY <3>1 DEF FineChat, Chat, Distinct
    <3> QED BY <2>2, <2>4, <3>2 DEF now
  <2>5. CASE v = 0
    <3>1. ~(now > 0)
      <4>1. now > 0 => Version(now) = now
        BY <2>1, Versions
      <4>2. Version(now) = 0
        BY <2>1, <2>5
      <4>3. ~(0 > 0)
        OBVIOUS
      <4> QED BY <4>1, <4>2, <4>3
    <3> QED BY <2>2, <2>3, <2>5, <3>1 DEF FineChat, now
  <2> QED BY <2>4, <2>5
<1>7. Sound(c, d) /\ Mirrored(c, d)
  BY <1>4, <1>5, <1>6, Fine DEF AddTo
<1>8. c \in Cached /\ (c.listed <=> s.listed \/ ~s.known)
      /\ c.count = IF payload.count = 0 /\ s.known THEN s.count ELSE payload.count
  BY <1>4 DEF AddTo
<1> QED BY <1>2, <1>7, <1>8, ComesBy

(* GUILD_UPDATE.                                                           *)
Renewed(K, lists, d) ==
    /\ K = {"role", "emoji"} /\ lists \in [K -> [Ids -> Int]]
    /\ \A k \in K, i \in Ids : lists[k][i] = Version(Has(d, k, i))

LEMMA UpdateStep ==
    ASSUME NEW st \in States, NEW g \in Guilds, NEW d \in Guild, NEW payload, NEW lists, NEW K, NEW event,
           event.type = "GUILD_UPDATE", event.guild = g, event.payload = payload,
           payload.lists = lists, payload.count = 0, Renewed(K, lists, d),
           Sound(st[g], d), Mirrored(st[g], d)
    PROVE  Step(st, g, OnInterface(st, event), d, 0)
<1> DEFINE s == st[g]
           c == Added(s, payload)
<1> USE DEF Renewed
<1>1. s \in Cached /\ s.known /\ ~s.unavailable /\ s.count \in Int /\ s.listed \in BOOLEAN
  BY CachedParts, FineBefore DEF States
<1>2. OnInterface(st, event) = With(st, g, c)
  BY AddHandled
<1>3. DOMAIN lists = K /\ K \in SUBSET Kinds /\ payload.count \in Int
  BY KindsAre
<1>4. AddTo(s, c, payload.count, lists)
  BY <1>1, <1>3, AddParts
<1> HIDE DEF c
<1>5. ASSUME NEW k \in Kinds, NEW i \in Ids
      PROVE  SameSlot(s, c, d, d, k, i) \/ FineSlot(At(c, k, i), Has(d, k, i), k)
  <2> DEFINE slot == At(s, k, i)
             v == lists[k][i]
  <2>1. CASE k \in K
    <3>1. /\ slot \in Slot /\ v \in Int /\ v = Version(Has(d, k, i))
          /\ At(c, k, i) = Replaced(k, slot, v)
      <4>1. At(s, k, i) \in Slot
        BY <1>1, CachedParts
      <4>2. lists[k][i] \in Int /\ lists[k][i] = Version(Has(d, k, i))
        BY <2>1
      <4>3. At(c, k, i) = Replaced(k, At(s, k, i), lists[k][i])
        BY <1>3, <1>4, <2>1 DEF AddTo
      <4> QED BY <4>1, <4>2, <4>3
    <3> HIDE DEF slot, v
    <3>2. k \in GuildMaps /\ k # "member" /\ k \notin ChannelKinds /\ k \notin {"presence", "thread"}
      BY <2>1 DEF GuildMaps, ChannelKinds
    <3>3. At(c, k, i) = Fresh(v)
      BY <3>1, <3>2, ReplacedParts
    <3>4. Tied(Fresh(v)) /\ Fresh(v).list = v
      BY <3>1 DEF Fresh, Tied
    <3> QED BY <3>1, <3>2, <3>3, <3>4 DEF FineSlot, Good, Shown
  <2>2. CASE k \notin K
    <3>1. At(c, k, i) = Kept(s.known, slot)
      BY <1>3, <1>4, <2>2 DEF AddTo
    <3> QED BY <1>1, <3>1 DEF Kept, SameSlot
  <2> QED BY <2>1, <2>2
<1>6. \A i \in Ids : SameChat(s, c, d, d, i)
  BY <1>3, <1>4 DEF AddTo, SameChat
<1>7. c \in Cached /\ c.known /\ ~c.unavailable /\ (c.listed <=> s.listed) /\ c.count = s.count
  BY <1>1, <1>4 DEF AddTo
<1>8. Sound(c, d) /\ Mirrored(c, d)
  BY <1>1, <1>5, <1>6, <1>7, Changed
<1>9. Counts(s, c, 0)
  <2>1. c.listed \in BOOLEAN
    BY <1>7, CachedParts
  <2> QED BY <1>1, <1>7, <2>1 DEF Counts
<1> QED BY <1>2, <1>7, <1>8, <1>9, StepBy DEF With
-----------------------------------------------------------------------------
(* GUILD_DELETE and READY: a guild that is unknown or a stub.              *)
Away(s, c) ==
    /\ c \in Cached /\ c.messages = s.messages
    /\ \A k \in Kinds, i \in Ids :
          /\ k = "member" => At(c, k, i) = Empty
          /\ k \in ChannelKinds => At(c, k, i).list = 0 /\ At(c, k, i).map = At(s, k, i).map

LEMMA AwaySound ==
    ASSUME NEW s, NEW c, NEW d, Away(s, c), Sound(s, d), ~c.known \/ c.unavailable
    PROVE  Sound(c, d)
<1>1. ASSUME NEW k \in Kinds, NEW i \in Ids
      PROVE  Good(k, At(c, k, i), Has(d, k, i), c.known, ~c.unavailable)
  <2>1. Good(k, At(s, k, i), Has(d, k, i), s.known, ~s.unavailable)
    BY DEF Sound
  <2>2. CASE k = "member"
    <3>1. At(c, k, i) = Empty
      BY <2>2 DEF Away
    <3>2. Tied(Empty) /\ Empty.list = 0
      BY SlotParts DEF Tied
    <3> QED BY <2>2, <3>1, <3>2 DEF Good, ChannelKinds
  <2>3. CASE k \in ChannelKinds
    <3>1. At(c, k, i).list = 0 /\ At(c, k, i).map = At(s, k, i).map
      BY <2>3 DEF Away
    <3> QED BY <2>1, <2>3, <3>1 DEF Good, ChannelKinds, Reached
  <2>4. CASE k # "member" /\ k \notin ChannelKinds
    BY <2>4 DEF Good
  <2> QED BY <2>2, <2>3, <2>4
<1>2. \A i \in Ids : Chat(Messages(c, i), Has(d, "channel", i))
  BY DEF Sound, Away, Messages
<1> QED BY <1>1, <1>2 DEF Sound

(* The slots of a guild whose lists are gone.                              *)
Unlisted(s, emptied) ==
    [k \in Kinds |-> [i \in Ids |->
        IF k \in emptied THEN Empty ELSE [s.slots[k][i] EXCEPT !.list = 0, !.same = FALSE]]]

LEMMA UnlistedParts ==
    ASSUME NEW s \in Cached, NEW emptied
    PROVE  /\ Unlisted(s, emptied) \in [Kinds -> [Ids -> Slot]]
           /\ \A k \in Kinds, i \in Ids :
                 /\ k \in emptied => Unlisted(s, emptied)[k][i] = Empty
                 /\ k \notin emptied =>
                       /\ Unlisted(s, emptied)[k][i].list = 0
                       /\ Unlisted(s, emptied)[k][i].map = At(s, k, i).map
<1>1. ASSUME NEW slot \in Slot
      PROVE  LET f == [slot EXCEPT !.list = 0, !.same = FALSE] IN
             f \in Slot /\ f.list = 0 /\ f.map = slot.map
  <2>1. [slot EXCEPT !.list = 0, !.same = FALSE] \in Slot
    BY SlotParts
  <2>2. LET f == [slot EXCEPT !.list = 0, !.same = FALSE] IN f.list = 0 /\ f.map = slot.map
    BY DEF Slot
  <2> QED BY <2>1, <2>2
<1>2. s.slots \in [Kinds -> [Ids -> Slot]] /\ Empty \in Slot
  BY CachedParts, SlotParts
<1> DEFINE f(k, i) == IF k \in emptied THEN Empty
                      ELSE [s.slots[k][i] EXCEPT !.list = 0, !.same = FALSE]
<1>3. ASSUME NEW k \in Kinds, NEW i \in Ids
      PROVE  /\ f(k, i) \in Slot
             /\ k \in emptied => f(k, i) = Empty
             /\ k \notin emptied => f(k, i).list = 0 /\ f(k, i).map = At(s, k, i).map
  <2>1. At(s, k, i) \in Slot /\ At(s, k, i) = s.slots[k][i]
    BY CachedParts DEF At
  <2>2. CASE k \in emptied
    BY <1>2, <2>2
  <2>3. CASE k \notin emptied
    <3>1. f(k, i) = [At(s, k, i) EXCEPT !.list = 0, !.same = FALSE]
      BY <2>1, <2>3
    <3> HIDE DEF f
    <3> QED BY <1>1, <2>1, <2>3, <3>1
  <2> QED BY <2>2, <2>3
<1>4. Unlisted(s, emptied) = [k \in Kinds |-> [i \in Ids |-> f(k, i)]]
  BY DEF Unlisted
<1> HIDE DEF f
<1>5. \A k \in Kinds, i \in Ids : Unlisted(s, emptied)[k][i] = f(k, i)
  BY <1>4
<1>6. Unlisted(s, emptied) \in [Kinds -> [Ids -> Slot]]
  BY <1>3, <1>4
<1> QED BY <1>3, <1>5, <1>6

LEMMA CountOf ==
    ASSUME NEW s \in Cached
    PROVE  [s EXCEPT !.count = 0] \in Cached
<1> SUFFICES ASSUME NEW n \in Int PROVE [s EXCEPT !.count = n] \in Cached
  OBVIOUS
<1> QED BY DEF Cached

Left(s) ==
    [s EXCEPT !.known = FALSE, !.listed = FALSE, !.unavailable = FALSE, !.count = 0,
              !.slots = Unlisted(s, Kinds \ ChannelKinds)]

LEMMA LeaveHandled ==
    ASSUME NEW st, NEW e, e.type = "GUILD_DELETE"
    PROVE  \/ OnInterface(st, e) = st /\ ~st[e.guild].known
           \/ OnInterface(st, e) = With(st, e.guild, Left(st[e.guild]))
<1>1. OnInterface(st, e) = GuildRemove(st, e.guild)
  BY DEF OnInterface
<1> DEFINE old == st[e.guild]
<1>2. [k \in Kinds |-> [i \in Ids |->
          IF k \in ChannelKinds THEN [old.slots[k][i] EXCEPT !.list = 0, !.same = FALSE] ELSE Empty]]
      = Unlisted(old, Kinds \ ChannelKinds)
  BY DEF Unlisted
<1>3. OnInterface(st, e)
      = IF ~old.known THEN st
        ELSE [st EXCEPT ![e.guild] =
                 [old EXCEPT !.known = FALSE, !.listed = FALSE, !.unavailable = FALSE, !.count = 0,
                     !.slots = [k \in Kinds |-> [i \in Ids |->
                         IF k \in ChannelKinds
                         THEN [old.slots[k][i] EXCEPT !.list = 0, !.same = FALSE] ELSE Empty]]]]
  BY <1>1 DEF GuildRemove
<1> HIDE DEF old
<1>4. OnInterface(st, e) = IF ~old.known THEN st ELSE [st EXCEPT ![e.guild] = Left(old)]
  BY <1>2, <1>3 DEF Left
<1> QED BY <1>4 DEF With, old

LEMMA LeftParts ==
    ASSUME NEW s \in Cached
    PROVE  Away(s, Left(s)) /\ ~Left(s).known
<1> DEFINE slots == Unlisted(s, Kinds \ ChannelKinds)
<1>1. /\ slots \in [Kinds -> [Ids -> Slot]]
      /\ \A k \in Kinds, i \in Ids :
            /\ k \in Kinds \ ChannelKinds => slots[k][i] = Empty
            /\ k \notin Kinds \ ChannelKinds => slots[k][i].list = 0 /\ slots[k][i].map = At(s, k, i).map
  BY UnlistedParts
<1> DEFINE c == Left(s)
<1>2. c = [s EXCEPT !.known = FALSE, !.listed = FALSE, !.unavailable = FALSE, !.count = 0,
                    !.slots = slots]
  BY DEF Left
<1> HIDE DEF slots, c
<1>3. c \in Cached /\ ~c.known /\ c.messages = s.messages /\ c.slots = slots
  <2> DEFINE a == [s EXCEPT !.known = FALSE, !.listed = FALSE, !.unavailable = FALSE]
             b == [a EXCEPT !.count = 0]
  <2>1. c \in Cached
    <3>1. a \in Cached
      BY DEF Cached
    <3>2. b \in Cached
      <4> HIDE DEF a
      <4> QED BY <3>1, CountOf
    <3>3. [b EXCEPT !.slots = slots] \in Cached
      <4> HIDE DEF b
      <4> QED BY <1>1, <3>2 DEF Cached
    <3>4. c = [b EXCEPT !.slots = slots]
      BY <1>2
    <3> QED BY <3>3, <3>4
  <2>2. c.known = FALSE /\ c.messages = s.messages /\ c.slots = slots
    BY <1>2 DEF Cached
  <2> QED BY <2>1, <2>2
<1>4. ASSUME NEW k \in Kinds, NEW i \in Ids
      PROVE  /\ k = "member" => At(c, k, i) = Empty
             /\ k \in ChannelKinds => At(c, k, i).list = 0 /\ At(c, k, i).map = At(s, k, i).map
  BY <1>1, <1>3 DEF At, ChannelKinds
<1> QED BY <1>3, <1>4 DEF Away, c

LEMMA LeaveStep ==
    ASSUME NEW st \in States, NEW g \in Guilds, NEW d, NEW event,
           event.type = "GUILD_DELETE", event.guild = g, Sound(st[g], d)
    PROVE  LET new == OnInterface(st, event) IN
           Only(st, g, new) /\ Sound(new[g], d) /\ ~new[g].known
<1>1. CASE OnInterface(st, event) = st /\ ~st[g].known
  BY <1>1 DEF Only, States
<1>2. CASE OnInterface(st, event) = With(st, g, Left(st[g]))
  <2> DEFINE c == Left(st[g])
             new == OnInterface(st, event)
  <2>1. Away(st[g], c) /\ ~c.known
    BY LeftParts DEF States
  <2>2. Sound(c, d)
    BY <2>1, AwaySound
  <2>3. c \in Cached
    BY <2>1 DEF Away
  <2> HIDE DEF c, new
  <2>4. new = [st EXCEPT ![g] = c] /\ new[g] = c
    BY <1>2 DEF With, States, c, new
  <2> QED BY <2>1, <2>2, <2>3, <2>4 DEF Only, new
<1> QED BY <1>1, <1>2, LeaveHandled

LEMMA StubParts ==
    ASSUME NEW s \in Cached
    PROVE  /\ Away(s, Stub(s)) /\ Stub(s).known /\ Stub(s).unavailable /\ Stub(s).listed
           /\ Stub(s).count = 0
<1> DEFINE slots == Unlisted(s, {"member"})
           c == Stub(s)
<1>1. /\ slots \in [Kinds -> [Ids -> Slot]]
      /\ \A k \in Kinds, i \in Ids :
            /\ k \in {"member"} => slots[k][i] = Empty
            /\ k \notin {"member"} => slots[k][i].list = 0 /\ slots[k][i].map = At(s, k, i).map
  BY UnlistedParts
<1>2. c = [s EXCEPT !.known = TRUE, !.listed = TRUE, !.unavailable = TRUE, !.count = 0,
                    !.slots = slots]
  <2>1. slots = [k \in Kinds |-> [i \in Ids |->
                    IF k = "member" THEN Empty
                    ELSE [s.slots[k][i] EXCEPT !.list = 0, !.same = FALSE]]]
    BY DEF Unlisted
  <2> HIDE DEF slots
  <2> QED BY <2>1 DEF Stub
<1> HIDE DEF slots, c
<1>3. /\ c \in Cached /\ c.known /\ c.unavailable /\ c.listed /\ c.count = 0
      /\ c.messages = s.messages /\ c.slots = slots
  <2> DEFINE a == [s EXCEPT !.known = TRUE, !.listed = TRUE, !.unavailable = TRUE]
             b == [a EXCEPT !.count = 0]
  <2>1. c \in Cached
    <3>1. a \in Cached
      BY DEF Cached
    <3>2. b \in Cached
      <4> HIDE DEF a
      <4> QED BY <3>1, CountOf
    <3>3. [b EXCEPT !.slots = slots] \in Cached
      <4> HIDE DEF b
      <4> QED BY <1>1, <3>2 DEF Cached
    <3>4. c = [b EXCEPT !.slots = slots]
      BY <1>2
    <3> QED BY <3>3, <3>4
  <2>2. /\ c.known = TRUE /\ c.unavailable = TRUE /\ c.listed = TRUE /\ c.count = 0
        /\ c.messages = s.messages /\ c.slots = slots
    BY <1>2 DEF Cached
  <2> QED BY <2>1, <2>2
<1>4. ASSUME NEW k \in Kinds, NEW i \in Ids
      PROVE  /\ k = "member" => At(c, k, i) = Empty
             /\ k \in ChannelKinds => At(c, k, i).list = 0 /\ At(c, k, i).map = At(s, k, i).map
  BY <1>1, <1>3 DEF At, ChannelKinds
<1> QED BY <1>3, <1>4 DEF Away, c

(* After READY: the guilds of the new session are stubs.                   *)
LEMMA ReadyStep ==
    ASSUME NEW st \in States, NEW ds, NEW event, event.type = "READY",
           \A g \in Guilds : Sound(st[g], ds[g])
    PROVE  LET new == OnInterface(st, event) IN
           /\ new \in States
           /\ \A g \in Guilds :
                 /\ Sound(new[g], ds[g])
                 /\ g \in event.guilds => new[g].known /\ new[g].listed /\ new[g].count = 0
                 /\ g \notin event.guilds => new[g].known = st[g].known
<1> DEFINE new == OnInterface(st, event)
           f(g) == IF g \in event.guilds THEN Stub(st[g]) ELSE [st[g] EXCEPT !.listed = FALSE]
<1>1. new = [g \in Guilds |-> f(g)]
  BY DEF OnInterface, onReady
<1>2. ASSUME NEW g \in Guilds
      PROVE  /\ f(g) \in Cached /\ Sound(f(g), ds[g])
             /\ g \in event.guilds => f(g).known /\ f(g).listed /\ f(g).count = 0
             /\ g \notin event.guilds => f(g).known = st[g].known
  <2>1. st[g] \in Cached /\ Sound(st[g], ds[g])
    BY DEF States
  <2>2. CASE g \in event.guilds
    <3>1. /\ Away(st[g], f(g)) /\ f(g).known /\ f(g).unavailable /\ f(g).listed
          /\ f(g).count = 0
      BY <2>1, <2>2, StubParts
    <3>2. Sound(f(g), ds[g])
      BY <2>1, <3>1, AwaySound
    <3> QED BY <2>2, <3>1, <3>2 DEF Away
  <2>3. CASE g \notin event.guilds
    <3> DEFINE c == [st[g] EXCEPT !.listed = FALSE]
    <3>1. /\ c \in Cached /\ c.known = st[g].known /\ c.unavailable = st[g].unavailable
          /\ c.slots = st[g].slots /\ c.messages = st[g].messages
      BY <2>1 DEF Cached
    <3>2. f(g) = c
      BY <2>3
    <3> HIDE DEF c
    <3>3. Sound(c, ds[g])
      BY <2>1, <3>1 DEF Sound, At, Messages
    <3> HIDE DEF f
    <3> QED BY <2>3, <3>1, <3>2, <3>3
  <2> QED BY <2>2, <2>3
<1> HIDE DEF f
<1>3. \A g \in Guilds : new[g] = f(g)
  BY <1>1
<1>4. new \in States
  BY <1>1, <1>2 DEF States
<1> QED BY <1>2, <1>3, <1>4

(* Discord has more than it had: what was sound stays sound.               *)
LEMMA SoundStays ==
    ASSUME NEW s, NEW d, NEW e, Sound(s, d),
           \A k \in ChannelKinds, i \in Ids : Has(d, k, i) # 0 => Has(e, k, i) # 0
    PROVE  Sound(s, e)
<1>1. ASSUME NEW k \in Kinds, NEW i \in Ids
      PROVE  Good(k, At(s, k, i), Has(e, k, i), s.known, ~s.unavailable)
  <2>1. Good(k, At(s, k, i), Has(d, k, i), s.known, ~s.unavailable)
    BY DEF Sound
  <2> QED BY <2>1 DEF Good
<1>2. ASSUME NEW i \in Ids
      PROVE  Chat(Messages(s, i), Has(e, "channel", i))
  <2>1. Chat(Messages(s, i), Has(d, "channel", i))
    BY DEF Sound
  <2>2. "channel" \in ChannelKinds
    BY DEF ChannelKinds
  <2> QED BY <2>1, <2>2 DEF Chat
<1> QED BY <1>1, <1>2 DEF Sound
-----------------------------------------------------------------------------
(* The cache now and after each of the events under way.                   *)
Stages(h, st, events) ==
    /\ h \in [0 .. Len(events) -> States] /\ h[0] = st
    /\ \A i \in 1 .. Len(events) : h[i] = OnInterface(h[i - 1], events[i])

LEMMA OneMore ==
    ASSUME NEW S, NEW events \in Seq(S), NEW st, NEW h, Stages(h, st, events), NEW event,
           OnInterface(h[Len(events)], event) \in States
    PROVE  \E f : /\ Stages(f, st, Append(events, event))
                  /\ \A i \in 0 .. Len(events) : f[i] = h[i]
                  /\ f[Len(events) + 1] = OnInterface(h[Len(events)], event)
<1> DEFINE n == Len(events)
           new == OnInterface(h[n], event)
           f == [i \in 0 .. n + 1 |-> IF i <= n THEN h[i] ELSE new]
           more == Append(events, event)
<1>1. n \in Nat
  BY LenProperties
<1>2. /\ Len(more) = n + 1
      /\ \A i \in 1 .. n : more[i] = events[i]
      /\ more[n + 1] = event
  <2>1. events \in Seq(S \cup {event})
    BY SeqMonotonic
  <2> QED BY <2>1, AppendProperties
<1>3. /\ h \in [0 .. n -> States] /\ h[0] = st
      /\ \A i \in 1 .. n : h[i] = OnInterface(h[i - 1], events[i])
  BY DEF Stages
<1> HIDE DEF new, more, n
<1>4. f \in [0 .. n + 1 -> States]
  <2>1. new \in States
    BY DEF new, n
  <2>2. \A i \in 0 .. n + 1 : i <= n => h[i] \in States
    BY <1>1, <1>3
  <2> QED BY <1>1, <2>1, <2>2
<1>5. /\ \A i \in 0 .. n : f[i] = h[i]
      /\ f[n + 1] = new
  BY <1>1
<1> HIDE DEF f
<1>6. \A i \in 1 .. n + 1 : f[i] = OnInterface(f[i - 1], more[i])
  <2> SUFFICES ASSUME NEW i \in 1 .. n + 1 PROVE f[i] = OnInterface(f[i - 1], more[i])
    OBVIOUS
  <2>1. CASE i = n + 1
    <3>1. f[i - 1] = h[n] /\ more[i] = event /\ f[i] = new
      BY <1>1, <1>2, <1>5, <2>1
    <3> QED BY <3>1 DEF new
  <2>2. CASE i \in 1 .. n
    <3>1. i \in 0 .. n /\ i - 1 \in 0 .. n
      BY <1>1, <2>2
    <3>2. f[i - 1] = h[i - 1] /\ more[i] = events[i] /\ f[i] = h[i]
      BY <1>2, <1>5, <2>2, <3>1
    <3> QED BY <1>3, <2>2, <3>2
  <2> QED BY <1>1, <2>1, <2>2
<1>7. f[0] = st
  BY <1>1, <1>3, <1>5
<1>8. Stages(f, st, more)
  BY <1>2, <1>4, <1>6, <1>7 DEF Stages
<1> QED BY <1>5, <1>8 DEF new, more, n

LEMMA OneLess ==
    ASSUME NEW S, NEW events \in Seq(S), events # << >>, NEW st, NEW h, Stages(h, st, events)
    PROVE  \E f : /\ Stages(f, OnInterface(st, Head(events)), Tail(events))
                  /\ \A i \in 0 .. Len(events) - 1 : f[i] = h[i + 1]
<1> DEFINE n == Len(events)
           f == [i \in 0 .. n - 1 |-> h[i + 1]]
           rest == Tail(events)
<1>1. n \in Nat /\ n > 0
  BY EmptySeq, LenProperties
<1>2. /\ Len(rest) = n - 1
      /\ \A i \in 1 .. n - 1 : rest[i] = events[i + 1]
      /\ Head(events) = events[1]
  BY HeadTailProperties
<1>3. /\ h \in [0 .. n -> States] /\ h[0] = st
      /\ \A i \in 1 .. n : h[i] = OnInterface(h[i - 1], events[i])
  BY DEF Stages
<1> HIDE DEF rest, n
<1>4. f \in [0 .. n - 1 -> States]
  BY <1>1, <1>3
<1>5. \A i \in 0 .. n - 1 : f[i] = h[i + 1]
  OBVIOUS
<1> HIDE DEF f
<1>6. \A i \in 1 .. n - 1 : f[i] = OnInterface(f[i - 1], rest[i])
  <2> SUFFICES ASSUME NEW i \in 1 .. n - 1 PROVE f[i] = OnInterface(f[i - 1], rest[i])
    OBVIOUS
  <2>1. i \in 0 .. n - 1 /\ i - 1 \in 0 .. n - 1 /\ i + 1 \in 1 .. n /\ (i + 1) - 1 = i /\ (i - 1) + 1 = i
    BY <1>1
  <2>2. f[i] = h[i + 1] /\ f[i - 1] = h[i] /\ rest[i] = events[i + 1]
    BY <1>2, <1>5, <2>1
  <2>3. h[i + 1] = OnInterface(h[i], events[i + 1])
    BY <1>3, <2>1
  <2> QED BY <2>2, <2>3
<1>7. f[0] = OnInterface(st, Head(events))
  <2>1. 0 \in 0 .. n - 1 /\ 1 \in 1 .. n /\ 0 + 1 = 1 /\ 1 - 1 = 0
    BY <1>1
  <2>2. f[0] = h[1]
    BY <1>5, <2>1
  <2>3. h[1] = OnInterface(h[0], events[1])
    BY <1>3, <2>1
  <2> QED BY <1>2, <1>3, <2>2, <2>3
<1>8. Stages(f, OnInterface(st, Head(events)), rest)
  BY <1>2, <1>4, <1>6, <1>7 DEF Stages
<1> QED BY <1>5, <1>8 DEF rest, n

(* Who is in a guild.                                                      *)
Users(d) == {u \in Ids : Has(d, "member", u) > 0}

(* Whatever is still to be handled, what is found in the maps is sound,    *)
(* and in the end the cache mirrors the guilds that Discord tells of.      *)
Follows(h, n, ds, conn) ==
    /\ \A i \in 0 .. n, g \in Guilds : Sound(h[i][g], ds[g])
    /\ conn => \A g \in Guilds : ds[g].in => Mirrored(h[n][g], ds[g])

(* In the end it knows the guilds that the bot is in, lists them and       *)
(* counts their members: either no session will be lost any more, or no    *)
(* guild will be left.                                                     *)
Tallied(s, d) == d.in => s.listed /\ s.count = Cardinality(Users(d))
Tallies(h, n, ds, conn, lf) ==
    /\ lf["leaveAway"] = 0
    /\ \/ lf["lose"] = 0 /\ conn
       \/ lf["leave"] = 0 /\ \A i \in 0 .. n, g \in Guilds : h[i][g].known => ds[g].in
    /\ conn => \A g \in Guilds : (h[n][g].known => ds[g].in) /\ Tallied(h[n][g], ds[g])

Less(lf, lg) == \A w \in What : lg[w] \in Nat /\ lg[w] <= lf[w]

(* A cache that shows guild g as d, and handles the event, shows it as e,  *)
(* with m more members; the channels of d are not forgotten in e.          *)
Handled(d, g, event, e, m) ==
    \A x \in States : Sound(x[g], d) /\ Mirrored(x[g], d) => Step(x, g, OnInterface(x, event), e, m)
Remembered(d, e) == \A k \in ChannelKinds, i \in Ids : Has(d, k, i) # 0 => Has(e, k, i) # 0

(* As the cache followed the events to ds, it follows more of them to es.  *)
Continued(h, events, ds, lf, st, more, es, conn, lg) ==
    \E f : /\ Stages(f, st, more) /\ Follows(f, Len(more), es, conn)
           /\ Tallies(h, Len(events), ds, conn, lf) => Tallies(f, Len(more), es, conn, lg)

(* A change of guild g to e that the cache is told by an event, if it is   *)
(* told of the guild.                                                      *)
LEMMA ChangeFollowed ==
    ASSUME NEW ds \in [Guilds -> Guild], NEW g \in Guilds, NEW e \in Guild, e.in = ds[g].in,
           NEW S, NEW events \in Seq(S), NEW st, NEW h, Stages(h, st, events), NEW conn \in BOOLEAN,
           NEW event, NEW m \in Int,
           Follows(h, Len(events), ds, conn),
           Handled(ds[g], g, event, e, m), Remembered(ds[g], e),
           Cardinality(Users(e)) = Cardinality(Users(ds[g])) + m,
           NEW lf \in [What -> Nat], NEW lg, Less(lf, lg),
           NEW es, es = [ds EXCEPT ![g] = e],
           NEW more, more = IF conn /\ ds[g].in THEN Append(events, event) ELSE events
    PROVE  Continued(h, events, ds, lf, st, more, es, conn, lg)
<1> DEFINE n == Len(events)
<1>1. n \in Nat
  BY LenProperties
<1>2. /\ \A i \in 0 .. n, b \in Guilds : Sound(h[i][b], ds[b])
      /\ conn => \A b \in Guilds : ds[b].in => Mirrored(h[n][b], ds[b])
      /\ h \in [0 .. n -> States]
  BY DEF Follows, Stages
<1>3. \A b \in Guilds : es[b] = IF b = g THEN e ELSE ds[b]
  OBVIOUS
<1>4. \A b \in Guilds : es[b].in <=> ds[b].in
  BY <1>3
<1>5. /\ "leaveAway" \in What /\ "leave" \in What /\ "lose" \in What
      /\ \A w \in What : lf[w] = 0 => lg[w] = 0
  <2>1. \A w \in What : lf[w] = 0 => lg[w] = 0
    BY DEF Less
  <2> QED BY <2>1 DEF What
<1> HIDE DEF n
<1>6. \A i \in 0 .. n, b \in Guilds : Sound(h[i][b], es[b])
  <2> SUFFICES ASSUME NEW i \in 0 .. n, NEW b \in Guilds PROVE Sound(h[i][b], es[b])
    OBVIOUS
  <2>1. Sound(h[i][b], ds[b])
    BY <1>2
  <2> QED BY <1>3, <2>1, SoundStays DEF Remembered
<1>7. CASE conn /\ ds[g].in
  <2> DEFINE last == h[n]
             new == OnInterface(last, event)
  <2>1. n \in 0 .. n /\ last \in States /\ Sound(last[g], ds[g]) /\ Mirrored(last[g], ds[g])
    BY <1>1, <1>2, <1>7
  <2>2. Step(last, g, new, e, m)
    BY <2>1 DEF Handled
  <2>3. /\ new = [last EXCEPT ![g] = new[g]] /\ new[g] \in Cached
        /\ Sound(new[g], e) /\ Mirrored(new[g], e) /\ Counts(last[g], new[g], m)
    BY <2>2 DEF Step, Only
  <2> HIDE DEF last, new
  <2>4. new \in States /\ \A b \in Guilds : b # g => new[b] = last[b]
    BY <2>1, <2>3 DEF States
  <2>5. PICK f : /\ Stages(f, st, Append(events, event))
                 /\ \A i \in 0 .. n : f[i] = h[i]
                 /\ f[n + 1] = new
    BY <2>4, OneMore DEF n, new, last
  <2>6. Len(Append(events, event)) = n + 1
    <3>1. events \in Seq(S \cup {event})
      BY SeqMonotonic
    <3> QED BY <3>1, AppendProperties DEF n
  <2>7. \A b \in Guilds : Sound(new[b], es[b])
    BY <1>3, <1>6, <2>1, <2>3, <2>4 DEF last
  <2>8. \A b \in Guilds : es[b].in => Mirrored(new[b], es[b])
    BY <1>2, <1>3, <1>7, <2>3, <2>4 DEF last
  <2>9. Follows(f, n + 1, es, conn)
    <3>1. ASSUME NEW i \in 0 .. n + 1, NEW b \in Guilds PROVE Sound(f[i][b], es[b])
      <4>1. CASE i = n + 1
        BY <2>5, <2>7, <4>1
      <4>2. CASE i \in 0 .. n
        BY <1>6, <2>5, <4>2
      <4> QED BY <1>1, <4>1, <4>2
    <3> QED BY <2>5, <2>8, <3>1 DEF Follows
  <2>10. ASSUME Tallies(h, n, ds, conn, lf) PROVE Tallies(f, n + 1, es, conn, lg)
    <3>1. /\ lf["leaveAway"] = 0
          /\ \/ lf["lose"] = 0
             \/ lf["leave"] = 0 /\ \A i \in 0 .. n, b \in Guilds : h[i][b].known => ds[b].in
          /\ \A b \in Guilds : (last[b].known => ds[b].in) /\ Tallied(last[b], ds[b])
      BY <1>7, <2>10 DEF Tallies, last
    <3>2. \A b \in Guilds : new[b].known => es[b].in
      BY <1>4, <1>7, <2>4, <3>1
    <3>3. \A b \in Guilds : Tallied(new[b], es[b])
      <4>1. Tallied(new[g], e)
        BY <1>7, <2>3, <3>1 DEF Tallied, Counts
      <4> QED BY <1>3, <2>4, <3>1, <4>1
    <3>4. ASSUME \A i \in 0 .. n, b \in Guilds : h[i][b].known => ds[b].in
          PROVE  \A i \in 0 .. n + 1, b \in Guilds : f[i][b].known => es[b].in
      <4> SUFFICES ASSUME NEW i \in 0 .. n + 1, NEW b \in Guilds, f[i][b].known PROVE es[b].in
        OBVIOUS
      <4>1. CASE i = n + 1
        BY <2>5, <3>2, <4>1
      <4>2. CASE i \in 0 .. n
        BY <1>4, <2>5, <3>4, <4>2
      <4> QED BY <1>1, <4>1, <4>2
    <3>5. lg["leaveAway"] = 0 /\ (lf["lose"] = 0 => lg["lose"] = 0) /\ (lf["leave"] = 0 => lg["leave"] = 0)
      BY <1>5, <3>1
    <3> QED BY <1>7, <2>5, <3>1, <3>2, <3>3, <3>4, <3>5 DEF Tallies
  <2> QED BY <1>7, <2>5, <2>6, <2>9, <2>10 DEF n, Continued
<1>8. CASE ~(conn /\ ds[g].in)
  <2>1. Follows(h, n, es, conn)
    BY <1>2, <1>3, <1>6, <1>8 DEF Follows
  <2>2. ASSUME Tallies(h, n, ds, conn, lf) PROVE Tallies(h, n, es, conn, lg)
    <3>1. \A b \in Guilds : conn /\ Tallied(h[n][b], ds[b]) => Tallied(h[n][b], es[b])
      BY <1>3, <1>8 DEF Tallied
    <3>2. /\ lg["leaveAway"] = 0 /\ (lf["lose"] = 0 => lg["lose"] = 0) /\ (lf["leave"] = 0 => lg["leave"] = 0)
      BY <1>5, <2>2 DEF Tallies
    <3> QED BY <1>4, <2>2, <3>1, <3>2 DEF Tallies
  <2> QED BY <1>8, <2>1, <2>2 DEF n, Continued
<1> QED BY <1>7, <1>8

(* Whatever the cache shows of guild g before, the event leaves g mirrored *)
(* as e, or unknown if the bot is not in it.                               *)
Attended(d, g, event, e) ==
    \A x \in States : Sound(x[g], d) =>
        LET new == OnInterface(x, event) IN
        /\ Only(x, g, new) /\ Sound(new[g], e)
        /\ e.in => /\ Mirrored(new[g], e)
                   /\ ~x[g].known => Tallied(new[g], e)
        /\ ~e.in => ~new[g].known

(* The bot joins or leaves guild g, whose contents stay; the event, if the *)
(* cache is told, leaves it mirrored or unknown.                           *)
LEMMA GuildFollowed ==
    ASSUME NEW ds \in [Guilds -> Guild], NEW g \in Guilds, NEW e \in Guild, e.in # ds[g].in,
           NEW S, NEW events \in Seq(S), NEW st, NEW h, Stages(h, st, events), NEW conn \in BOOLEAN,
           NEW event, Follows(h, Len(events), ds, conn), e.has = ds[g].has,
           Attended(ds[g], g, event, e),
           NEW lf \in [What -> Nat], NEW lg, Less(lf, lg),
           ~e.in => lf[IF conn THEN "leave" ELSE "leaveAway"] # 0,
           NEW es, es = [ds EXCEPT ![g] = e],
           NEW more, more = IF conn THEN Append(events, event) ELSE events
    PROVE  Continued(h, events, ds, lf, st, more, es, conn, lg)
<1> DEFINE n == Len(events)
<1>1. n \in Nat
  BY LenProperties
<1>2. /\ \A i \in 0 .. n, b \in Guilds : Sound(h[i][b], ds[b])
      /\ conn => \A b \in Guilds : ds[b].in => Mirrored(h[n][b], ds[b])
      /\ h \in [0 .. n -> States]
  BY DEF Follows, Stages
<1>3. \A b \in Guilds : es[b] = IF b = g THEN e ELSE ds[b]
  OBVIOUS
<1>4. /\ "leaveAway" \in What /\ "leave" \in What /\ "lose" \in What
      /\ \A w \in What : lf[w] = 0 => lg[w] = 0
  <2>1. \A w \in What : lf[w] = 0 => lg[w] = 0
    BY DEF Less
  <2> QED BY <2>1 DEF What
<1> HIDE DEF n
<1>5. \A i \in 0 .. n, b \in Guilds : Sound(h[i][b], es[b])
  <2> SUFFICES ASSUME NEW i \in 0 .. n, NEW b \in Guilds PROVE Sound(h[i][b], es[b])
    OBVIOUS
  <2>1. Sound(h[i][b], ds[b])
    BY <1>2
  <2>2. \A k, j : Has(e, k, j) = Has(ds[g], k, j)
    BY DEF Has
  <2> QED BY <1>3, <2>1, <2>2, SoundStays
<1>6. ASSUME Tallies(h, n, ds, conn, lf)
      PROVE  /\ lg["leaveAway"] = 0
             /\ \/ lg["lose"] = 0 /\ conn
                \/ lg["leave"] = 0 /\ e.in /\ \A i \in 0 .. n, b \in Guilds : h[i][b].known => ds[b].in
  <2>1. /\ lf["leaveAway"] = 0
        /\ \/ lf["lose"] = 0 /\ conn
           \/ lf["leave"] = 0 /\ \A i \in 0 .. n, b \in Guilds : h[i][b].known => ds[b].in
    BY <1>6 DEF Tallies
  <2>2. lg["leaveAway"] = 0 /\ (lf["lose"] = 0 => lg["lose"] = 0) /\ (lf["leave"] = 0 => lg["leave"] = 0)
    BY <1>4, <2>1
  <2>3. CASE conn
    <3>1. ~e.in => lf["leave"] # 0
      BY <2>3
    <3> QED BY <2>1, <2>2, <3>1
  <2>4. CASE ~conn
    <3>1. ~e.in => lf["leaveAway"] # 0
      BY <2>4
    <3> QED BY <2>1, <2>2, <2>4, <3>1
  <2> QED BY <2>3, <2>4
<1>7. ASSUME e.in, \A i \in 0 .. n, b \in Guilds : h[i][b].known => ds[b].in
      PROVE  \A i \in 0 .. n, b \in Guilds : h[i][b].known => es[b].in
  BY <1>3, <1>7
<1>8. CASE conn
  <2> DEFINE last == h[n]
             new == OnInterface(last, event)
  <2>1. n \in 0 .. n /\ last \in States /\ Sound(last[g], ds[g])
    BY <1>1, <1>2
  <2>2. /\ Only(last, g, new) /\ Sound(new[g], e)
        /\ e.in => /\ Mirrored(new[g], e)
                   /\ ~last[g].known => Tallied(new[g], e)
        /\ ~e.in => ~new[g].known
    BY <2>1 DEF Attended
  <2>3. new = [last EXCEPT ![g] = new[g]] /\ new[g] \in Cached
    BY <2>2 DEF Only
  <2> HIDE DEF last, new
  <2>4. new \in States /\ \A b \in Guilds : b # g => new[b] = last[b]
    BY <2>1, <2>3 DEF States
  <2>5. PICK f : /\ Stages(f, st, Append(events, event))
                 /\ \A i \in 0 .. n : f[i] = h[i]
                 /\ f[n + 1] = new
    BY <2>4, OneMore DEF n, new, last
  <2>6. Len(Append(events, event)) = n + 1
    <3>1. events \in Seq(S \cup {event})
      BY SeqMonotonic
    <3> QED BY <3>1, AppendProperties DEF n
  <2>7. \A b \in Guilds : Sound(new[b], es[b])
    BY <1>3, <1>5, <2>1, <2>2, <2>4 DEF last
  <2>8. \A b \in Guilds : es[b].in => Mirrored(new[b], es[b])
    BY <1>2, <1>3, <1>8, <2>2, <2>4 DEF last
  <2>9. Follows(f, n + 1, es, conn)
    <3>1. ASSUME NEW i \in 0 .. n + 1, NEW b \in Guilds PROVE Sound(f[i][b], es[b])
      <4>1. CASE i = n + 1
        BY <2>5, <2>7, <4>1
      <4>2. CASE i \in 0 .. n
        BY <1>5, <2>5, <4>2
      <4> QED BY <1>1, <4>1, <4>2
    <3> QED BY <2>5, <2>8, <3>1 DEF Follows
  <2>10. ASSUME Tallies(h, n, ds, conn, lf) PROVE Tallies(f, n + 1, es, conn, lg)
    <3>1. \A b \in Guilds : (last[b].known => ds[b].in) /\ Tallied(last[b], ds[b])
      BY <1>8, <2>10 DEF Tallies, last
    <3>2. \A b \in Guilds : new[b].known => es[b].in
      BY <1>3, <2>2, <2>4, <3>1
    <3>3. \A b \in Guilds : Tallied(new[b], es[b])
      <4>1. Tallied(new[g], e)
        <5>1. CASE e.in
          <6>1. ~ds[g].in
            BY <5>1 DEF Guild
          <6> QED BY <2>2, <3>1, <5>1, <6>1
        <5>2. CASE ~e.in
          BY <5>2 DEF Tallied
        <5> QED BY <5>1, <5>2
      <4> QED BY <1>3, <2>4, <3>1, <4>1
    <3>4. ASSUME e.in, \A i \in 0 .. n, b \in Guilds : h[i][b].known => ds[b].in
          PROVE  \A i \in 0 .. n + 1, b \in Guilds : f[i][b].known => es[b].in
      <4> SUFFICES ASSUME NEW i \in 0 .. n + 1, NEW b \in Guilds, f[i][b].known PROVE es[b].in
        OBVIOUS
      <4>1. CASE i = n + 1
        BY <2>5, <3>2, <4>1
      <4>2. CASE i \in 0 .. n
        BY <1>7, <2>5, <3>4, <4>2
      <4> QED BY <1>1, <4>1, <4>2
    <3> QED BY <1>6, <1>8, <2>5, <2>10, <3>2, <3>3, <3>4 DEF Tallies
  <2> QED BY <1>8, <2>5, <2>6, <2>9, <2>10 DEF n, Continued
<1>9. CASE ~conn
  <2>1. Follows(h, n, es, conn)
    BY <1>5, <1>9 DEF Follows
  <2>2. ASSUME Tallies(h, n, ds, conn, lf) PROVE Tallies(h, n, es, conn, lg)
    BY <1>6, <1>7, <1>9, <2>2 DEF Tallies
  <2> QED BY <1>9, <2>1, <2>2 DEF n, Continued
<1> QED BY <1>8, <1>9

LEMMA SetToSeqParts ==
    ASSUME NEW S, IsFiniteSet(S)
    PROVE  /\ SetToSeq(S) \in Seq(S)
           /\ \A x \in S : \E i \in 1 .. Len(SetToSeq(S)) : SetToSeq(S)[i] = x
           /\ \A i, j \in 1 .. Len(SetToSeq(S)) : SetToSeq(S)[i] = SetToSeq(S)[j] => i = j
<1> DEFINE n == Cardinality(S)
           f == SetToSeq(S)
<1>1. n \in Nat /\ ExistsBijection(1 .. n, S)
  BY FS_CardinalityType
<1>2. \E x \in [1 .. n -> S] : IsInjective(x)
  BY <1>1 DEF ExistsBijection, Bijection, Injection
<1>3. f \in [1 .. n -> S] /\ IsInjective(f)
  BY <1>2 DEF SetToSeq
<1> HIDE DEF f
<1>4. f \in Surjection(1 .. n, S)
  <2>1. f \in Injection(1 .. n, S)
    BY <1>3 DEF Injection
  <2>2. Cardinality(1 .. n) = n
    <3>1. Bijection(1 .. n, S) # {}
      BY <1>1 DEF ExistsBijection
    <3> QED BY <1>1, FS_Interval
  <2> HIDE DEF n
  <2> QED BY <2>1, <2>2, FS_Injection DEF n
<1>5. f \in Seq(S) /\ Len(f) = n
  <2> HIDE DEF n
  <2> QED BY <1>1, <1>3
<1>6. \A x \in S : \E i \in 1 .. n : f[i] = x
  BY <1>4 DEF Surjection
<1>7. \A i, j \in 1 .. n : f[i] = f[j] => i = j
  BY <1>3 DEF IsInjective
<1> QED BY <1>5, <1>6, <1>7 DEF f

(* A new session: READY, and then each guild that the bot is in.           *)
Greets(hello, ds) ==
    \A g \in Guilds :
        /\ hello[g].type = "GUILD_CREATE" /\ hello[g].guild = g
        /\ hello[g].payload.count = Cardinality(Users(ds[g]))
        /\ Complete(hello[g].payload.lists, ds[g])
Among(in, ds) == in \subseteq Guilds /\ \A g \in Guilds : g \in in <=> ds[g].in
Each(C, hello, in) == (\A g \in in : hello[g] \in C) /\ \A x \in C : \E g \in in : x = hello[g]
Restarted(st, events, ds) ==
    \E f : /\ Stages(f, st, events) /\ Follows(f, Len(events), ds, TRUE)
           /\ \A g \in Guilds : ds[g].in => Tallied(f[Len(events)][g], ds[g])
           /\ (\A g \in Guilds : st[g].known => ds[g].in)
              => \A i \in 0 .. Len(events), g \in Guilds : f[i][g].known => ds[g].in

LEMMA SessionFollowed ==
    ASSUME NEW ds \in [Guilds -> Guild], NEW st \in States, NEW in, Among(in, ds),
           \A g \in Guilds : Sound(st[g], ds[g]) /\ Present(ds[g]) /\ IsFiniteSet(Users(ds[g])),
           NEW ready, ready.type = "READY", ready.guilds = in, NEW hello, Greets(hello, ds),
           NEW C, Each(C, hello, in), NEW events, events = <<ready>> \o SetToSeq(C)
    PROVE  Restarted(st, events, ds) /\ \E S : events \in Seq(S)
<1> USE DEF Greets, Among
<1> DEFINE seq == SetToSeq(C)
           m == Len(seq)
           r == OnInterface(st, ready)
           made(g) == Added(r[g], hello[g].payload)
           done(i, g) == \E j \in 1 .. i - 1 : seq[j].guild = g
           stage(i) == [g \in Guilds |-> IF done(i, g) THEN made(g) ELSE r[g]]
           f == [i \in 0 .. m + 1 |-> IF i = 0 THEN st ELSE stage(i)]
<1>1. IsFiniteSet(C)
  <2>1. IsFiniteSet(in)
    BY StateAssumption, FS_Subset
  <2>2. [g \in in |-> hello[g]] \in Surjection(in, C)
    BY DEF Surjection, Each
  <2> QED BY <2>1, <2>2, FS_Surjection
<1>2. /\ seq \in Seq(C) /\ m \in Nat
      /\ \A x \in C : \E i \in 1 .. m : seq[i] = x
      /\ \A i, j \in 1 .. m : seq[i] = seq[j] => i = j
  <2> QED BY <1>1, SetToSeqParts, LenProperties
<1> HIDE DEF seq
<1>3. ASSUME NEW i \in 1 .. m
      PROVE  /\ seq[i].guild \in in /\ seq[i] = hello[seq[i].guild]
             /\ \A j \in 1 .. m : seq[j].guild = seq[i].guild => j = i
  <2>1. \A j \in 1 .. m : seq[j].guild \in in /\ seq[j] = hello[seq[j].guild]
    <3> SUFFICES ASSUME NEW j \in 1 .. m
                 PROVE  seq[j].guild \in in /\ seq[j] = hello[seq[j].guild]
      OBVIOUS
    <3>1. seq[j] \in C
      BY <1>2, ElementOfSeq
    <3>2. PICK g \in in : seq[j] = hello[g]
      BY <3>1 DEF Each
    <3> QED BY <3>2
  <2>2. ASSUME NEW j \in 1 .. m, seq[j].guild = seq[i].guild PROVE j = i
    <3>1. seq[j] = seq[i]
      BY <2>1, <2>2
    <3> QED BY <1>2, <3>1
  <2> QED BY <2>1, <2>2
<1>4. ASSUME NEW g \in in
      PROVE  \E i \in 1 .. m : seq[i].guild = g
  <2>1. hello[g] \in C
    BY DEF Each
  <2>2. PICK i \in 1 .. m : seq[i] = hello[g]
    BY <1>2, <2>1
  <2> QED BY <2>2
<1>5. /\ r \in States
      /\ \A g \in Guilds :
            /\ Sound(r[g], ds[g])
            /\ g \in in => r[g].known /\ r[g].listed /\ r[g].count = 0
            /\ g \notin in => r[g].known = st[g].known
  BY ReadyStep
<1>6. /\ Len(events) = m + 1 /\ events[1] = ready
      /\ \A i \in 1 .. m : events[i + 1] = seq[i]
      /\ \E S : events \in Seq(S)
  <2> DEFINE T == C \cup {ready}
  <2>1. seq \in Seq(T)
    <3>1. C \subseteq T
      OBVIOUS
    <3> HIDE DEF T
    <3> QED BY <1>2, <3>1, SeqMonotonic
  <2>2. <<ready>> \in Seq(T) /\ Len(<<ready>>) = 1 /\ <<ready>>[1] = ready
    OBVIOUS
  <2> HIDE DEF T
  <2>3. /\ Len(<<ready>> \o seq) = Len(<<ready>>) + m
        /\ \A i \in 1 .. Len(<<ready>>) + m :
               (<<ready>> \o seq)[i] = IF i <= Len(<<ready>>) THEN <<ready>>[i]
                                       ELSE seq[i - Len(<<ready>>)]
    BY <2>1, <2>2, ConcatProperties
  <2>4. events = <<ready>> \o seq
    BY DEF seq
  <2> HIDE DEF m
  <2>5. Len(events) = m + 1 /\ \A i \in 1 .. m + 1 : events[i] = IF i <= 1 THEN <<ready>>[i] ELSE seq[i - 1]
    BY <1>2, <2>2, <2>3, <2>4
  <2>6. events \in Seq(T)
    <3>1. <<ready>> \o seq \in Seq(T)
      BY <2>1, <2>2, ConcatProperties
    <3> QED BY <2>4, <3>1
  <2>7. events[1] = ready /\ \A i \in 1 .. m : events[i + 1] = seq[i]
    <3>1. \A i \in 1 .. m : i + 1 \in 1 .. m + 1 /\ ~(i + 1 <= 1) /\ (i + 1) - 1 = i
      BY <1>2
    <3> QED BY <1>2, <2>2, <2>5, <3>1
  <2> QED BY <2>5, <2>6, <2>7
<1> HIDE DEF r, m
<1>7. ASSUME NEW x \in States, NEW g \in in, x[g] = r[g]
      PROVE  /\ OnInterface(x, hello[g]) = [x EXCEPT ![g] = made(g)]
             /\ made(g) \in Cached /\ Sound(made(g), ds[g]) /\ Mirrored(made(g), ds[g])
             /\ made(g).listed /\ made(g).count = Cardinality(Users(ds[g]))
  <2>1. g \in Guilds /\ ds[g] \in Guild /\ hello[g].payload.count \in Int
    <3>1. Cardinality(Users(ds[g])) \in Nat
      BY FS_CardinalityType
    <3> QED BY <3>1
  <2>2. Sound(x[g], ds[g]) /\ x[g].known /\ x[g].listed /\ x[g].count = 0
    BY <1>5, <1>7, <2>1
  <2> DEFINE new == OnInterface(x, hello[g])
  <2>3. Comes(x, g, new, ds[g], hello[g].payload.count)
    BY <2>1, <2>2, CreateStep
  <2>4. new = [x EXCEPT ![g] = made(g)]
    BY <1>7, AddHandled DEF With
  <2> HIDE DEF new, made
  <2>5. new[g] = made(g)
    BY <2>1, <2>4 DEF States
  <2>6. /\ made(g) \in Cached /\ Sound(made(g), ds[g]) /\ Mirrored(made(g), ds[g])
        /\ (made(g).listed <=> x[g].listed \/ ~x[g].known)
        /\ made(g).count = IF hello[g].payload.count = 0 /\ x[g].known THEN x[g].count
                           ELSE hello[g].payload.count
    BY <2>3, <2>5 DEF Comes, Only
  <2>7. made(g).count = hello[g].payload.count
    BY <2>1, <2>2, <2>6
  <2> QED BY <2>1, <2>2, <2>4, <2>6, <2>7 DEF new
<1> HIDE DEF made
<1>8. ASSUME NEW g \in Guilds
      PROVE  (IF g \in in THEN made(g) ELSE r[g]) \in Cached
  <2>1. r \in States
    BY <1>5
  <2>2. CASE g \in in
    BY <1>7, <2>1, <2>2
  <2>3. CASE g \notin in
    BY <2>1, <2>3 DEF States
  <2> QED BY <2>2, <2>3
<1>9. ASSUME NEW i \in 1 .. m + 1, NEW g \in Guilds, done(i, g) PROVE g \in in
  <2>1. PICK j \in 1 .. i - 1 : seq[j].guild = g
    BY <1>9
  <2>2. j \in 1 .. m
    BY <1>2
  <2> QED BY <1>3, <2>1, <2>2
<1>10. ASSUME NEW i \in 1 .. m + 1 PROVE stage(i) \in States
  <2>1. ASSUME NEW g \in Guilds PROVE (IF done(i, g) THEN made(g) ELSE r[g]) \in Cached
    <3>1. CASE done(i, g)
      BY <1>8, <1>9, <3>1
    <3>2. CASE ~done(i, g)
      BY <1>5, <3>2 DEF States
    <3> QED BY <3>1, <3>2
  <2> HIDE DEF done
  <2> QED BY <2>1 DEF States
<1>11. stage(1) = r
  <2>1. \A g \in Guilds : ~done(1, g)
    OBVIOUS
  <2> HIDE DEF done
  <2> QED BY <1>5, <2>1 DEF States
<1>12. ASSUME NEW i \in 1 .. m
       PROVE  stage(i + 1) = OnInterface(stage(i), seq[i])
  <2> DEFINE g == seq[i].guild
  <2>1. g \in in /\ seq[i] = hello[g] /\ i \in 1 .. m + 1
    BY <1>2, <1>3
  <2>2. ~done(i, g) /\ done(i + 1, g)
    <3>1. \A j \in 1 .. m : seq[j].guild = seq[i].guild => j = i
      BY <1>3
    <3>2. ~done(i, g)
      <4> SUFFICES ASSUME NEW j \in 1 .. i - 1, seq[j].guild = g PROVE FALSE
        OBVIOUS
      <4>1. j \in 1 .. m /\ j # i
        BY <1>2
      <4> QED BY <3>1, <4>1
    <3>3. done(i + 1, g)
      <4>1. i \in 1 .. (i + 1) - 1
        BY <1>2
      <4> QED BY <4>1
    <3> QED BY <3>2, <3>3
  <2>3. ASSUME NEW b \in Guilds, b # g PROVE done(i + 1, b) <=> done(i, b)
    <3>1. \A j \in 1 .. i : j \in 1 .. i - 1 \/ j = i
      BY <1>2
    <3>2. (i + 1) - 1 = i /\ \A j \in 1 .. i - 1 : j \in 1 .. i
      BY <1>2
    <3> QED BY <2>3, <3>1, <3>2
  <2> HIDE DEF done, g
  <2>4. stage(i)[g] = r[g] /\ stage(i) \in States
    BY <1>10, <2>1, <2>2
  <2>5. OnInterface(stage(i), hello[g]) = [stage(i) EXCEPT ![g] = made(g)]
    <3> HIDE DEF stage
    <3> QED BY <1>7, <2>1, <2>4
  <2>6. stage(i + 1) = [stage(i) EXCEPT ![g] = made(g)]
    BY <2>1, <2>2, <2>3
  <2> HIDE DEF stage
  <2> QED BY <2>1, <2>5, <2>6
<1>13. ASSUME NEW g \in in PROVE done(m + 1, g)
  BY <1>2, <1>4
<1>14. \A g \in Guilds : stage(m + 1)[g] = IF g \in in THEN made(g) ELSE r[g]
  <2>1. m + 1 \in 1 .. m + 1
    BY <1>2
  <2>2. \A g \in Guilds : done(m + 1, g) <=> g \in in
    BY <1>9, <1>13, <2>1
  <2> HIDE DEF done
  <2> QED BY <2>2
<1>15. ASSUME NEW i \in 1 .. m + 1, NEW g \in Guilds
       PROVE  /\ Sound(stage(i)[g], ds[g])
              /\ (st[g].known => ds[g].in) => (stage(i)[g].known => ds[g].in)
  <2>1. CASE done(i, g)
    <3>1. g \in in /\ stage(i)[g] = made(g)
      BY <1>9, <2>1
    <3> QED BY <1>5, <1>7, <3>1
  <2>2. CASE ~done(i, g)
    <3>1. stage(i)[g] = r[g]
      BY <2>2
    <3> QED BY <1>5, <3>1
  <2> QED BY <2>1, <2>2
<1> HIDE DEF stage
<1>16. f \in [0 .. m + 1 -> States]
  BY <1>2, <1>10
<1>17. f[0] = st /\ \A i \in 1 .. m + 1 : f[i] = stage(i)
  BY <1>2
<1> HIDE DEF f
<1>18. Stages(f, st, events)
  <2>1. ASSUME NEW i \in 1 .. m + 1 PROVE f[i] = OnInterface(f[i - 1], events[i])
    <3>1. CASE i = 1
      BY <1>2, <1>6, <1>11, <1>17, <3>1 DEF r
    <3>2. CASE i # 1
      <4> DEFINE j == i - 1
      <4>1. j \in 1 .. m /\ j + 1 = i /\ j \in 1 .. m + 1
        BY <1>2, <3>2
      <4> HIDE DEF j
      <4>2. f[i] = stage(j + 1) /\ f[j] = stage(j) /\ events[i] = seq[j]
        BY <1>6, <1>17, <4>1
      <4> QED BY <1>12, <4>1, <4>2 DEF j
    <3> QED BY <3>1, <3>2
  <2> QED BY <1>6, <1>16, <1>17, <2>1 DEF Stages
<1>19. m + 1 \in 1 .. m + 1 /\ \A i \in 0 .. m + 1 : i = 0 \/ i \in 1 .. m + 1
  BY <1>2
<1>20. Follows(f, m + 1, ds, TRUE)
  <2>1. ASSUME NEW i \in 0 .. m + 1, NEW g \in Guilds PROVE Sound(f[i][g], ds[g])
    BY <1>15, <1>17, <1>19
  <2>2. ASSUME NEW g \in Guilds, ds[g].in PROVE Mirrored(f[m + 1][g], ds[g])
    <3>1. g \in in /\ f[m + 1][g] = made(g)
      BY <1>14, <1>17, <1>19, <2>2
    <3>2. r \in States
      BY <1>5
    <3> QED BY <1>7, <3>1, <3>2
  <2> QED BY <2>1, <2>2 DEF Follows
<1>21. ASSUME NEW g \in Guilds, ds[g].in PROVE Tallied(f[m + 1][g], ds[g])
  <2>1. g \in in /\ f[m + 1][g] = made(g)
    BY <1>14, <1>17, <1>19, <1>21
  <2>2. made(g).listed /\ made(g).count = Cardinality(Users(ds[g]))
    <3>1. r \in States
      BY <1>5
    <3> QED BY <1>7, <2>1, <3>1
  <2> QED BY <2>1, <2>2 DEF Tallied
<1>22. ASSUME \A g \in Guilds : st[g].known => ds[g].in,
              NEW i \in 0 .. m + 1, NEW g \in Guilds, f[i][g].known
       PROVE  ds[g].in
  BY <1>15, <1>17, <1>19, <1>22
<1>23. (\A g \in Guilds : st[g].known => ds[g].in)
       => \A i \in 0 .. m + 1, g \in Guilds : f[i][g].known => ds[g].in
  BY <1>22
<1> HIDE DEF f
<1> QED
  <2> DEFINE last == Len(events)
  <2>1. last = m + 1
    BY <1>6
  <2> HIDE DEF last
  <2>2. /\ Stages(f, st, events) /\ Follows(f, last, ds, TRUE)
        /\ \A g \in Guilds : ds[g].in => Tallied(f[last][g], ds[g])
        /\ (\A g \in Guilds : st[g].known => ds[g].in)
           => \A i \in 0 .. last, g \in Guilds : f[i][g].known => ds[g].in
    BY <1>18, <1>20, <1>21, <1>23, <2>1
  <2>3. Restarted(st, events, ds)
    BY <2>2 DEF Restarted, last
  <2> QED BY <1>6, <2>3
-----------------------------------------------------------------------------
(* The invariant: what Discord has, and what will become of the cache.     *)
DiscordTyped ==
    /\ discord \in [Guilds -> Guild] /\ connected \in BOOLEAN /\ left \in [What -> Nat]
    /\ \A g \in Guilds : Present(discord[g]) /\ IsFiniteSet(Users(discord[g]))

Followed(events, st, ds, conn, lf) ==
    /\ \E S : events \in Seq(S)
    /\ \E h : /\ Stages(h, st, events) /\ Follows(h, Len(events), ds, conn)
              /\ LeavesAreTold => Tallies(h, Len(events), ds, conn, lf)

CInv == DiscordTyped /\ Followed(stream, state, discord, connected, left)

LEMMA UseLess ==
    ASSUME left \in [What -> Nat], NEW w \in What, Use(w)
    PROVE  left' \in [What -> Nat] /\ Less(left, left') /\ left[w] # 0
BY DEF Use, Less

LEMMA CacheInit == Init => CInv
<1> SUFFICES ASSUME Init PROVE CInv
  OBVIOUS
<1> DEFINE h == [i \in 0 .. 0 |-> NewState]
<1>1. left \in [What -> Nat] /\ connected = TRUE /\ stream = << >> /\ state = NewState
  BY BoundsAssumption DEF Init
<1>2. LeavesAreTold => left["leaveAway"] = 0 /\ (left["leave"] = 0 \/ left["lose"] = 0)
  BY DEF Init, LeavesAreTold
<1>3. ASSUME NEW g \in Guilds
      PROVE  /\ discord[g] \in Guild /\ ~discord[g].in /\ Present(discord[g]) /\ Users(discord[g]) = {}
  <2>1. discord[g] = [in |-> FALSE, has |-> Nothing, threadMembers |-> [t \in Ids |-> {}],
                      messages |-> [c \in Ids |-> {}]]
    BY DEF Init
  <2>2. Nothing \in [Kinds -> [Ids -> Nat \cup {Gone}]]
        /\ \A k \in Kinds, i \in Ids : Nothing[k][i] = 0
    BY DEF Nothing
  <2>3. discord[g] \in Guild
    BY <2>1, <2>2 DEF Guild
  <2>4. \A k \in Kinds, i \in Ids : Has(discord[g], k, i) = 0
    BY <2>1, <2>2 DEF Has
  <2>5. "presence" \in Kinds /\ "member" \in Kinds
    BY KindsAre
  <2>6. Users(discord[g]) = {}
    BY <2>4, <2>5 DEF Users
  <2>7. ~discord[g].in
    BY <2>1
  <2>8. Present(discord[g])
    BY <2>4, <2>5 DEF Present
  <2> QED BY <2>3, <2>6, <2>7, <2>8
<1>4. discord \in [Guilds -> Guild]
  <2>1. discord = [g \in Guilds |-> discord[g]]
    BY DEF Init
  <2> QED BY <1>3, <2>1
<1>5. DiscordTyped
  BY <1>1, <1>3, <1>4, FS_EmptySet DEF DiscordTyped
<1>6. ASSUME NEW g \in Guilds
      PROVE  NewState[g] \in Cached /\ Sound(NewState[g], discord[g]) /\ NewState[g].known = FALSE
  <2> DEFINE s == NewState[g]
  <2>1. s = [known |-> FALSE, listed |-> FALSE, unavailable |-> FALSE, count |-> 0,
             slots |-> [k \in Kinds |-> [i \in Ids |-> Empty]],
             messages |-> [c \in Ids |-> << >>], threadMembers |-> [t \in Ids |-> << >>]]
    BY DEF NewState
  <2>2. [k \in Kinds |-> [i \in Ids |-> Empty]] \in [Kinds -> [Ids -> Slot]]
    BY SlotParts
  <2>3. [c \in Ids |-> << >>] \in [Ids -> Seq(Ids)]
    <3>1. << >> \in Seq(Ids)
      BY EmptySeq
    <3> QED BY <3>1
  <2> HIDE DEF s
  <2>4. s \in Cached
    BY <2>1, <2>2, <2>3 DEF Cached
  <2>5. /\ s.known = FALSE /\ \A k \in Kinds, i \in Ids : At(s, k, i) = Empty
        /\ \A i \in Ids : Messages(s, i) = << >>
    BY <2>1 DEF At, Messages
  <2>6. \A k \in Kinds, i \in Ids :
           Good(k, At(s, k, i), Has(discord[g], k, i), s.known, ~s.unavailable)
    BY <2>5, SlotParts DEF Good, Tied, Reached
  <2>7. Len(<< >>) = 0
    OBVIOUS
  <2>8. \A i \in Ids : Chat(Messages(s, i), Has(discord[g], "channel", i))
    BY <2>5, <2>7 DEF Chat, Distinct
  <2>9. Sound(s, discord[g])
    BY <2>6, <2>8 DEF Sound
  <2> QED BY <2>4, <2>5, <2>9 DEF s
<1>7. NewState \in States
  <2>1. NewState = [g \in Guilds |-> NewState[g]]
    BY DEF NewState
  <2> QED BY <1>6, <2>1 DEF States
<1>8. Len(stream) = 0 /\ \E S : stream \in Seq(S)
  <2>1. << >> \in Seq({}) /\ Len(<< >>) = 0
    BY EmptySeq
  <2> QED BY <1>1, <2>1
<1>9. h \in [0 .. 0 -> States] /\ \A i \in 0 .. 0 : h[i] = NewState
  BY <1>7
<1> HIDE DEF h
<1>10. Stages(h, state, stream)
  BY <1>1, <1>8, <1>9 DEF Stages
<1>11. Follows(h, 0, discord, connected)
  BY <1>3, <1>6, <1>9 DEF Follows
<1>12. ASSUME LeavesAreTold PROVE Tallies(h, 0, discord, connected, left)
  <2>1. \A i \in 0 .. 0, g \in Guilds : ~h[i][g].known
    BY <1>6, <1>9
  <2>2. \A g \in Guilds : Tallied(h[0][g], discord[g])
    BY <1>3 DEF Tallied
  <2> QED BY <1>1, <1>2, <1>12, <2>1, <2>2 DEF Tallies
<1> QED BY <1>5, <1>8, <1>10, <1>11, <1>12 DEF CInv, Followed

LEMMA ThingsParts ==
    ASSUME DiscordTyped, NEW g \in Guilds
    PROVE  /\ discord[g] \in Guild /\ Members(g) = Users(discord[g])
           /\ \A k \in Kinds : /\ Things(g, k) \in [Ids -> Int]
                               /\ \A i \in Ids : Things(g, k)[i] = Version(Has(discord[g], k, i))
<1>1. discord[g] \in Guild
  BY DEF DiscordTyped
<1>2. Members(g) = Users(discord[g])
  BY DEF Members, Users, Has
<1>3. ASSUME NEW k \in Kinds, NEW i \in Ids PROVE Version(Has(discord[g], k, i)) \in Int
  BY <1>1, GuildParts, Versions
<1>4. \A k \in Kinds : Things(g, k) = [i \in Ids |-> Version(Has(discord[g], k, i))]
  BY DEF Things, Has
<1> QED BY <1>1, <1>2, <1>3, <1>4

(* Nothing that the cache will show changes.                               *)
LEMMA CacheStays ==
    ASSUME CInv, UNCHANGED <<discord, stream, connected, state>>,
           left' \in [What -> Nat], Less(left, left')
    PROVE  CInv'
<1>1. PICK h : /\ Stages(h, state, stream) /\ Follows(h, Len(stream), discord, connected)
               /\ LeavesAreTold => Tallies(h, Len(stream), discord, connected, left)
  BY DEF CInv, Followed
<1>2. ASSUME Tallies(h, Len(stream), discord, connected, left)
      PROVE  Tallies(h, Len(stream), discord, connected, left')
  <2>1. "leaveAway" \in What /\ "leave" \in What /\ "lose" \in What
    BY DEF What
  <2>2. \A w \in What : left[w] = 0 => left'[w] = 0
    BY DEF Less
  <2> QED BY <1>2, <2>1, <2>2 DEF Tallies
<1>3. Followed(stream, state, discord, connected, left')
  BY <1>1, <1>2 DEF CInv, Followed
<1>4. DiscordTyped'
  BY DEF CInv, DiscordTyped
<1> QED BY <1>3, <1>4 DEF CInv

LEMMA EventKept ==
    ASSUME CInv, onEvent PROVE CInv'
<1> DEFINE n == Len(stream)
           rest == Tail(stream)
<1>1. /\ stream # << >> /\ stream' = rest /\ state' = OnInterface(state, Head(stream))
      /\ UNCHANGED <<discord, connected, left>>
  BY DEF onEvent, Begin
<1>2. PICK S : stream \in Seq(S)
  BY DEF CInv, Followed
<1>3. PICK h : /\ Stages(h, state, stream) /\ Follows(h, n, discord, connected)
               /\ LeavesAreTold => Tallies(h, n, discord, connected, left)
  BY DEF CInv, Followed
<1>4. PICK f : /\ Stages(f, state', rest)
               /\ \A i \in 0 .. n - 1 : f[i] = h[i + 1]
  BY <1>1, <1>2, <1>3, OneLess
<1>5. n \in Nat /\ n > 0 /\ Len(rest) = n - 1 /\ rest \in Seq(S)
  BY <1>1, <1>2, EmptySeq, HeadTailProperties, LenProperties
<1> HIDE DEF n, rest
<1>6. n - 1 \in 0 .. n - 1 /\ (n - 1) + 1 = n /\ \A i \in 0 .. n - 1 : i + 1 \in 0 .. n
  BY <1>5
<1>7. f[n - 1] = h[n]
  BY <1>4, <1>6
<1>8. Follows(f, n - 1, discord, connected)
  BY <1>3, <1>4, <1>6, <1>7 DEF Follows
<1>9. ASSUME LeavesAreTold PROVE Tallies(f, n - 1, discord, connected, left)
  BY <1>3, <1>4, <1>6, <1>7, <1>9 DEF Tallies
<1>10. Followed(rest, state', discord, connected, left)
  BY <1>4, <1>5, <1>8, <1>9 DEF Followed
<1>11. DiscordTyped'
  BY <1>1 DEF CInv, DiscordTyped
<1> QED BY <1>1, <1>10, <1>11 DEF CInv

(* Guild g changes to e, and the cache is told so by an event.             *)
Moved(g, event, e, m) ==
    /\ e \in Guild /\ e.in = discord[g].in /\ Present(e) /\ IsFiniteSet(Users(e))
    /\ m \in Int /\ Cardinality(Users(e)) = Cardinality(Users(discord[g])) + m
    /\ Handled(discord[g], g, event, e, m) /\ Remembered(discord[g], e)
    /\ discord' = [discord EXCEPT ![g] = e] /\ Told(g, event)

LEMMA ChangeKept ==
    ASSUME CInv, NEW g \in Guilds, NEW event, NEW e, NEW m, Moved(g, event, e, m),
           UNCHANGED <<connected, state>>, left' \in [What -> Nat], Less(left, left')
    PROVE  CInv'
<1> DEFINE more == IF connected /\ discord[g].in THEN Append(stream, event) ELSE stream
<1> USE DEF Moved
<1>1. DiscordTyped /\ discord \in [Guilds -> Guild] /\ connected \in BOOLEAN /\ left \in [What -> Nat]
  BY DEF CInv, DiscordTyped
<1>2. left' \in [What -> Nat] /\ Less(left, left')
  OBVIOUS
<1>3. stream' = more
  BY DEF Told
<1>4. PICK S : stream \in Seq(S)
  BY DEF CInv, Followed
<1>5. PICK h : /\ Stages(h, state, stream) /\ Follows(h, Len(stream), discord, connected)
               /\ LeavesAreTold => Tallies(h, Len(stream), discord, connected, left)
  BY DEF CInv, Followed
<1>6. PICK f : /\ Stages(f, state, more) /\ Follows(f, Len(more), discord', connected)
               /\ Tallies(h, Len(stream), discord, connected, left)
                  => Tallies(f, Len(more), discord', connected, left')
  <2> HIDE DEF more
  <2>1. Continued(h, stream, discord, left, state, more, discord', connected, left')
    BY <1>1, <1>2, <1>4, <1>5, ChangeFollowed DEF more
  <2> QED BY <2>1 DEF Continued
<1>7. \E T : more \in Seq(T)
  <2>1. stream \in Seq(S \cup {event})
    BY <1>4, SeqMonotonic
  <2>2. Append(stream, event) \in Seq(S \cup {event})
    BY <2>1, AppendProperties
  <2> QED BY <2>1, <2>2
<1> HIDE DEF more
<1>8. Followed(more, state, discord', connected, left')
  BY <1>5, <1>6, <1>7 DEF Followed
<1>9. DiscordTyped'
  <2>1. \A b \in Guilds : discord'[b] = IF b = g THEN e ELSE discord[b]
    BY <1>1
  <2>2. discord' \in [Guilds -> Guild]
    BY <1>1
  <2> QED BY <1>1, <1>2, <2>1, <2>2 DEF DiscordTyped
<1> QED BY <1>3, <1>8, <1>9 DEF CInv
-----------------------------------------------------------------------------
(* Discord's changes.                                                      *)
LEMMA AlteredParts ==
    ASSUME NEW d \in Guild, NEW k \in Kinds, NEW i \in Ids, NEW v \in Nat \cup {Gone},
           NEW e, e = Altered(d, k, i, v), k = "presence" => v > 0
    PROVE  /\ e \in Guild /\ e.in = d.in /\ Has(e, k, i) = v
           /\ \A l \in Kinds, j \in Ids : l # k \/ j # i =>
                 \/ Has(e, l, j) = Has(d, l, j)
                 \/ l = "presence" /\ j = i /\ k = "member" /\ v < 0 /\ Has(e, l, j) = Gone
           /\ k = "member" /\ v < 0 => \A l \in Kinds : l = "presence" => Has(e, l, i) = Gone
           /\ (k = "channel" /\ v < 0) \/ e.messages = d.messages
           /\ \A j \in Ids : (k = "channel" /\ j = i) \/ Said(e, j) = Said(d, j)
<1> DEFINE has == [d.has EXCEPT ![k][i] = v,
                       !["presence"][i] = IF k = "member" /\ v < 0 THEN Gone ELSE @]
           said == [d.messages EXCEPT ![i] = IF k = "channel" /\ v < 0 THEN {} ELSE @]
           joined == [d.threadMembers EXCEPT ![i] = IF k = "thread" /\ v < 0 THEN {} ELSE @]
<1>1. e = [in |-> d.in, has |-> has, threadMembers |-> joined, messages |-> said]
  BY DEF Altered, Guild
<1>2. /\ d.has \in [Kinds -> [Ids -> Nat \cup {Gone}]] /\ d.in \in BOOLEAN
      /\ d.threadMembers \in [Ids -> SUBSET Ids] /\ d.messages \in [Ids -> SUBSET Ids]
  BY DEF Guild
<1>3. "presence" \in Kinds /\ "member" # "presence" /\ Gone \in Int /\ Gone < 0
  BY KindsAre DEF Gone
<1>4. has \in [Kinds -> [Ids -> Nat \cup {Gone}]]
  BY <1>2, <1>3
<1>5. said \in [Ids -> SUBSET Ids] /\ joined \in [Ids -> SUBSET Ids]
  BY <1>2
<1>6. has[k][i] = v
  <2>1. CASE k = "presence"
    <3> DEFINE once == [d.has EXCEPT ![k][i] = v]
               twice(p) == [once EXCEPT ![p][i] = IF k = "member" /\ v < 0 THEN Gone ELSE @]
    <3>1. once \in [Kinds -> [Ids -> Nat \cup {Gone}]] /\ once[k][i] = v
      BY <1>2
    <3>2. has = twice("presence")
      OBVIOUS
    <3>3. twice(k)[k][i] = v
      <4> HIDE DEF once
      <4> QED BY <2>1, <3>1
    <3> HIDE DEF has, twice
    <3> QED BY <2>1, <3>2, <3>3
  <2>2. CASE k # "presence"
    BY <1>2, <1>3, <2>2
  <2> QED BY <2>1, <2>2
<1>7. \A l \in Kinds, j \in Ids : l # k \/ j # i =>
         \/ has[l][j] = d.has[l][j]
         \/ l = "presence" /\ j = i /\ k = "member" /\ v < 0 /\ has[l][j] = Gone
  BY <1>2, <1>3
<1>8. k = "member" /\ v < 0 => has["presence"][i] = Gone
  BY <1>2, <1>3
<1>9. (k = "channel" /\ v < 0) \/ said = d.messages
  BY <1>2
<1>10. \A j \in Ids : (k = "channel" /\ j = i) \/ said[j] = d.messages[j]
  BY <1>2
<1> HIDE DEF has, said, joined
<1>11. e \in Guild /\ e.in = d.in /\ e.has = has /\ e.messages = said
  BY <1>1, <1>4, <1>5 DEF Guild
<1> QED BY <1>6, <1>7, <1>8, <1>9, <1>10, <1>11 DEF Has, Said

LEMMA ChangeHandled ==
    ASSUME DiscordTyped, NEW g \in Guilds, NEW k \in Kinds, NEW i \in Ids, NEW d, d = discord[g],
           NEW now, now = Has(d, k, i), NEW v \in Nat \cup {Gone}, NEW e, e = Altered(d, k, i, v),
           now = Gone => k \in Returning,
           v = Version(now) + 1 \/ (v = Gone /\ now > 0 /\ k # "presence"),
           k = "presence" => \A l \in Kinds : l = "member" => Has(d, l, i) > 0,
           NEW m \in Int, m = IF k = "member" /\ v = 1 THEN 1 ELSE IF k = "member" /\ v = Gone THEN -1 ELSE 0
    PROVE  Handled(d, g, Change(g, k, i, v), e, m)
<1> SUFFICES ASSUME NEW st \in States, Sound(st[g], d), Mirrored(st[g], d)
             PROVE  Step(st, g, OnInterface(st, Change(g, k, i, v)), e, m)
  BY DEF Handled
<1> DEFINE event == Change(g, k, i, v)
<1>1. d \in Guild /\ now \in Nat \cup {Gone}
  BY GuildParts DEF DiscordTyped
<1>2. v \in Int /\ (v = Version(now) + 1 => v > 0) /\ (k = "presence" => v > 0) /\ Gone < 0
  BY <1>1, Versions DEF Gone
<1>3. /\ e \in Guild /\ Has(e, k, i) = v
      /\ \A l \in Kinds, j \in Ids : l # k \/ j # i =>
            \/ Has(e, l, j) = Has(d, l, j)
            \/ l = "presence" /\ j = i /\ k = "member" /\ v < 0 /\ Has(e, l, j) = Gone
      /\ (k = "channel" /\ v < 0) \/ e.messages = d.messages
      /\ \A j \in Ids : (k = "channel" /\ j = i) \/ Said(e, j) = Said(d, j)
  BY <1>1, <1>2, AlteredParts
<1>4. k # "member" \/ v > 0 =>
         \A l \in Kinds, j \in Ids : l # k \/ j # i => Has(e, l, j) = Has(d, l, j)
  BY <1>2, <1>3
<1>5. CASE k = "emoji"
  <2> DEFINE emojis == [Things(g, k) EXCEPT ![i] = Version(v)]
  <2>1. event.type = "GUILD_EMOJIS_UPDATE" /\ event.guild = g /\ event.emojis = emojis
    BY <1>5 DEF Change
  <2>2. \A j \in Ids : emojis[j] = Version(Has(e, k, j))
    <3>1. /\ Things(g, k) \in [Ids -> Int]
          /\ \A j \in Ids : Things(g, k)[j] = Version(Has(d, k, j))
      BY ThingsParts
    <3>2. \A j \in Ids : j # i => Has(e, k, j) = Has(d, k, j)
      BY <1>4, <1>5
    <3> QED BY <1>3, <2>1, <3>1, <3>2
  <2>3. e.messages = d.messages /\ m = 0
    BY <1>3, <1>5
  <2>4. \A l \in Kinds, j \in Ids : l # k => Has(e, l, j) = Has(d, l, j)
    BY <1>4, <1>5
  <2> HIDE DEF event, emojis
  <2>5. Step(st, g, OnInterface(st, event), e, 0)
    BY <1>1, <1>3, <1>5, <2>1, <2>2, <2>3, <2>4, EmojisStep
  <2> QED BY <2>3, <2>5 DEF event
<1>6. CASE k # "emoji" /\ v = Version(now) + 1
  <2>1. v > 0 /\ v # Gone /\ e.messages = d.messages
    BY <1>2, <1>3, <1>6
  <2>2. \A l \in Kinds, j \in Ids : l # k \/ j # i => Has(e, l, j) = Has(d, l, j)
    BY <1>4, <2>1
  <2>3. CASE k = "presence"
    <3>1. m = 0
      BY <2>3
    <3>2. PICK l \in Kinds : l = "member"
      BY KindsAre
    <3>3. Has(d, l, i) > 0
      BY <2>3, <3>2
    <3> QED BY <1>1, <1>2, <1>3, <2>1, <2>2, <2>3, <3>1, <3>2, <3>3, PresenceChange
  <2>4. CASE k = "member" /\ v = 1
    <3>1. m = v
      BY <2>4
    <3>2. ~(Has(d, k, i) > 0)
      BY <1>1, <1>6, <2>4, Versions
    <3> QED BY <1>1, <1>2, <1>3, <2>1, <2>2, <2>4, <3>1, <3>2, MemberComes
  <2>5. CASE k # "presence" /\ ~(k = "member" /\ v = 1)
    <3>1. m = 0
      BY <2>1, <2>5
    <3>2. Step(st, g, OnInterface(st, Change(g, k, i, v)), e, 0)
      BY <1>1, <1>2, <1>3, <1>6, <2>1, <2>2, <2>5, PutChange
    <3> QED BY <3>1, <3>2
  <2> QED BY <2>3, <2>4, <2>5
<1>7. CASE k # "emoji" /\ v = Gone /\ now > 0 /\ k # "presence"
  <2>1. v < 0
    BY <1>2, <1>7
  <2>2. CASE k = "member"
    <3>1. m = -1 /\ e.messages = d.messages
      BY <1>3, <1>7, <2>1, <2>2 DEF Gone
    <3>2. Step(st, g, OnInterface(st, Change(g, k, i, Gone)), e, m)
      BY <1>1, <1>3, <1>7, <2>2, <3>1, MemberGoes
    <3> QED BY <1>7, <3>2
  <2>3. CASE k # "member"
    <3>1. m = 0 /\ \A l \in Kinds, j \in Ids : l # k \/ j # i => Has(e, l, j) = Has(d, l, j)
      BY <1>4, <2>3
    <3>2. CASE k \in ChannelKinds
      <4>1. \A j \in Ids : k # "channel" \/ j # i => Said(e, j) = Said(d, j)
        BY <1>3
      <4>2. Step(st, g, OnInterface(st, Change(g, k, i, Gone)), e, 0)
        BY <1>1, <1>3, <1>7, <3>1, <3>2, <4>1, ChannelTaken
      <4> QED BY <1>7, <3>1, <4>2
    <3>3. CASE k \notin ChannelKinds
      <4>1. k \in {"role", "voice", "sound"} /\ e.messages = d.messages
        BY <1>3, <1>7, <2>3, <3>3, KindsAre DEF ChannelKinds
      <4>2. Step(st, g, OnInterface(st, Change(g, k, i, Gone)), e, 0)
        BY <1>1, <1>3, <1>7, <3>1, <4>1, TakeChange
      <4> QED BY <1>7, <3>1, <4>2
    <3> QED BY <3>2, <3>3
  <2> QED BY <2>2, <2>3
<1> QED BY <1>5, <1>6, <1>7

LEMMA UsersAltered ==
    ASSUME DiscordTyped, NEW g \in Guilds, NEW k \in Kinds, NEW i \in Ids, NEW d, d = discord[g],
           NEW now, now = Has(d, k, i), NEW v \in Nat \cup {Gone}, NEW e, e = Altered(d, k, i, v),
           v = Version(now) + 1 \/ (v = Gone /\ now > 0 /\ k # "presence"),
           k = "presence" => i \in Users(d),
           NEW m \in Int, m = IF k = "member" /\ v = 1 THEN 1 ELSE IF k = "member" /\ v = Gone THEN -1 ELSE 0
    PROVE  Present(e) /\ IsFiniteSet(Users(e)) /\ Cardinality(Users(e)) = Cardinality(Users(d)) + m
<1>1. d \in Guild /\ now \in Nat \cup {Gone} /\ Present(d) /\ IsFiniteSet(Users(d))
  BY GuildParts DEF DiscordTyped
<1>2. v \in Int /\ (v = Version(now) + 1 => v > 0) /\ (k = "presence" => v > 0) /\ Gone < 0 /\ Gone # 1
  BY <1>1, Versions DEF Gone
<1>3. /\ Has(e, k, i) = v
      /\ \A l \in Kinds, j \in Ids : l # k \/ j # i =>
            \/ Has(e, l, j) = Has(d, l, j)
            \/ l = "presence" /\ j = i /\ k = "member" /\ v < 0 /\ Has(e, l, j) = Gone
      /\ k = "member" /\ v < 0 => \A l \in Kinds : l = "presence" => Has(e, l, i) = Gone
  BY <1>1, <1>2, AlteredParts
<1>4. "member" \in Kinds /\ "presence" \in Kinds
  BY KindsAre
<1>5. \A u \in Ids : k # "member" \/ u # i => Has(e, "member", u) = Has(d, "member", u)
  BY <1>3, <1>4
<1>6. Present(e)
  <2> SUFFICES ASSUME NEW u \in Ids, Has(e, "presence", u) > 0 PROVE Has(e, "member", u) > 0
    BY DEF Present
  <2>1. CASE u = i /\ k = "presence"
    <3>1. Has(d, "member", u) > 0
      BY <2>1 DEF Users
    <3> QED BY <1>5, <2>1, <3>1
  <2>2. CASE u = i /\ k = "member"
    <3>1. v > 0
      BY <1>2, <1>3, <1>4, <2>2
    <3> QED BY <1>3, <2>2, <3>1
  <2>3. CASE u # i \/ k \notin {"member", "presence"}
    <3>1. Has(e, "presence", u) = Has(d, "presence", u)
      BY <1>3, <1>4, <2>3
    <3>2. Has(e, "member", u) = Has(d, "member", u)
      BY <1>5, <2>3
    <3> QED BY <1>1, <3>1, <3>2 DEF Present
  <2> QED BY <2>1, <2>2, <2>3
<1>7. CASE k = "member" /\ v = 1
  <2>1. ~(now > 0)
    BY <1>1, <1>2, <1>7, Versions
  <2>2. i \notin Users(d) /\ Users(e) = Users(d) \cup {i}
    BY <1>3, <1>5, <1>7, <2>1 DEF Users
  <2>3. m = 1
    BY <1>7
  <2> QED BY <1>1, <1>6, <2>2, <2>3, FS_AddElement
<1>8. CASE k = "member" /\ v = Gone
  <2>1. now > 0
    BY <1>2, <1>8
  <2>2. i \in Users(d) /\ Users(e) = Users(d) \ {i}
    BY <1>2, <1>3, <1>5, <1>8, <2>1 DEF Users
  <2>3. m = -1
    BY <1>2, <1>8
  <2>4. Cardinality(Users(d)) \in Nat
    BY <1>1, FS_CardinalityType
  <2> QED BY <1>1, <1>6, <2>2, <2>3, <2>4, FS_RemoveElement
<1>9. CASE ~(k = "member" /\ v \in {1, Gone})
  <2>1. m = 0
    BY <1>9
  <2>2. k = "member" => now > 0 /\ v > 0
    BY <1>1, <1>2, <1>9, Versions
  <2>3. Users(e) = Users(d)
    BY <1>3, <1>5, <2>2 DEF Users
  <2>4. Cardinality(Users(d)) \in Nat
    BY <1>1, FS_CardinalityType
  <2> QED BY <1>1, <1>6, <2>1, <2>3, <2>4
<1> QED BY <1>7, <1>8, <1>9

LEMMA ChangesKept ==
    ASSUME CInv, NEW g \in Guilds, NEW k \in Kinds, NEW i \in Ids, Changes(g, k, i) PROVE CInv'
<1> DEFINE d == discord[g]
           now == Has(d, k, i)
<1>1. DiscordTyped /\ d \in Guild /\ Members(g) = Users(d) /\ now \in Nat \cup {Gone}
  BY ThingsParts, GuildParts DEF CInv
<1>2. /\ Use(k)
      /\ k \in {"presence", "voice"} => i \in Members(g)
      /\ UNCHANGED <<connected, state>>
  BY DEF Changes
<1>3. PICK v \in IF now = Gone /\ k \notin Returning THEN {}
                 ELSE {Version(now) + 1} \cup (IF now > 0 /\ k # "presence" THEN {Gone} ELSE {}) :
           discord' = [discord EXCEPT ![g] = Altered(@, k, i, v)] /\ Told(g, Change(g, k, i, v))
  BY DEF Changes, Has
<1> DEFINE e == Altered(d, k, i, v)
           m == IF k = "member" /\ v = 1 THEN 1 ELSE IF k = "member" /\ v = Gone THEN -1 ELSE 0
<1>4. discord' = [discord EXCEPT ![g] = e]
  BY <1>1, <1>3 DEF DiscordTyped
<1> HIDE DEF d, now, e
<1>5. /\ now = Gone => k \in Returning
      /\ v = Version(now) + 1 \/ (v = Gone /\ now > 0 /\ k # "presence")
  BY <1>3
<1>6. v \in Nat \cup {Gone} /\ m \in Int
  BY <1>1, <1>5, Versions
<1> HIDE DEF m
<1>7. k = "presence" => /\ i \in Users(d)
                        /\ \A l \in Kinds : l = "member" => Has(d, l, i) > 0
  <2>1. k = "presence" => i \in Users(d)
    BY <1>1, <1>2
  <2>2. \A l \in Kinds : i \in Users(d) /\ l = "member" => Has(d, l, i) > 0
    BY DEF Users
  <2> QED BY <2>1, <2>2
<1>8. Handled(d, g, Change(g, k, i, v), e, m)
  BY <1>1, <1>5, <1>6, <1>7, ChangeHandled DEF d, now, e, m
<1>9. Present(e) /\ IsFiniteSet(Users(e)) /\ Cardinality(Users(e)) = Cardinality(Users(d)) + m
  BY <1>1, <1>5, <1>6, <1>7, UsersAltered DEF d, now, e, m
<1>10. (k = "presence" => v > 0) /\ v # 0 /\ Gone # 0
  BY <1>1, <1>5, Versions DEF Gone
<1>11. e \in Guild /\ e.in = d.in /\ Remembered(d, e)
  <2>1. /\ e \in Guild /\ e.in = d.in /\ Has(e, k, i) = v
        /\ \A l \in Kinds, j \in Ids : l # k \/ j # i =>
              \/ Has(e, l, j) = Has(d, l, j)
              \/ l = "presence" /\ j = i /\ k = "member" /\ v < 0 /\ Has(e, l, j) = Gone
    BY <1>1, <1>6, <1>10, AlteredParts DEF e
  <2>2. ASSUME NEW l \in ChannelKinds, NEW j \in Ids, Has(d, l, j) # 0 PROVE Has(e, l, j) # 0
    <3>1. l \in Kinds
      BY DEF Kinds
    <3> QED BY <1>10, <2>1, <2>2, <3>1
  <2> QED BY <2>1, <2>2 DEF Remembered
<1>12. Moved(g, Change(g, k, i, v), e, m)
  BY <1>3, <1>4, <1>6, <1>8, <1>9, <1>11 DEF Moved, d
<1>13. left' \in [What -> Nat] /\ Less(left, left')
  <2>1. k \in What
    BY DEF What
  <2> QED BY <1>1, <1>2, <2>1, UseLess DEF DiscordTyped
<1> QED BY <1>2, <1>12, <1>13, ChangeKept

(* What is told of a guild that does not change, or only in what was said  *)
(* or in who follows a thread.                                             *)
LEMMA SaidKept ==
    ASSUME CInv, NEW g \in Guilds, NEW e \in Guild, e.in = discord[g].in, e.has = discord[g].has,
           NEW event, discord' = [discord EXCEPT ![g] = e], Told(g, event),
           UNCHANGED <<connected, state>>, left' \in [What -> Nat], Less(left, left'),
           NEW m, m = 0, Handled(discord[g], g, event, e, m)
    PROVE  CInv'
<1>1. \A k, i : Has(e, k, i) = Has(discord[g], k, i)
  BY DEF Has
<1>2. Users(e) = Users(discord[g])
  BY <1>1 DEF Users
<1>3. Present(discord[g]) /\ IsFiniteSet(Users(discord[g]))
  BY DEF CInv, DiscordTyped
<1>4. Present(e) /\ Remembered(discord[g], e)
  BY <1>1, <1>3 DEF Present, Remembered
<1>5. Cardinality(Users(e)) = Cardinality(Users(discord[g])) + m
  BY <1>2, <1>3, FS_CardinalityType
<1>6. Moved(g, event, e, m)
  BY <1>2, <1>3, <1>4, <1>5 DEF Moved
<1> QED BY <1>6, ChangeKept

LEMMA TellsKept == ASSUME CInv, NEW g \in Guilds, Tells(g) PROVE CInv'
<1> DEFINE d == discord[g]
           payload == [count |-> 0, lists |-> [k \in {"role", "emoji"} |-> Things(g, k)]]
           presences == [u \in Ids |-> IF u \in Members(g) THEN Things(g, "presence")[u] ELSE 0]
           update == [type |-> "GUILD_UPDATE", guild |-> g, payload |-> payload]
           chunk == [type |-> "GUILD_MEMBERS_CHUNK", guild |-> g, members |-> Things(g, "member"),
                     presences |-> presences]
           sync(synced) == [type |-> "THREAD_LIST_SYNC", guild |-> g,
                            threads |-> ActiveThreads(g, synced), synced |-> synced]
<1>1. /\ left' \in [What -> Nat] /\ Less(left, left') /\ UNCHANGED <<discord, connected, state>>
      /\ Told(g, update) \/ Told(g, chunk) \/ \E synced \in SUBSET Ids : Told(g, sync(synced))
  <2>1. Use("tell") /\ "tell" \in What
    BY DEF Tells, What
  <2> QED BY <2>1, UseLess DEF Tells, CInv, DiscordTyped
<1>2. DiscordTyped /\ d \in Guild /\ d = discord[g] /\ discord' = [discord EXCEPT ![g] = d]
      /\ Members(g) = Users(d)
  BY <1>1, ThingsParts DEF CInv, DiscordTyped
<1>3. \A k \in Kinds : /\ Things(g, k) \in [Ids -> Int]
                       /\ \A i \in Ids : Things(g, k)[i] = Version(Has(d, k, i))
  BY <1>2, ThingsParts
<1>4. /\ "role" \in Kinds /\ "emoji" \in Kinds /\ "member" \in Kinds
      /\ "presence" \in Kinds /\ "thread" \in Kinds
  BY KindsAre
<1>5. Handled(d, g, update, d, 0)
  <2> DEFINE K == {"role", "emoji"}
             lists == [k \in K |-> Things(g, k)]
  <2>1. /\ update.type = "GUILD_UPDATE" /\ update.guild = g /\ update.payload = payload
        /\ payload.lists = lists /\ payload.count = 0
    OBVIOUS
  <2>2. /\ K = {"role", "emoji"} /\ lists \in [K -> [Ids -> Int]]
        /\ \A k \in K, i \in Ids : lists[k][i] = Version(Has(d, k, i))
    BY <1>3, <1>4
  <2> HIDE DEF update, payload, lists, K, d
  <2>3. Renewed(K, lists, d)
    BY <2>2 DEF Renewed
  <2>4. \A st \in States : Sound(st[g], d) /\ Mirrored(st[g], d)
                           => Step(st, g, OnInterface(st, update), d, 0)
    BY <1>2, <2>1, <2>3, UpdateStep
  <2> QED BY <2>4 DEF Handled
<1>6. Handled(d, g, chunk, d, 0)
  <2>1. /\ chunk.type = "GUILD_MEMBERS_CHUNK" /\ chunk.guild = g
        /\ chunk.members = Things(g, "member") /\ chunk.presences = presences
    OBVIOUS
  <2>2. presences \in [Ids -> Int] /\ Things(g, "member") \in [Ids -> Int]
    BY <1>3, <1>4
  <2>3. \A k \in Kinds, i \in Ids :
           /\ k = "member" => Things(g, "member")[i] = Version(Has(d, k, i))
           /\ k = "presence" => presences[i] \in {0, Version(Has(d, k, i))}
    BY <1>3
  <2> HIDE DEF chunk, presences, d
  <2>4. \A st \in States : Sound(st[g], d) /\ Mirrored(st[g], d)
                           => Step(st, g, OnInterface(st, chunk), d, 0)
    BY <1>2, <2>1, <2>2, <2>3, ChunkStep
  <2> QED BY <2>4 DEF Handled
<1>7. ASSUME NEW synced \in SUBSET Ids PROVE Handled(d, g, sync(synced), d, 0)
  <2> DEFINE event == sync(synced)
             threads == ActiveThreads(g, synced)
  <2>1. /\ event.type = "THREAD_LIST_SYNC" /\ event.guild = g
        /\ event.threads = threads /\ event.synced = synced
    OBVIOUS
  <2>2. /\ threads \in [Ids -> Int]
        /\ \A k \in Kinds, i \in Ids : k = "thread" =>
              threads[i] = IF i \in synced /\ ~Archived(Version(Has(d, k, i)))
                           THEN Version(Has(d, k, i)) ELSE 0
    BY <1>3, <1>4 DEF ActiveThreads
  <2> HIDE DEF event, threads, d
  <2>3. \A st \in States : Sound(st[g], d) /\ Mirrored(st[g], d)
                           => Step(st, g, OnInterface(st, event), d, 0)
    BY <1>2, <2>1, <2>2, SyncStep
  <2> QED BY <2>3 DEF Handled, event
<1> HIDE DEF update, chunk, sync
<1>8. PICK event : Told(g, event) /\ Handled(d, g, event, d, 0)
  BY <1>1, <1>5, <1>6, <1>7
<1> QED BY <1>1, <1>2, <1>8, SaidKept

(* Some users, in any order.                                               *)
LEMMA InOrder ==
    ASSUME NEW users \in SUBSET Ids, users # {}, NEW s \in SetToSeqs(users)
    PROVE  s \in Seq(Ids) /\ s # << >>
<1> DEFINE n == Cardinality(users)
<1>1. IsFiniteSet(users)
  BY StateAssumption, FS_Subset
<1>2. n \in Nat /\ n # 0
  BY <1>1, FS_CardinalityType, FS_EmptySet
<1>3. s \in [1 .. n -> users]
  BY DEF SetToSeqs
<1> HIDE DEF n
<1>4. s \in [1 .. n -> Ids] /\ 1 \in DOMAIN s
  BY <1>2, <1>3
<1> QED BY <1>2, <1>4

LEMMA ThreadMemberKept ==
    ASSUME CInv, NEW g \in Guilds, NEW t \in Ids, NEW users \in (SUBSET Ids) \ {{}},
           ThreadMember(g, t, users)
    PROVE  CInv'
<1> DEFINE d == discord[g]
           now == d.threadMembers[t]
           e(after) == [d EXCEPT !.threadMembers[t] = after]
           event(added, withMembers) ==
               [type |-> "THREAD_MEMBERS_UPDATE", guild |-> g, id |-> t,
                added |-> added, withMembers |-> withMembers]
<1>1. d \in Guild /\ discord \in [Guilds -> Guild] /\ now \in SUBSET Ids
  BY DEF CInv, DiscordTyped, Guild
<1>2. left' \in [What -> Nat] /\ Less(left, left')
  <2>1. Use("threadMember") /\ "threadMember" \in What
    BY DEF ThreadMember, What
  <2> QED BY <2>1, UseLess DEF CInv, DiscordTyped
<1>3. /\ UNCHANGED <<connected, state>>
      /\ \/ /\ discord' = [discord EXCEPT ![g] = e(now \cup users)]
            /\ \E added \in SetToSeqs(users), withMembers \in BOOLEAN : Told(g, event(added, withMembers))
         \/ discord' = [discord EXCEPT ![g] = e(now \ users)] /\ Told(g, event(<< >>, FALSE))
  BY <1>1 DEF ThreadMember
<1>4. PICK after \in SUBSET Ids, added \in Seq(Ids), withMembers \in BOOLEAN :
          /\ withMembers => added # << >>
          /\ discord' = [discord EXCEPT ![g] = e(after)] /\ Told(g, event(added, withMembers))
  <2> HIDE DEF e, event, d, now
  <2>1. CASE discord' = [discord EXCEPT ![g] = e(now \ users)] /\ Told(g, event(<< >>, FALSE))
    <3>1. << >> \in Seq(Ids) /\ now \ users \in SUBSET Ids
      BY <1>1
    <3> QED BY <2>1, <3>1
  <2>2. CASE /\ discord' = [discord EXCEPT ![g] = e(now \cup users)]
             /\ \E added \in SetToSeqs(users), withMembers \in BOOLEAN : Told(g, event(added, withMembers))
    <3>1. now \cup users \in SUBSET Ids /\ users \in SUBSET Ids /\ users # {}
      BY <1>1
    <3>2. PICK added \in SetToSeqs(users), withMembers \in BOOLEAN : Told(g, event(added, withMembers))
      BY <2>2
    <3>3. added \in Seq(Ids) /\ added # << >>
      BY <3>1, InOrder
    <3> QED BY <2>2, <3>1, <3>2, <3>3
  <2> QED BY <1>3, <2>1, <2>2
<1> DEFINE f == e(after)
           told == event(added, withMembers)
           joined == Appended(added, withMembers)
<1>5. f \in Guild /\ f.in = d.in /\ f.has = d.has /\ f.messages = d.messages
  <2> HIDE DEF d
  <2> QED BY <1>1, <1>4 DEF Guild
<1>6. joined \in Seq(Ids)
  BY <1>4, AppendedAre
<1>7. told.type = "THREAD_MEMBERS_UPDATE" /\ told.guild = g /\ told.id = t
      /\ Appended(told.added, told.withMembers) = joined
  OBVIOUS
<1>8. discord' = [discord EXCEPT ![g] = f] /\ Told(g, told)
  BY <1>4
<1> HIDE DEF d, f, told, joined, e, event
<1>9. \A st \in States : Sound(st[g], d) /\ Mirrored(st[g], d)
                           => Step(st, g, OnInterface(st, told), f, 0)
  BY <1>1, <1>5, <1>6, <1>7, ThreadMembersStep
<1>10. Handled(d, g, told, f, 0)
  BY <1>9 DEF Handled
<1> QED BY <1>2, <1>3, <1>5, <1>8, <1>10, SaidKept DEF d

LEMMA MessageKept ==
    ASSUME CInv, NEW g \in Guilds, NEW c \in Ids, NEW m \in Ids, Message(g, c, m) PROVE CInv'
<1> DEFINE d == discord[g]
<1>1. d \in Guild /\ discord \in [Guilds -> Guild] /\ Said(d, c) \in SUBSET Ids
  BY GuildParts DEF CInv, DiscordTyped
<1>2. /\ UNCHANGED <<connected, state>> /\ Has(d, "channel", c) > 0
  BY DEF Message, Has
<1>3. left' \in [What -> Nat] /\ Less(left, left')
  <2>1. Use("message") /\ "message" \in What
    BY DEF Message, What
  <2> QED BY <2>1, UseLess DEF CInv, DiscordTyped
<1>4. ASSUME NEW said, said \in SUBSET Ids
      PROVE  LET e == [d EXCEPT !.messages[c] = said] IN
             /\ e \in Guild /\ e.in = d.in /\ e.has = d.has /\ Said(e, c) = said
             /\ \A j \in Ids : j # c => Said(e, j) = Said(d, j)
  <2> HIDE DEF d
  <2> QED BY <1>1, <1>4 DEF Guild, Said
<1>5. CASE /\ discord' = [discord EXCEPT ![g].messages[c] = @ \cup {m}]
           /\ Told(g, [type |-> "MESSAGE", guild |-> g, id |-> c, message |-> m])
  <2> DEFINE e == [d EXCEPT !.messages[c] = Said(d, c) \cup {m}]
             event == [type |-> "MESSAGE", guild |-> g, id |-> c, message |-> m]
  <2>1. /\ e \in Guild /\ e.in = d.in /\ e.has = d.has /\ Said(e, c) = Said(d, c) \cup {m}
        /\ \A j \in Ids : j # c => Said(e, j) = Said(d, j)
    BY <1>1, <1>4
  <2>2. discord' = [discord EXCEPT ![g] = e]
    BY <1>1, <1>5 DEF Said
  <2>3. event.type = "MESSAGE" /\ event.guild = g /\ event.id = c /\ event.message = m /\ Told(g, event)
    BY <1>5
  <2> HIDE DEF d, e, event
  <2>4. \A st \in States : Sound(st[g], d) /\ Mirrored(st[g], d)
                           => Step(st, g, OnInterface(st, event), e, 0)
    BY <1>1, <1>2, <2>1, <2>3, MessageStep
  <2>5. Handled(d, g, event, e, 0)
    BY <2>4 DEF Handled
  <2> QED BY <1>2, <1>3, <2>1, <2>2, <2>3, <2>5, SaidKept DEF d
<1>6. CASE /\ discord' = [discord EXCEPT ![g].messages[c] = @ \ {m}]
           /\ Told(g, [type |-> "MESSAGE_DELETE", guild |-> g, id |-> c, message |-> m])
  <2> DEFINE e == [d EXCEPT !.messages[c] = Said(d, c) \ {m}]
             event == [type |-> "MESSAGE_DELETE", guild |-> g, id |-> c, message |-> m]
  <2>1. /\ e \in Guild /\ e.in = d.in /\ e.has = d.has /\ Said(e, c) = Said(d, c) \ {m}
        /\ \A j \in Ids : j # c => Said(e, j) = Said(d, j)
    BY <1>1, <1>4
  <2>2. discord' = [discord EXCEPT ![g] = e]
    BY <1>1, <1>6 DEF Said
  <2>3. event.type = "MESSAGE_DELETE" /\ event.guild = g /\ event.id = c /\ event.message = m /\ Told(g, event)
    BY <1>6
  <2> HIDE DEF d, e, event
  <2>4. \A st \in States : Sound(st[g], d) /\ Mirrored(st[g], d)
                           => Step(st, g, OnInterface(st, event), e, 0)
    BY <1>1, <1>2, <2>1, <2>3, DeleteStep
  <2>5. Handled(d, g, event, e, 0)
    BY <2>4 DEF Handled
  <2> QED BY <1>2, <1>3, <2>1, <2>2, <2>3, <2>5, SaidKept DEF d
<1> QED BY <1>5, <1>6 DEF Message
-----------------------------------------------------------------------------
(* Guilds that the bot joins and leaves.                                   *)
Entered(g, event, e) ==
    /\ e \in Guild /\ e.in # discord[g].in /\ e.has = discord[g].has
    /\ Attended(discord[g], g, event, e)
    /\ discord' = [discord EXCEPT ![g] = e]
    /\ stream' = IF connected THEN Append(stream, event) ELSE stream
    /\ ~e.in => left[IF connected THEN "leave" ELSE "leaveAway"] # 0

LEMMA GuildKept ==
    ASSUME CInv, NEW g \in Guilds, NEW event, NEW e, Entered(g, event, e),
           UNCHANGED <<connected, state>>, left' \in [What -> Nat], Less(left, left')
    PROVE  CInv'
<1> DEFINE more == IF connected THEN Append(stream, event) ELSE stream
<1> USE DEF Entered
<1>1. DiscordTyped /\ discord \in [Guilds -> Guild] /\ connected \in BOOLEAN /\ left \in [What -> Nat]
  BY DEF CInv, DiscordTyped
<1>2. PICK S : stream \in Seq(S)
  BY DEF CInv, Followed
<1>3. PICK h : /\ Stages(h, state, stream) /\ Follows(h, Len(stream), discord, connected)
               /\ LeavesAreTold => Tallies(h, Len(stream), discord, connected, left)
  BY DEF CInv, Followed
<1>4. PICK f : /\ Stages(f, state, more) /\ Follows(f, Len(more), discord', connected)
               /\ Tallies(h, Len(stream), discord, connected, left)
                  => Tallies(f, Len(more), discord', connected, left')
  <2> HIDE DEF more
  <2>1. Continued(h, stream, discord, left, state, more, discord', connected, left')
    BY <1>1, <1>2, <1>3, GuildFollowed DEF more
  <2> QED BY <2>1 DEF Continued
<1>5. \E T : more \in Seq(T)
  <2>1. stream \in Seq(S \cup {event})
    BY <1>2, SeqMonotonic
  <2>2. Append(stream, event) \in Seq(S \cup {event})
    BY <2>1, AppendProperties
  <2> QED BY <2>1, <2>2
<1>6. stream' = more
  OBVIOUS
<1> HIDE DEF more
<1>7. Followed(more, state, discord', connected, left')
  BY <1>3, <1>4, <1>5 DEF Followed
<1>8. DiscordTyped'
  <2>1. \A b \in Guilds : discord'[b] = IF b = g THEN e ELSE discord[b]
    BY <1>1
  <2>2. discord' \in [Guilds -> Guild]
    BY <1>1
  <2>3. \A k, i : Has(e, k, i) = Has(discord[g], k, i)
    BY DEF Has
  <2>4. Present(discord[g]) /\ IsFiniteSet(Users(discord[g]))
    BY <1>1 DEF DiscordTyped
  <2>5. Present(e) /\ IsFiniteSet(Users(e))
    BY <2>3, <2>4 DEF Present, Users
  <2> QED BY <1>1, <2>1, <2>2, <2>5 DEF DiscordTyped
<1> QED BY <1>6, <1>7, <1>8 DEF CInv

LEMMA CreatedParts ==
    ASSUME DiscordTyped, NEW g \in Guilds, NEW members \in SUBSET Members(g), NEW event,
           event = Created(g, members)
    PROVE  /\ event.type = "GUILD_CREATE" /\ event.guild = g
           /\ event.payload.count = Cardinality(Users(discord[g]))
           /\ Complete(event.payload.lists, discord[g])
<1> DEFINE lists == event.payload.lists
           d == discord[g]
<1>1. Members(g) = Users(d)
  BY ThingsParts
<1>2. event.type = "GUILD_CREATE" /\ event.guild = g /\ event.payload.count = Cardinality(Users(d))
  BY <1>1 DEF Created
<1>3. \A k \in Kinds : /\ Things(g, k) \in [Ids -> Int]
                       /\ \A i \in Ids : Things(g, k)[i] = Version(Has(d, k, i))
  BY ThingsParts
<1>4. lists = [k \in Kinds |->
                  CASE k = "member" -> [u \in Ids |-> IF u \in members THEN Things(g, k)[u] ELSE 0]
                    [] k = "presence" -> [u \in Ids |->
                           IF u \in Members(g) /\ Online(Things(g, k)[u]) THEN Things(g, k)[u] ELSE 0]
                    [] k = "thread" -> ActiveThreads(g, Ids)
                    [] OTHER -> Things(g, k)]
  BY DEF Created
<1> HIDE DEF lists, d
<1>5. ASSUME NEW k \in Kinds
      PROVE  /\ lists[k] \in [Ids -> Int]
             /\ \A i \in Ids :
                   /\ k = "member" => lists[k][i] \in {0, Things(g, k)[i]}
                   /\ k = "presence" /\ i \in Users(d) /\ Online(Things(g, k)[i])
                      => lists[k][i] = Things(g, k)[i]
                   /\ k = "thread" => lists[k][i] = IF Archived(Things(g, k)[i]) THEN 0 ELSE Things(g, k)[i]
                   /\ k \notin {"member", "presence", "thread"} => lists[k][i] = Things(g, k)[i]
  <2>1. CASE k = "member"
    <3>1. lists[k] = [u \in Ids |-> IF u \in members THEN Things(g, k)[u] ELSE 0]
      BY <1>4, <2>1
    <3> QED BY <1>3, <2>1, <3>1
  <2>2. CASE k = "presence"
    <3>1. lists[k] = [u \in Ids |-> IF u \in Members(g) /\ Online(Things(g, k)[u])
                                    THEN Things(g, k)[u] ELSE 0]
      BY <1>4, <2>2
    <3> QED BY <1>1, <1>3, <2>2, <3>1
  <2>3. CASE k = "thread"
    <3>1. lists[k] = ActiveThreads(g, Ids)
      BY <1>4, <2>3
    <3> QED BY <1>3, <2>3, <3>1 DEF ActiveThreads
  <2>4. CASE k \notin {"member", "presence", "thread"}
    <3>1. lists[k] = Things(g, k)
      BY <1>4, <2>4
    <3> QED BY <1>3, <2>4, <3>1
  <2> QED BY <2>1, <2>2, <2>3, <2>4
<1>6. lists \in [Kinds -> [Ids -> Int]]
  <2>1. lists = [k \in Kinds |-> lists[k]]
    BY <1>4
  <2> QED BY <1>5, <2>1
<1>7. \A k \in Kinds, i \in Ids :
         /\ k = "member" => lists[k][i] \in {0, Version(Has(d, k, i))}
         /\ k = "presence" => (Has(d, "member", i) > 0 /\ Online(Version(Has(d, k, i)))
                               => lists[k][i] = Version(Has(d, k, i)))
         /\ k = "thread" => lists[k][i] = IF Archived(Version(Has(d, k, i))) THEN 0
                                          ELSE Version(Has(d, k, i))
         /\ k \notin {"member", "presence", "thread"} => lists[k][i] = Version(Has(d, k, i))
  BY <1>3, <1>5 DEF Users
<1>8. Complete(lists, d)
  BY <1>6, <1>7 DEF Complete
<1> QED BY <1>2, <1>8 DEF lists, d

LEMMA JoinsKept == ASSUME CInv, NEW g \in Guilds, Joins(g) PROVE CInv'
<1> DEFINE d == discord[g]
           e == [d EXCEPT !.in = TRUE]
<1>1. /\ DiscordTyped /\ discord \in [Guilds -> Guild] /\ d \in Guild
      /\ Present(d) /\ IsFiniteSet(Users(d))
  BY DEF CInv, DiscordTyped
<1>2. /\ ~d.in /\ discord' = [discord EXCEPT ![g] = e] /\ UNCHANGED <<connected, state>>
  BY <1>1 DEF Joins
<1>3. PICK members \in SUBSET Members(g) :
           stream' = IF connected THEN Append(stream, Created(g, members)) ELSE stream
  BY DEF Joins
<1>4. left' \in [What -> Nat] /\ Less(left, left')
  <2>1. Use("join") /\ "join" \in What
    BY DEF Joins, What
  <2> QED BY <1>1, <2>1, UseLess DEF DiscordTyped
<1>5. e \in Guild /\ e.in = TRUE /\ e.has = d.has
  <2> HIDE DEF d
  <2> QED BY <1>1 DEF Guild
<1> DEFINE event == Created(g, members)
<1>6. /\ event.type = "GUILD_CREATE" /\ event.guild = g
      /\ event.payload.count = Cardinality(Users(d)) /\ Complete(event.payload.lists, d)
  <2> HIDE DEF event
  <2> QED BY <1>1, CreatedParts DEF event
<1> HIDE DEF d, e, event
<1>7. \A k, i : Has(e, k, i) = Has(d, k, i)
  BY <1>5 DEF Has
<1>8. Users(e) = Users(d) /\ Present(e) /\ Complete(event.payload.lists, e)
  BY <1>1, <1>6, <1>7 DEF Users, Present, Complete
<1>9. event.payload.count = Cardinality(Users(e)) /\ event.payload.count \in Int
  BY <1>1, <1>6, <1>8, FS_CardinalityType
<1>10. ASSUME NEW x \in States, Sound(x[g], d)
       PROVE  LET new == OnInterface(x, event) IN
              /\ Only(x, g, new) /\ Sound(new[g], e) /\ Mirrored(new[g], e)
              /\ ~x[g].known => Tallied(new[g], e)
  <2> DEFINE new == OnInterface(x, event)
             payload == event.payload
  <2>1. Sound(x[g], e)
    BY <1>7, <1>10, SoundStays
  <2>2. Comes(x, g, new, e, payload.count)
    <3>1. payload.lists = event.payload.lists /\ payload = event.payload
      OBVIOUS
    <3> HIDE DEF new, payload
    <3> QED BY <1>5, <1>6, <1>8, <1>9, <2>1, <3>1, CreateStep DEF new
  <2> HIDE DEF new
  <2>3. ~x[g].known => new[g].listed /\ new[g].count = Cardinality(Users(e))
    BY <1>9, <2>2 DEF Comes
  <2> QED BY <2>2, <2>3 DEF new, Comes, Tallied
<1>11. Attended(d, g, event, e)
  BY <1>5, <1>10 DEF Attended
<1>12. Entered(g, event, e)
  BY <1>2, <1>3, <1>5, <1>11 DEF Entered, d, event
<1> QED BY <1>2, <1>4, <1>12, GuildKept

LEMMA LeavesKept == ASSUME CInv, NEW g \in Guilds, Leaves(g) PROVE CInv'
<1> DEFINE d == discord[g]
           e == [d EXCEPT !.in = FALSE]
           event == [type |-> "GUILD_DELETE", guild |-> g]
           w == IF connected THEN "leave" ELSE "leaveAway"
<1>1. DiscordTyped /\ discord \in [Guilds -> Guild] /\ d \in Guild
  BY DEF CInv, DiscordTyped
<1>2. /\ d.in /\ discord' = [discord EXCEPT ![g] = e] /\ UNCHANGED <<connected, state>>
      /\ stream' = IF connected THEN Append(stream, event) ELSE stream
  BY <1>1 DEF Leaves, Told
<1>3. left' \in [What -> Nat] /\ Less(left, left') /\ left[w] # 0
  <2>1. Use(w) /\ w \in What
    BY DEF Leaves, What
  <2> HIDE DEF w
  <2> QED BY <1>1, <2>1, UseLess DEF DiscordTyped
<1>4. e \in Guild /\ e.in = FALSE /\ e.has = d.has
  <2> HIDE DEF d
  <2> QED BY <1>1 DEF Guild
<1>5. event.type = "GUILD_DELETE" /\ event.guild = g
  OBVIOUS
<1> HIDE DEF d, e, event
<1>6. \A k, i : Has(e, k, i) = Has(d, k, i)
  BY <1>4 DEF Has
<1>7. ASSUME NEW x \in States, Sound(x[g], d)
      PROVE  LET new == OnInterface(x, event) IN
             Only(x, g, new) /\ Sound(new[g], e) /\ ~new[g].known
  <2>1. Sound(x[g], e)
    BY <1>6, <1>7, SoundStays
  <2> QED BY <1>5, <2>1, LeaveStep
<1>8. Attended(d, g, event, e)
  BY <1>4, <1>7 DEF Attended
<1>9. Entered(g, event, e)
  BY <1>1, <1>2, <1>3, <1>4, <1>8 DEF Entered, d
<1> QED BY <1>2, <1>3, <1>9, GuildKept

-----------------------------------------------------------------------------
(* Sessions that end and begin.                                            *)
LEMMA SessionLostKept == ASSUME CInv, SessionLost PROVE CInv'
<1> DEFINE f == [i \in 0 .. 0 |-> state]
<1>1. /\ connected /\ stream' = << >> /\ connected' = FALSE /\ UNCHANGED <<discord, state>>
  BY DEF SessionLost
<1>2. left' \in [What -> Nat] /\ Less(left, left') /\ left["lose"] # 0
  <2>1. Use("lose") /\ "lose" \in What
    BY DEF SessionLost, What
  <2> QED BY <2>1, UseLess DEF CInv, DiscordTyped
<1>3. PICK S : stream \in Seq(S)
  BY DEF CInv, Followed
<1>4. PICK h : /\ Stages(h, state, stream) /\ Follows(h, Len(stream), discord, connected)
               /\ LeavesAreTold => Tallies(h, Len(stream), discord, connected, left)
  BY DEF CInv, Followed
<1>5. 0 \in 0 .. Len(stream) /\ h[0] = state /\ state \in States
  <2>1. 0 \in 0 .. Len(stream)
    BY <1>3, LenProperties
  <2> QED BY <1>4, <2>1 DEF Stages
<1>6. Len(<< >>) = 0 /\ << >> \in Seq({})
  BY EmptySeq
<1>7. f \in [0 .. 0 -> States] /\ \A i \in 0 .. 0 : f[i] = state
  BY <1>5
<1> HIDE DEF f
<1>8. Stages(f, state, << >>)
  BY <1>6, <1>7 DEF Stages
<1>9. Follows(f, 0, discord, FALSE)
  BY <1>4, <1>5, <1>7 DEF Follows
<1>10. ASSUME LeavesAreTold PROVE Tallies(f, 0, discord, FALSE, left')
  <2>1. left["leaveAway"] = 0 /\ left["leave"] = 0 /\ \A g \in Guilds : state[g].known => discord[g].in
    BY <1>2, <1>4, <1>5, <1>10 DEF Tallies
  <2>2. "leaveAway" \in What /\ "leave" \in What /\ \A w \in What : left[w] = 0 => left'[w] = 0
    BY <1>2 DEF Less, What
  <2> QED BY <1>7, <2>1, <2>2 DEF Tallies
<1>11. Followed(<< >>, state, discord, FALSE, left')
  BY <1>6, <1>8, <1>9, <1>10 DEF Followed
<1>12. DiscordTyped'
  BY <1>1, <1>2 DEF CInv, DiscordTyped
<1> QED BY <1>1, <1>11, <1>12 DEF CInv

LEMMA NewSessionKept == ASSUME CInv, NewSession PROVE CInv'
<1> DEFINE in == {g \in Guilds : discord[g].in}
           ready == [type |-> "READY", guild |-> CHOOSE g \in Guilds : TRUE, guilds |-> in]
           hello == [g \in Guilds |-> Created(g, Members(g))]
           events == <<ready>> \o SetToSeq({hello[g] : g \in in})
<1>1. /\ connected = FALSE /\ connected' = TRUE /\ UNCHANGED <<discord, state, left>>
      /\ stream' = <<ready>> \o SetToSeq({Created(g, Members(g)) : g \in in})
  BY DEF NewSession, CInv, DiscordTyped
<1>2. {Created(g, Members(g)) : g \in in} = {hello[g] : g \in in}
  OBVIOUS
<1>3. stream' = events
  BY <1>1, <1>2
<1>4. DiscordTyped /\ discord \in [Guilds -> Guild] /\ left \in [What -> Nat]
  BY DEF CInv, DiscordTyped
<1>5. PICK h : /\ \E S : stream \in Seq(S)
               /\ Stages(h, state, stream) /\ Follows(h, Len(stream), discord, connected)
               /\ LeavesAreTold => Tallies(h, Len(stream), discord, connected, left)
  BY DEF CInv, Followed
<1>6. 0 \in 0 .. Len(stream) /\ h[0] = state /\ state \in States
  <2>1. 0 \in 0 .. Len(stream)
    BY <1>5, LenProperties
  <2> QED BY <1>5, <2>1 DEF Stages
<1>7. \A g \in Guilds : Sound(state[g], discord[g]) /\ Present(discord[g]) /\ IsFiniteSet(Users(discord[g]))
  BY <1>4, <1>5, <1>6 DEF Follows, DiscordTyped
<1>8. ready.type = "READY" /\ ready.guilds = in
  OBVIOUS
<1>9. Greets(hello, discord)
  <2> SUFFICES ASSUME NEW g \in Guilds
               PROVE  /\ hello[g].type = "GUILD_CREATE" /\ hello[g].guild = g
                      /\ hello[g].payload.count = Cardinality(Users(discord[g]))
                      /\ Complete(hello[g].payload.lists, discord[g])
    BY DEF Greets
  <2>1. hello[g] = Created(g, Members(g))
    OBVIOUS
  <2> HIDE DEF hello
  <2> QED BY <1>4, <2>1, CreatedParts
<1> DEFINE C == {hello[g] : g \in in}
           n == Len(events)
<1>10. Restarted(state, events, discord) /\ \E S : events \in Seq(S)
  <2>1. Among(in, discord) /\ Each(C, hello, in)
    BY DEF Among, Each
  <2>2. events = <<ready>> \o SetToSeq(C)
    OBVIOUS
  <2> HIDE DEF ready, hello, in, C, events
  <2> QED BY <1>4, <1>6, <1>7, <1>8, <1>9, <2>1, <2>2, SessionFollowed
<1> HIDE DEF events, in
<1>11. PICK f : /\ Stages(f, state, events) /\ Follows(f, n, discord, TRUE)
                /\ \A g \in Guilds : discord[g].in => Tallied(f[n][g], discord[g])
                /\ (\A g \in Guilds : state[g].known => discord[g].in)
                   => \A i \in 0 .. n, g \in Guilds : f[i][g].known => discord[g].in
  BY <1>10 DEF Restarted
<1>12. n \in 0 .. n
  BY <1>10, LenProperties
<1>13. ASSUME LeavesAreTold PROVE Tallies(f, n, discord, TRUE, left)
  <2>1. /\ left["leaveAway"] = 0 /\ left["leave"] = 0
        /\ \A g \in Guilds : state[g].known => discord[g].in
    BY <1>1, <1>5, <1>6, <1>13 DEF Tallies
  <2> HIDE DEF n
  <2>2. \A i \in 0 .. n, g \in Guilds : f[i][g].known => discord[g].in
    BY <1>11, <2>1
  <2>3. \A g \in Guilds : (f[n][g].known => discord[g].in) /\ Tallied(f[n][g], discord[g])
    <3>1. \A g \in Guilds : ~discord[g].in => Tallied(f[n][g], discord[g])
      BY DEF Tallied
    <3> QED BY <1>11, <1>12, <2>2, <3>1
  <2> QED BY <2>1, <2>2, <2>3 DEF Tallies
<1>14. Followed(events, state, discord, TRUE, left)
  BY <1>10, <1>11, <1>13 DEF Followed
<1>15. DiscordTyped'
  BY <1>1, <1>4 DEF DiscordTyped
<1> QED BY <1>1, <1>3, <1>14, <1>15 DEF CInv

LEMMA CacheOf ==
    ASSUME CInv, NEW g \in Guilds
    PROVE  /\ Sound(state[g], discord[g])
           /\ Caught(g) => /\ Mirrored(state[g], discord[g])
                           /\ LeavesAreTold => Tallied(state[g], discord[g])
<1>1. PICK h : /\ \E S : stream \in Seq(S)
               /\ Stages(h, state, stream) /\ Follows(h, Len(stream), discord, connected)
               /\ LeavesAreTold => Tallies(h, Len(stream), discord, connected, left)
  BY DEF CInv, Followed
<1>2. 0 \in 0 .. Len(stream) /\ h[0] = state
  <2>1. 0 \in 0 .. Len(stream)
    BY <1>1, LenProperties
  <2> QED BY <1>1 DEF Stages
<1>3. Sound(state[g], discord[g])
  BY <1>1, <1>2 DEF Follows
<1>4. ASSUME Caught(g)
      PROVE  /\ Mirrored(state[g], discord[g])
             /\ LeavesAreTold => Tallied(state[g], discord[g])
  <2>1. discord[g].in /\ connected /\ Len(stream) = 0
    BY <1>4, EmptySeq DEF Caught
  <2>2. Mirrored(h[Len(stream)][g], discord[g])
    BY <1>1, <2>1 DEF Follows
  <2>3. LeavesAreTold => Tallied(h[Len(stream)][g], discord[g])
    BY <1>1, <2>1 DEF Tallies
  <2> QED BY <1>2, <2>1, <2>2, <2>3
<1> QED BY <1>3, <1>4

LEMMA CacheNext == CInv /\ [Next]_vars => CInv'
<1> SUFFICES ASSUME CInv, [Next]_vars PROVE CInv'
  OBVIOUS
<1>1. left \in [What -> Nat]
  BY DEF CInv, DiscordTyped
<1>2. left' = left => left' \in [What -> Nat] /\ Less(left, left')
  BY <1>1 DEF Less
<1>3. ASSUME NEW t \in Types, NEW once, Register(t, once) PROVE CInv'
  <2>1. Use("add") /\ "add" \in What /\ UNCHANGED <<discord, stream, connected, state>>
    BY <1>3 DEF Register, What
  <2> QED BY <1>1, <2>1, UseLess, CacheStays DEF Register
<1>4. ASSUME NEW t \in Types, AddHandler(t) \/ AddHandlerOnce(t) PROVE CInv'
  BY <1>3, <1>4 DEF AddHandler, AddHandlerOnce
<1>5. ASSUME NEW h, removeEventHandlerInstance(h) PROVE CInv'
  <2>1. Use("remove") /\ "remove" \in What /\ UNCHANGED <<discord, stream, connected, state>>
    BY <1>5 DEF removeEventHandlerInstance, What
  <2> QED BY <1>1, <2>1, UseLess, CacheStays
<1>6. ASSUME NEW d, RateLimitEvent(d) PROVE CInv'
  <2> DEFINE event == [type |-> "RATE_LIMIT", guild |-> CHOOSE g \in Guilds : TRUE]
  <2>1. Use("rateLimit") /\ "rateLimit" \in What /\ UNCHANGED <<discord, stream, connected>>
        /\ state' = OnInterface(state, event)
    BY <1>6 DEF RateLimitEvent, Begin, What
  <2>2. event.type = "RATE_LIMIT"
    OBVIOUS
  <2> HIDE DEF event
  <2>3. OnInterface(state, event) = state
    BY <2>2 DEF OnInterface
  <2> QED BY <1>1, <2>1, <2>3, UseLess, CacheStays
<1>7. ASSUME NEW d, snapshotEventHandlers(d) \/ callEventHandler(d) \/ HandlerEnds(d) PROVE CInv'
  <2>1. UNCHANGED <<discord, stream, connected, state>> /\ left' = left
    BY <1>7 DEF snapshotEventHandlers, callEventHandler, HandlerEnds
  <2> QED BY <1>2, <2>1, CacheStays
<1>8. ASSUME UNCHANGED vars PROVE CInv'
  <2>1. UNCHANGED <<discord, stream, connected, state>> /\ left' = left
    BY <1>8 DEF vars
  <2> QED BY <1>2, <2>1, CacheStays
<1>9. ASSUME NEW g \in Guilds,
             \/ Joins(g) \/ Leaves(g) \/ Tells(g)
             \/ \E k \in Kinds, i \in Ids : Changes(g, k, i)
             \/ \E t \in Ids, users \in (SUBSET Ids) \ {{}} : ThreadMember(g, t, users)
             \/ \E c, m \in Ids : Message(g, c, m)
      PROVE  CInv'
  BY <1>9, JoinsKept, LeavesKept, TellsKept, ChangesKept, ThreadMemberKept, MessageKept
<1> QED
  BY <1>4, <1>5, <1>6, <1>7, <1>8, <1>9, EventKept, SessionLostKept, NewSessionKept DEF Next

LEMMA CacheAlways == Spec => []CInv
<1> QED BY CacheInit, CacheNext, PTL DEF Spec

(* What the gateway has told of the guilds that the bot is in is what the  *)
(* cache shows, once all of it was handled (state.go:1133, OnInterface):   *)
(* things, members, presences and messages, whatever Discord changed, in   *)
(* whichever sessions it told it, and whatever was lost with a session; if *)
(* every leave was told, the guilds are listed and their members counted.  *)
THEOREM CacheMirrors == Spec => []Mirrors
<1>1. CInv => Mirrors
  <2> SUFFICES ASSUME CInv, NEW g \in Guilds, Caught(g)
               PROVE  LET cached == state[g] IN
                      /\ cached.known /\ ~cached.unavailable
                      /\ LeavesAreTold => cached.listed /\ cached.count = Cardinality(Members(g))
                      /\ \A i \in Ids :
                            /\ \A k \in {"channel", "role", "emoji", "voice", "sound"} :
                                  cached.slots[k][i].list = Things(g, k)[i]
                            /\ LET thread == cached.slots["thread"][i] IN
                               \/ thread.list = Things(g, "thread")[i]
                               \/ /\ thread.list = 0
                                  /\ Archived(Things(g, "thread")[i]) \/ thread.map # 0
                            /\ IF i \in Members(g)
                               THEN /\ cached.slots["member"][i].list
                                       \in {0, Partial, Things(g, "member")[i]}
                                    /\ Online(Things(g, "presence")[i]) =>
                                          cached.slots["presence"][i].list = Things(g, "presence")[i]
                               ELSE cached.slots["member"][i].list = 0
                            /\ Things(g, "channel")[i] # 0 =>
                                  Range(cached.messages[i]) \subseteq discord[g].messages[i]
    BY DEF Mirrors
  <2> DEFINE d == discord[g]
             s == state[g]
  <2>1. /\ Mirrored(s, d)
        /\ LeavesAreTold => Tallied(s, d)
    BY CacheOf
  <2>2. d \in Guild /\ Members(g) = Users(d) /\ d.in
    BY ThingsParts DEF CInv, Caught
  <2>3. \A k \in Kinds, i \in Ids : Things(g, k)[i] = Version(Has(d, k, i))
    BY ThingsParts DEF CInv
  <2> HIDE DEF d, s
  <2>4. \A k \in Kinds, i \in Ids : /\ Has(d, k, i) > 0 => Version(Has(d, k, i)) = Has(d, k, i)
                                    /\ ~(Has(d, k, i) > 0) => Version(Has(d, k, i)) = 0
    BY <2>2, GuildParts, Versions
  <2>5. s.known /\ ~s.unavailable
    BY <2>1 DEF Mirrored
  <2>6. LeavesAreTold => s.listed /\ s.count = Cardinality(Members(g))
    BY <2>1, <2>2 DEF Tallied
  <2>7. ASSUME NEW k \in {"channel", "role", "emoji", "voice", "sound"}, NEW i \in Ids
        PROVE  s.slots[k][i].list = Things(g, k)[i]
    <3>1. k \in Kinds /\ k \notin {"member", "presence", "thread"}
      BY KindsAre
    <3>2. Shown(k, At(s, k, i), Has(d, k, i))
      BY <2>1, <3>1 DEF Mirrored
    <3> QED BY <2>3, <3>1, <3>2 DEF Shown, At
  <2>8. ASSUME NEW k \in Kinds, k = "member", NEW i \in Ids
        PROVE  /\ i \in Members(g) => s.slots[k][i].list \in {0, Partial, Things(g, k)[i]}
               /\ i \notin Members(g) => s.slots[k][i].list = 0
    <3>1. Shown(k, At(s, k, i), Has(d, k, i))
      BY <2>1 DEF Mirrored
    <3>2. i \in Members(g) <=> Has(d, k, i) > 0
      BY <2>2, <2>8 DEF Users
    <3> QED BY <2>3, <2>4, <2>8, <3>1, <3>2 DEF Shown, At
  <2>9. ASSUME NEW k \in Kinds, k = "presence", NEW i \in Ids, Online(Things(g, k)[i])
        PROVE  s.slots[k][i].list = Things(g, k)[i]
    <3>1. Shown(k, At(s, k, i), Has(d, k, i))
      BY <2>1 DEF Mirrored
    <3> QED BY <2>3, <2>9, <3>1 DEF Shown, At
  <2>10. ASSUME NEW k \in Kinds, k = "channel", NEW i \in Ids, Things(g, k)[i] # 0
         PROVE  Range(s.messages[i]) \subseteq d.messages[i]
    <3>1. Has(d, k, i) > 0
      BY <2>3, <2>4, <2>10
    <3> QED BY <2>1, <2>10, <3>1 DEF Mirrored, Messages, Said
  <2>11. /\ "member" \in Kinds /\ "presence" \in Kinds /\ "channel" \in Kinds
         /\ "thread" \in Kinds
    BY KindsAre
  <2>12. ASSUME NEW k \in Kinds, k = "thread", NEW i \in Ids
         PROVE  \/ s.slots[k][i].list = Things(g, k)[i]
                \/ /\ s.slots[k][i].list = 0
                   /\ Archived(Things(g, k)[i]) \/ s.slots[k][i].map # 0
    <3>1. Shown(k, At(s, k, i), Has(d, k, i))
      BY <2>1 DEF Mirrored
    <3> QED BY <2>3, <2>12, <3>1 DEF Shown, Threaded, At
  <2> QED BY <2>5, <2>6, <2>7, <2>8, <2>9, <2>10, <2>11, <2>12 DEF d, s
<1> QED BY <1>1, CacheAlways, PTL

(* Member and Role find in an available guild what its lists show, Channel *)
(* whatever they show, the same object (state.go:539, 631, 849), at every  *)
(* moment: whatever was added, replaced, removed or told again before.     *)
THEOREM MapsStayTied == Spec => []MapsAgree
<1>1. CInv => MapsAgree
  <2> SUFFICES ASSUME CInv, NEW g \in Guilds, state[g].known, ~state[g].unavailable, NEW i \in Ids
               PROVE  /\ \A k \in {"member", "role"} :
                            LET slot == state[g].slots[k][i] IN
                            slot.map = slot.list /\ (slot.list # 0 => slot.same)
                      /\ \A k \in ChannelKinds :
                            LET slot == state[g].slots[k][i] IN
                            slot.list # 0 => slot.map = slot.list /\ slot.same
    BY DEF MapsAgree
  <2>1. \A k \in Kinds : Good(k, At(state[g], k, i), Has(discord[g], k, i), TRUE, TRUE)
    <3>1. Sound(state[g], discord[g])
      BY CacheOf
    <3> QED BY <3>1 DEF Sound, Good
  <2>2. ASSUME NEW k \in {"member", "role"} PROVE Tied(At(state[g], k, i))
    <3>1. k \in Kinds
      BY KindsAre
    <3> QED BY <2>1, <3>1 DEF Good
  <2>3. ASSUME NEW k \in ChannelKinds PROVE Reached(At(state[g], k, i))
    <3>1. k \in Kinds
      BY DEF Kinds
    <3> QED BY <2>1, <3>1 DEF Good
  <2> QED BY <2>2, <2>3 DEF Tied, Reached, At
<1> QED BY <1>1, CacheAlways, PTL
=============================================================================
