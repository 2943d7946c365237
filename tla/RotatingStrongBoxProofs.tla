---------------------- MODULE RotatingStrongBoxProofs ----------------------
(***************************************************************************)
(* Proofs about RotatingStrongBox, for every lifespan, backtrack limit,    *)
(* list of keys and number of threads, and about StrongBoxes, for every    *)
(* set of roots, purposes and people and any depth of derivation.          *)
(***************************************************************************)
EXTENDS RotatingStrongBox, StrongBoxes, FiniteSetTheorems, SequenceTheorems, TLAPS

----------------------------------------------------------------------------
(* Periods of time *)

(* A second lies in its period: at - at % lifespan <= at, and within it. *)
LEMMA PeriodSplit ==
    ASSUME NEW t \in Nat
    PROVE  /\ PeriodOf(t) \in Nat
           /\ PeriodOf(t) * Lifespan <= t
           /\ t < PeriodOf(t) * Lifespan + Lifespan
  BY LifespanAssumption DEF PeriodOf

(* Periods do not overlap. *)
LEMMA Multiples ==
    ASSUME NEW a \in Nat, NEW b \in Nat, a < b
    PROVE  a * Lifespan + Lifespan <= b * Lifespan
  <1>1. (a + 1) * Lifespan = a * Lifespan + Lifespan
    BY LifespanAssumption
  <1>2. PICK d \in Nat : b = a + 1 + d
    <2> WITNESS b - a - 1 \in Nat
    <2> QED OBVIOUS
  <1>3. b * Lifespan = (a + 1) * Lifespan + d * Lifespan
    BY <1>2, LifespanAssumption
  <1>4. d * Lifespan \in Nat
    BY LifespanAssumption
  <1> QED BY <1>1, <1>3, <1>4, LifespanAssumption

(* A key valid to the end of period q is expired exactly from period q + 1. *)
LEMMA ExpiredAfterPeriod ==
    ASSUME NEW t \in Nat, NEW q \in Nat
    PROVE  /\ InvalidAfter(q) \in Nat
           /\ t > InvalidAfter(q) <=> PeriodOf(t) > q
  <1>1. /\ PeriodOf(t) \in Nat
        /\ PeriodOf(t) * Lifespan <= t
        /\ t < PeriodOf(t) * Lifespan + Lifespan
    BY PeriodSplit
  <1>2. q * Lifespan \in Nat /\ PeriodOf(t) * Lifespan \in Nat
    BY <1>1, LifespanAssumption
  <1>3. PeriodOf(t) > q => q * Lifespan + Lifespan <= PeriodOf(t) * Lifespan
    BY <1>1, Multiples
  <1>4. PeriodOf(t) < q => PeriodOf(t) * Lifespan + Lifespan <= q * Lifespan
    BY <1>1, Multiples
  <1>5. PeriodOf(t) = q => PeriodOf(t) * Lifespan = q * Lifespan
    OBVIOUS
  <1>6. InvalidAfter(q) = q * Lifespan + Lifespan - 1
    BY DEF InvalidAfter, FirstValidAt
  <1> QED BY <1>1, <1>2, <1>3, <1>4, <1>5, <1>6, LifespanAssumption

(* The last second of a period is in that period. *)
LEMMA PeriodOfEnd ==
    ASSUME NEW q \in Nat
    PROVE  InvalidAfter(q) \in Nat /\ PeriodOf(InvalidAfter(q)) = q
  <1>1. InvalidAfter(q) \in Nat
    BY ExpiredAfterPeriod
  <1>2. ~ PeriodOf(InvalidAfter(q)) > q
    BY <1>1, ExpiredAfterPeriod
  <1>3. CASE q = 0
    BY <1>1, <1>2, <1>3, PeriodSplit
  <1>4. CASE q > 0
    <2>1. q - 1 \in Nat /\ q - 1 < q
      BY <1>4
    <2>2. (q - 1) * Lifespan + Lifespan <= q * Lifespan
      BY <2>1, Multiples
    <2>3. InvalidAfter(q) > InvalidAfter(q - 1)
      BY <2>1, <2>2, LifespanAssumption DEF InvalidAfter, FirstValidAt
    <2>4. PeriodOf(InvalidAfter(q)) > q - 1
      BY <1>1, <2>1, <2>3, ExpiredAfterPeriod
    <2> QED BY <1>1, <1>2, <2>1, <2>4, PeriodSplit
  <1> QED BY <1>1, <1>3, <1>4

(* The purge at the start of period c drops what expired before period c. *)
LEMMA PurgedBeforePeriod ==
    ASSUME NEW c \in Nat, NEW q \in Nat
    PROVE  FirstValidAt(c) \in Nat /\ (InvalidAfter(q) >= FirstValidAt(c) <=> q >= c)
  <1>1. FirstValidAt(c) \in Nat /\ FirstValidAt(q) \in Nat
    BY LifespanAssumption DEF FirstValidAt
  <1>2. q < c => FirstValidAt(q) + Lifespan <= FirstValidAt(c)
    BY Multiples DEF FirstValidAt
  <1>3. q > c => FirstValidAt(c) + Lifespan <= FirstValidAt(q)
    BY Multiples DEF FirstValidAt
  <1> QED BY <1>1, <1>2, <1>3, LifespanAssumption DEF InvalidAfter

(* The expiry refresh_cache gives to a key of age b is the end of the      *)
(* period Backtrack - 2 b after the current one: b is deducted twice.      *)
LEMMA AgeCountedTwice ==
    ASSUME NEW c \in Nat, NEW b \in 0 .. Backtrack, b <= c
    PROVE  /\ (c - b) + (Backtrack - b) \in Nat
           /\ ExpiryAtAge(c, b) = InvalidAfter((c - b) + (Backtrack - b))
  <1>1. c - b \in Nat /\ Backtrack - b \in Nat
    BY BacktrackAssumption
  <1>2. ((c - b) + (Backtrack - b)) * Lifespan
            = (c - b) * Lifespan + (Backtrack - b) * Lifespan
    BY <1>1, LifespanAssumption
  <1>3. (c - b) * Lifespan \in Nat /\ (Backtrack - b) * Lifespan \in Nat
    BY <1>1, LifespanAssumption
  <1> QED BY <1>1, <1>2, <1>3, LifespanAssumption
          DEF ExpiryAtAge, InvalidAfter, FirstValidAt

----------------------------------------------------------------------------
(* What a refresh does to the cache *)

Survivors == CachedAfterPurge(FirstValidAt(PeriodOf(now)))
FreshAges == FilledAges(PeriodOf(now), Survivors)
Fresh == {Key(r, PeriodOf(now) - b) : r \in DecRoots, b \in FreshAges}

(* The purge, which only reads the ordered set, removes from both          *)
(* structures the keys whose last period is over.                          *)
LEMMA PurgeEffect ==
    ASSUME BoxInv
    PROVE  /\ Survivors = {k \in DOMAIN cache : LastPeriod(k) >= PeriodOf(now)}
           /\ Kept(FirstValidAt(PeriodOf(now))) = {<<cache[k], k>> : k \in Survivors}
  <1> DEFINE t == FirstValidAt(PeriodOf(now))
  <1>1. PeriodOf(now) \in Nat /\ t \in Nat
    BY PeriodSplit, PurgedBeforePeriod DEF BoxInv, TypeOK
  <1>2. ASSUME NEW k \in DOMAIN cache
        PROVE  cache[k] \in Nat /\ (cache[k] >= t <=> LastPeriod(k) >= PeriodOf(now))
    <2>1. cache[k] \in Nat
      BY DEF BoxInv, TypeOK
    <2>2. LastPeriod(k) \in Nat
      BY <2>1, PeriodSplit DEF LastPeriod
    <2>3. cache[k] = InvalidAfter(LastPeriod(k))
      BY DEF BoxInv, ExpiryInWindow
    <2> QED BY <1>1, <2>1, <2>2, <2>3, PurgedBeforePeriod
  <1>3. Kept(t) = {<<cache[k], k>> : k \in {j \in DOMAIN cache : cache[j] >= t}}
    BY <1>1, <1>2 DEF Kept, BoxInv, CacheIndexed
  <1>4. Purged(t) = {k \in DOMAIN cache : ~ cache[k] >= t}
    <2> DEFINE Dropped == validities \ Kept(t)
               Late == {k \in DOMAIN cache : ~ cache[k] >= t}
    <2>1. Dropped = {<<cache[k], k>> : k \in Late}
      BY <1>1, <1>2 DEF Kept, BoxInv, CacheIndexed
    <2>2. Purged(t) = {v[2] : v \in Dropped}
      BY DEF Purged
    <2> HIDE DEF Dropped, Late
    <2>3. ASSUME NEW k \in Late PROVE k \in Purged(t)
      <3>1. <<cache[k], k>> \in Dropped
        BY <2>1
      <3>2. <<cache[k], k>>[2] = k
        OBVIOUS
      <3> QED BY <2>2, <3>1, <3>2
    <2>4. ASSUME NEW k \in Purged(t) PROVE k \in Late
      <3>1. PICK v \in Dropped : k = v[2]
        BY <2>2
      <3>2. PICK j \in Late : v = <<cache[j], j>>
        BY <2>1
      <3> QED BY <3>1, <3>2
    <2>5. Purged(t) = Late
      BY <2>3, <2>4
    <2> QED BY <2>5 DEF Late
  <1>5. CachedAfterPurge(t) = {k \in DOMAIN cache : cache[k] >= t}
    BY <1>4 DEF CachedAfterPurge
  <1>6. Survivors = {k \in DOMAIN cache : cache[k] >= t}
    BY <1>5 DEF Survivors
  <1> HIDE DEF t
  <1>7. Kept(t) = {<<cache[k], k>> : k \in Survivors}
    BY <1>3, <1>6
  <1>8. Survivors = {k \in DOMAIN cache : LastPeriod(k) >= PeriodOf(now)}
    BY <1>2, <1>6
  <1> QED BY <1>7, <1>8 DEF t

(* The key the walk tries is of one of the decryption roots. *)
LEMMA HeadIsRoot ==
    ASSUME DecKeys # <<>>
    PROVE  Head(DecKeys) \in DecRoots
  BY KeysAssumption DEF DecRoots

(* The keys a refresh adds: where they are, and to what period they last. *)
LEMMA FreshKeys ==
    ASSUME BoxInv, DecKeys # <<>>, NEW k \in Fresh
    PROVE  /\ k \in Keys
           /\ k.root \in DecRoots
           /\ k.period <= PeriodOf(now)
           /\ PeriodOf(now) - k.period \in FreshAges
           /\ PeriodOf(now) - k.period <= Backtrack
           /\ k \notin Survivors
           /\ 2 * k.period + Backtrack - PeriodOf(now) \in Nat
           /\ ExpiryAtAge(PeriodOf(now), PeriodOf(now) - k.period)
                  = InvalidAfter(2 * k.period + Backtrack - PeriodOf(now))
  <1> DEFINE c == PeriodOf(now)
  <1>1. c \in Nat
    BY PeriodSplit DEF BoxInv, TypeOK
  <1>2. PICK r \in DecRoots, b \in FreshAges : k = Key(r, c - b)
    BY DEF Fresh
  <1>3. b \in 0 .. Backtrack /\ b <= c
    BY <1>2 DEF FreshAges, FilledAges
  <1>3a. Key(Head(DecKeys), c - b) \notin Survivors
    BY <1>2, <1>3, BacktrackAssumption DEF FreshAges, FilledAges
  <1> HIDE DEF c
  <1>4. r \in Roots
    BY KeysAssumption DEF DecRoots
  <1>5. k.root = r /\ k.period = c - b /\ c - k.period = b /\ c - b \in Nat
    BY <1>1, <1>2, <1>3, BacktrackAssumption DEF Key
  <1>6. k \in Keys
    BY <1>2, <1>4, <1>5 DEF Key, Keys
  <1>7. 2 * k.period + Backtrack - c = (c - b) + (Backtrack - b)
    BY <1>1, <1>3, <1>5, BacktrackAssumption
  <1>8. /\ (c - b) + (Backtrack - b) \in Nat
        /\ ExpiryAtAge(c, b) = InvalidAfter((c - b) + (Backtrack - b))
    BY <1>1, <1>3, AgeCountedTwice
  <1>9. ASSUME k \in Survivors PROVE FALSE
    <2>1. /\ k \in DOMAIN cache
          /\ LastPeriod(k) >= c
      BY <1>9, PurgeEffect DEF c
    <2>2. /\ Key(Head(DecKeys), k.period) \in DOMAIN cache
          /\ cache[Key(Head(DecKeys), k.period)] = cache[k]
      BY <2>1, HeadIsRoot DEF BoxInv, RootsTogether
    <2>3. Key(Head(DecKeys), k.period) \in Survivors
      BY <2>1, <2>2, PurgeEffect DEF c, LastPeriod
    <2> QED BY <1>3a, <1>5, <2>3
  <1>10. b <= Backtrack
    BY <1>3, BacktrackAssumption
  <1>11. k.period <= c
    BY <1>1, <1>3, <1>5, BacktrackAssumption
  <1> QED BY <1>2, <1>5, <1>6, <1>7, <1>8, <1>9, <1>10, <1>11 DEF c

(* The cache after a refresh *)
LEMMA RefreshEffect ==
    ASSUME BoxInv, DecKeys # <<>>, Refresh(now)
    PROVE  /\ DOMAIN cache' = Survivors \cup Fresh
           /\ \A k \in Fresh :
                 cache'[k] = InvalidAfter(2 * k.period + Backtrack - PeriodOf(now))
           /\ \A k \in Survivors : cache'[k] = cache[k]
           /\ validities' = {<<cache'[k], k>> : k \in DOMAIN cache'}
  <1>1. cache' = [k \in Survivors \cup Fresh |->
                    IF k \in Fresh
                    THEN ExpiryAtAge(PeriodOf(now), PeriodOf(now) - k.period)
                    ELSE cache[k]]
    BY DEF Refresh, Survivors, FreshAges, Fresh
  <1>2. validities' = Kept(FirstValidAt(PeriodOf(now))) \cup
          {<<ExpiryAtAge(PeriodOf(now), PeriodOf(now) - k.period), k>> : k \in Fresh}
    BY DEF Refresh, Survivors, FreshAges, Fresh
  <1>3. \A k \in Fresh :
          cache'[k] = ExpiryAtAge(PeriodOf(now), PeriodOf(now) - k.period)
    BY <1>1
  <1>4. \A k \in Survivors : cache'[k] = cache[k]
    BY <1>1, FreshKeys
  <1>5. DOMAIN cache' = Survivors \cup Fresh
    BY <1>1
  <1>6. Kept(FirstValidAt(PeriodOf(now))) = {<<cache[k], k>> : k \in Survivors}
    BY PurgeEffect
  <1>7. Kept(FirstValidAt(PeriodOf(now))) = {<<cache'[k], k>> : k \in Survivors}
    BY <1>4, <1>6
  <1>8. {<<ExpiryAtAge(PeriodOf(now), PeriodOf(now) - k.period), k>> : k \in Fresh}
          = {<<cache'[k], k>> : k \in Fresh}
    BY <1>3
  <1>9. validities' = {<<cache'[k], k>> : k \in DOMAIN cache'}
    BY <1>2, <1>5, <1>7, <1>8
  <1>10. \A k \in Fresh :
          cache'[k] = InvalidAfter(2 * k.period + Backtrack - PeriodOf(now))
    BY <1>3, FreshKeys
  <1> QED BY <1>4, <1>5, <1>9, <1>10

CacheTyped ==
    /\ DOMAIN cache \subseteq Keys
    /\ cache \in [DOMAIN cache -> Nat]
    /\ validities \in SUBSET (Nat \X Keys)

(* A refresh leaves a cache that satisfies the invariant. *)
LEMMA RefreshKeepsCache ==
    ASSUME BoxInv, DecKeys # <<>>, Refresh(now)
    PROVE  CacheTyped' /\ CacheIndexed' /\ RootsTogether' /\ ExpiryInWindow'
  <1>1. /\ DOMAIN cache' = Survivors \cup Fresh
        /\ \A k \in Fresh :
              cache'[k] = InvalidAfter(2 * k.period + Backtrack - PeriodOf(now))
        /\ \A k \in Survivors : cache'[k] = cache[k]
        /\ validities' = {<<cache'[k], k>> : k \in DOMAIN cache'}
    BY RefreshEffect
  <1>2. PeriodOf(now) \in Nat
    BY PeriodSplit DEF BoxInv, TypeOK
  <1>3. /\ Survivors \subseteq DOMAIN cache
        /\ \A k \in DOMAIN cache : k \in Survivors <=> LastPeriod(k) >= PeriodOf(now)
    BY PurgeEffect
  <1>4. \A k \in DOMAIN cache : k \in Keys /\ cache[k] \in Nat
    BY DEF BoxInv, TypeOK
  <1>5. ASSUME NEW k \in DOMAIN cache'
        PROVE  k \in Keys /\ cache'[k] \in Nat
    <2>1. CASE k \in Survivors
      BY <1>1, <1>3, <1>4, <2>1
    <2>2. CASE k \in Fresh
      BY <1>1, <2>2, FreshKeys, ExpiredAfterPeriod
    <2> QED BY <1>1, <2>1, <2>2
  <1>6. cache' = [k \in DOMAIN cache' |-> cache'[k]]
    BY DEF Refresh
  <1>7. CacheTyped'
    <2>1. cache' \in [DOMAIN cache' -> Nat]
      BY <1>5, <1>6
    <2>2. validities' \in SUBSET (Nat \X Keys)
      BY <1>1, <1>5
    <2> QED BY <1>5, <2>1, <2>2 DEF CacheTyped
  <1>8. CacheIndexed'
    BY <1>1 DEF CacheIndexed
  <1>9. ExpiryInWindow'
    <2> SUFFICES ASSUME NEW k \in DOMAIN cache'
                 PROVE  /\ k.root \in DecRoots
                        /\ cache'[k] = InvalidAfter(PeriodOf(cache'[k]))
                        /\ PeriodOf(cache'[k]) <= k.period + Backtrack
      BY DEF ExpiryInWindow, LastPeriod
    <2>1. CASE k \in Survivors
      BY <1>1, <1>3, <2>1 DEF BoxInv, ExpiryInWindow, LastPeriod
    <2>2. CASE k \in Fresh
      <3> DEFINE q == 2 * k.period + Backtrack - PeriodOf(now)
      <3>1. q \in Nat /\ cache'[k] = InvalidAfter(q)
        BY <1>1, <2>2, FreshKeys
      <3>2. PeriodOf(cache'[k]) = q
        BY <3>1, PeriodOfEnd
      <3>3. k.period \in Nat /\ k.period <= PeriodOf(now) /\ k.root \in DecRoots
        BY <2>2, FreshKeys DEF Keys
      <3>4. q <= k.period + Backtrack
        BY <1>2, <3>3, BacktrackAssumption
      <3> HIDE DEF q
      <3> QED BY <3>1, <3>2, <3>3, <3>4
    <2> QED BY <1>1, <2>1, <2>2
  <1>10. RootsTogether'
    <2> SUFFICES ASSUME NEW k \in DOMAIN cache', NEW r \in DecRoots
                 PROVE  /\ Key(r, k.period) \in DOMAIN cache'
                        /\ cache'[Key(r, k.period)] = cache'[k]
      BY DEF RootsTogether
    <2>1. CASE k \in Survivors
      <3>1. k \in DOMAIN cache /\ LastPeriod(k) >= PeriodOf(now)
        BY <1>3, <2>1
      <3>2. /\ Key(r, k.period) \in DOMAIN cache
            /\ cache[Key(r, k.period)] = cache[k]
        BY <3>1 DEF BoxInv, RootsTogether
      <3>3. Key(r, k.period) \in Survivors
        BY <1>3, <3>1, <3>2 DEF LastPeriod
      <3> QED BY <1>1, <2>1, <3>2, <3>3
    <2>2. CASE k \in Fresh
      <3>1. /\ k \in Keys
            /\ k.period <= PeriodOf(now)
            /\ PeriodOf(now) - k.period \in FreshAges
        BY <2>2, FreshKeys
      <3>2. k.period = PeriodOf(now) - (PeriodOf(now) - k.period)
        BY <1>2, <3>1 DEF Keys
      <3>3. Key(r, k.period) \in Fresh
        BY <3>1, <3>2 DEF Fresh
      <3>4. Key(r, k.period).period = k.period
        BY DEF Key
      <3> QED BY <1>1, <2>2, <3>3, <3>4
    <2> QED BY <1>1, <2>1, <2>2
  <1> QED BY <1>7, <1>8, <1>9, <1>10

(* So does a refresh that panics after its purge. *)
LEMMA PanicKeepsCache ==
    ASSUME BoxInv, NEW th \in Threads, RefreshPanics(th)
    PROVE  CacheTyped' /\ CacheIndexed' /\ RootsTogether' /\ ExpiryInWindow'
  <1>1. DecRoots = {}
    BY DEF RefreshPanics, DecRoots
  <1>2. DOMAIN cache = {}
    BY <1>1 DEF BoxInv, ExpiryInWindow
  <1>3. Survivors = {} /\ Kept(FirstValidAt(PeriodOf(now))) = {}
    BY <1>2, PurgeEffect
  <1>4. DOMAIN cache' = {} /\ cache' \in [{} -> Nat] /\ validities' = {}
    BY <1>3 DEF RefreshPanics, Survivors
  <1> QED BY <1>4 DEF CacheTyped, CacheIndexed, RootsTogether, ExpiryInWindow

----------------------------------------------------------------------------
(* The invariant that needs no assumption on the clock *)

(* What opens was encrypted at most Backtrack periods ago. *)
LEMMA OpensInWindow ==
    ASSUME BoxInv, NEW ct \in Ciphertexts, Opens(ct)
    PROVE  PeriodOf(now) - ct.key.period <= Backtrack
  <1>1. /\ ct.key \in DOMAIN cache
        /\ ~ now > cache[ct.key]
    BY DEF Opens, IsExpired
  <1>2. now \in Nat /\ cache[ct.key] \in Nat /\ ct.key.period \in Nat
    BY <1>1 DEF BoxInv, TypeOK, Keys
  <1>3. /\ cache[ct.key] = InvalidAfter(LastPeriod(ct.key))
        /\ LastPeriod(ct.key) <= ct.key.period + Backtrack
    BY <1>1 DEF BoxInv, ExpiryInWindow
  <1>4. LastPeriod(ct.key) \in Nat /\ PeriodOf(now) \in Nat
    BY <1>2, PeriodSplit DEF LastPeriod
  <1>5. ~ PeriodOf(now) > LastPeriod(ct.key)
    BY <1>1, <1>2, <1>3, <1>4, ExpiredAfterPeriod
  <1> QED BY <1>2, <1>3, <1>4, <1>5, BacktrackAssumption

(* A new box satisfies the invariant. *)
LEMMA InitBoxInv == Init => BoxInv
  <1> SUFFICES ASSUME Init PROVE BoxInv
    OBVIOUS
  <1>1. DOMAIN cache = {} /\ cache \in [{} -> Nat] /\ validities = {}
    BY DEF Init
  <1>2. encryptor \in [key : Keys \cup {Key(ZeroKey, 0)}, invalid_after : Nat]
    BY DEF Init
  <1>3. op \in [Threads -> {Idle}] /\ \A th \in Threads : op[th].pc = "idle"
    BY DEF Init, Idle
  <1>4. TypeOK
    BY <1>1, <1>2, <1>3, TimeAssumption DEF Init, TypeOK
  <1> QED BY <1>1, <1>3, <1>4
          DEF BoxInv, CacheIndexed, RootsTogether, ExpiryInWindow, NeverPastBacktrack

(* The typing of one thread's step *)
LEMMA CalledTyped ==
    ASSUME BoxInv, NEW th \in Threads,
           op[th].pc \in {"try", "refresh", "drop", "retry", "panicked"}
    PROVE  op[th] \in Called /\ op[th].ct \in Ciphertexts
  <1>1. op[th] \in {Idle} \cup Called \cup Finished
    BY DEF BoxInv, TypeOK
  <1>2. op[th] # Idle
    BY DEF Idle
  <1>3. op[th] \notin Finished
    BY DEF Finished
  <1> QED BY <1>1, <1>2, <1>3 DEF Called

(* The typing of a call that goes on *)
LEMMA GotoTyped ==
    ASSUME BoxInv, NEW th \in Threads,
           op[th].pc \in {"try", "refresh", "drop", "retry", "panicked"},
           NEW label \in {"try", "refresh", "drop", "retry", "panicked"},
           Goto(th, label)
    PROVE  /\ op' \in [Threads -> {Idle} \cup Called \cup Finished]
           /\ op'[th] = [pc |-> label, ct |-> op[th].ct]
           /\ \A u \in Threads \ {th} : op'[u] = op[u]
  <1>1. op \in [Threads -> {Idle} \cup Called \cup Finished]
    BY DEF BoxInv, TypeOK
  <1>2. [pc |-> label, ct |-> op[th].ct] \in Called
    BY CalledTyped DEF Called
  <1> QED BY <1>1, <1>2 DEF Goto

(* The typing of a call that ends *)
LEMMA FinishTyped ==
    ASSUME BoxInv, NEW th \in Threads,
           op[th].pc \in {"try", "retry"},
           NEW result \in {"plaintext", "error"},
           Finish(th, result)
    PROVE  /\ op' \in [Threads -> {Idle} \cup Called \cup Finished]
           /\ op'[th] = [pc |-> "done", ct |-> op[th].ct, result |-> result, at |-> now]
           /\ \A u \in Threads \ {th} : op'[u] = op[u]
  <1>1. op \in [Threads -> {Idle} \cup Called \cup Finished] /\ now \in Nat
    BY DEF BoxInv, TypeOK
  <1>2. [pc |-> "done", ct |-> op[th].ct, result |-> result, at |-> now] \in Finished
    BY <1>1, CalledTyped DEF Finished
  <1> QED BY <1>1, <1>2 DEF Finish

(* The facts about the cache are about those two variables alone. *)
LEMMA UnchangedCache ==
    ASSUME BoxInv, UNCHANGED <<cache, validities>>
    PROVE  CacheTyped' /\ CacheIndexed' /\ RootsTogether' /\ ExpiryInWindow'
  BY DEF BoxInv, TypeOK, CacheTyped, CacheIndexed, RootsTogether, ExpiryInWindow,
         LastPeriod

(* The cache part of BoxInv is untouched by a step that leaves the cache,  *)
(* the rest by one that ends no call.                                      *)
LEMMA Reassemble ==
    ASSUME CacheTyped', CacheIndexed', RootsTogether', ExpiryInWindow',
           NeverPastBacktrack', (now \in Nat)', (writer \in Threads \cup {Nobody})',
           (encryptor \in [key : Keys \cup {Key(ZeroKey, 0)}, invalid_after : Nat])',
           (op \in [Threads -> {Idle} \cup Called \cup Finished])'
    PROVE  BoxInv'
  BY DEF BoxInv, TypeOK, CacheTyped

(* Every step keeps the invariant, those of a clock set back included. *)
LEMMA BoxInvStep == BoxInv /\ [Next \/ StepBack]_vars => BoxInv'
  <1> SUFFICES ASSUME BoxInv, [Next \/ StepBack]_vars
               PROVE  BoxInv'
    OBVIOUS
  <1>0. /\ now \in Nat
        /\ writer \in Threads \cup {Nobody}
        /\ encryptor \in [key : Keys \cup {Key(ZeroKey, 0)}, invalid_after : Nat]
        /\ op \in [Threads -> {Idle} \cup Called \cup Finished]
        /\ NeverPastBacktrack
    BY DEF BoxInv, TypeOK
  <1>1. ASSUME NEW th \in Threads, Encrypt(th)
        PROVE  BoxInv'
    <2>1. UNCHANGED <<now, cache, validities, writer, op>>
      BY <1>1 DEF Encrypt
    <2>2. PeriodOf(now) \in Nat /\ InvalidAfter(PeriodOf(now)) \in Nat
      BY <1>0, PeriodSplit, ExpiredAfterPeriod
    <2>3. Key(EncKey, PeriodOf(now)) \in Keys
      BY <2>2, KeysAssumption DEF Key, Keys
    <2>4. encryptor' \in [key : Keys \cup {Key(ZeroKey, 0)}, invalid_after : Nat]
      BY <1>0, <1>1, <2>2, <2>3 DEF Encrypt
    <2>5. NeverPastBacktrack'
      BY <1>0, <2>1 DEF NeverPastBacktrack
    <2> QED BY <1>0, <2>1, <2>4, <2>5, UnchangedCache, Reassemble
  <1>2. ASSUME NEW th \in Threads, CallDecrypt(th)
        PROVE  BoxInv'
    <2>1. UNCHANGED <<now, cache, validities, writer, encryptor>>
      BY <1>2 DEF CallDecrypt
    <2>2. PICK ct \in Ciphertexts : op' = [op EXCEPT ![th] = [pc |-> "try", ct |-> ct]]
      BY <1>2 DEF CallDecrypt
    <2>3. op' \in [Threads -> {Idle} \cup Called \cup Finished]
      BY <1>0, <2>2 DEF Called
    <2>4. NeverPastBacktrack'
      BY <1>0, <2>2 DEF NeverPastBacktrack
    <2> QED BY <1>0, <2>1, <2>3, <2>4, UnchangedCache, Reassemble
  <1>3. ASSUME NEW th \in Threads, NEW result \in {"plaintext", "error"},
               op[th].pc \in {"try", "retry"}, Finish(th, result),
               result = "plaintext" => Opens(op[th].ct),
               UNCHANGED <<now, encryptor, cache, validities, writer>>
        PROVE  BoxInv'
    <2>1. /\ op' \in [Threads -> {Idle} \cup Called \cup Finished]
          /\ op'[th] = [pc |-> "done", ct |-> op[th].ct, result |-> result, at |-> now]
          /\ \A u \in Threads \ {th} : op'[u] = op[u]
      BY <1>3, FinishTyped
    <2>2. op[th].ct \in Ciphertexts
      BY <1>3, CalledTyped
    <2>3. result = "plaintext" => PeriodOf(now) - op[th].ct.key.period <= Backtrack
      BY <1>3, <2>2, OpensInWindow
    <2>4. NeverPastBacktrack'
      BY <1>0, <2>1, <2>3 DEF NeverPastBacktrack
    <2> QED BY <1>0, <1>3, <2>1, <2>4, UnchangedCache, Reassemble
  <1>4. ASSUME NEW th \in Threads, NEW label \in {"refresh", "drop", "retry", "panicked"},
               op[th].pc \in {"try", "refresh", "drop"}, Goto(th, label),
               UNCHANGED <<now, encryptor>>, (writer \in Threads \cup {Nobody})',
               CacheTyped', CacheIndexed', RootsTogether', ExpiryInWindow'
        PROVE  BoxInv'
    <2>1. /\ op' \in [Threads -> {Idle} \cup Called \cup Finished]
          /\ op'[th] = [pc |-> label, ct |-> op[th].ct]
          /\ \A u \in Threads \ {th} : op'[u] = op[u]
      BY <1>4, GotoTyped
    <2>2. NeverPastBacktrack'
      BY <1>0, <2>1 DEF NeverPastBacktrack
    <2> QED BY <1>0, <1>4, <2>1, <2>2, Reassemble
  <1>5. ASSUME NEW th \in Threads, TryDecrypt(th)
        PROVE  BoxInv'
    <2>1. CASE Opens(op[th].ct) /\ Finish(th, "plaintext")
      BY <1>3, <1>5, <2>1 DEF TryDecrypt
    <2>2. CASE ~ Opens(op[th].ct) /\ Goto(th, "refresh")
      BY <1>0, <1>4, <1>5, <2>2, UnchangedCache DEF TryDecrypt
    <2> QED BY <1>5, <2>1, <2>2 DEF TryDecrypt
  <1>6. ASSUME NEW th \in Threads, RefillCache(th)
        PROVE  BoxInv'
    BY <1>4, <1>6, RefreshKeepsCache DEF RefillCache
  <1>7. ASSUME NEW th \in Threads, RefreshPanics(th)
        PROVE  BoxInv'
    BY <1>0, <1>4, <1>7, PanicKeepsCache DEF RefreshPanics
  <1>8. ASSUME NEW th \in Threads, DropLock(th)
        PROVE  BoxInv'
    BY <1>4, <1>8, UnchangedCache DEF DropLock
  <1>9. ASSUME NEW th \in Threads, RetryDecrypt(th)
        PROVE  BoxInv'
    BY <1>3, <1>9 DEF RetryDecrypt
  <1>10. ASSUME NEW th \in Threads, Return(th)
         PROVE  BoxInv'
    <2>1. op' = [op EXCEPT ![th] = Idle] /\ Idle.pc = "idle"
      BY <1>10 DEF Return, Idle
    <2>2. op' \in [Threads -> {Idle} \cup Called \cup Finished]
      BY <1>0, <2>1
    <2>3. NeverPastBacktrack'
      BY <1>0, <2>1 DEF NeverPastBacktrack
    <2> QED BY <1>0, <1>10, <2>2, <2>3, UnchangedCache, Reassemble DEF Return
  <1>11. ASSUME Tick \/ StepBack
         PROVE  BoxInv'
    <2>1. UNCHANGED <<cache, validities, writer, op, encryptor>> /\ now' \in Nat
      BY <1>0, <1>11, TimeAssumption DEF Tick, StepBack
    <2>2. NeverPastBacktrack'
      BY <1>0, <2>1 DEF NeverPastBacktrack
    <2> QED BY <1>0, <2>1, <2>2, UnchangedCache, Reassemble
  <1>12. ASSUME UNCHANGED vars
         PROVE  BoxInv'
    <2>1. UNCHANGED <<now, cache, validities, writer, op, encryptor>>
      BY <1>12 DEF vars
    <2>2. NeverPastBacktrack'
      BY <1>0, <2>1 DEF NeverPastBacktrack
    <2> QED BY <1>0, <2>1, <2>2, UnchangedCache, Reassemble
  <1> QED BY <1>1, <1>2, <1>5, <1>6, <1>7, <1>8, <1>9, <1>10, <1>11, <1>12
          DEF Next, Step, RefreshCache

(* The box and its callers stay well typed, whatever the clock does. *)
THEOREM TypeCorrect == SkewedSpec => []TypeOK
  <1>1. BoxInv => TypeOK
    BY DEF BoxInv
  <1> QED BY <1>1, InitBoxInv, BoxInvStep, PTL DEF SkewedSpec

(* The cache and the ordered set that drives its purge agree, whatever the *)
(* clock does and in whatever order threads refresh it.                    *)
THEOREM CacheIndexCorrect == SkewedSpec => []CacheIndexed
  <1>1. BoxInv => CacheIndexed
    BY DEF BoxInv
  <1> QED BY <1>1, InitBoxInv, BoxInvStep, PTL DEF SkewedSpec

(* No decryption reaches further back than Backtrack periods, even under a *)
(* clock that is set back.                                                 *)
THEOREM WindowRespected == SkewedSpec => []NeverPastBacktrack
  <1>1. BoxInv => NeverPastBacktrack
    BY DEF BoxInv
  <1> QED BY <1>1, InitBoxInv, BoxInvStep, PTL DEF SkewedSpec

----------------------------------------------------------------------------
(* What a clock that never goes back adds *)

(* A later second is in the same period or a later one. *)
LEMMA PeriodMonotone ==
    ASSUME NEW t \in Nat, NEW u \in Nat, t <= u
    PROVE  PeriodOf(t) <= PeriodOf(u)
  <1>1. /\ PeriodOf(t) \in Nat /\ PeriodOf(u) \in Nat
        /\ PeriodOf(t) * Lifespan <= t
        /\ u < PeriodOf(u) * Lifespan + Lifespan
    BY PeriodSplit
  <1>2. PeriodOf(u) < PeriodOf(t) =>
            PeriodOf(u) * Lifespan + Lifespan <= PeriodOf(t) * Lifespan
    BY <1>1, Multiples
  <1>3. PeriodOf(u) * Lifespan \in Nat /\ PeriodOf(t) * Lifespan \in Nat
    BY <1>1, LifespanAssumption
  <1> QED BY <1>1, <1>2, <1>3, LifespanAssumption

(* A cached key of a recent period is not expired. *)
LEMMA RecentUnexpired ==
    ASSUME MonotoneInv, NEW k \in DOMAIN cache, Recent(k.period)
    PROVE  LastPeriod(k) >= PeriodOf(now)
  <1>1. k.period \in Nat /\ cache[k] \in Nat /\ now \in Nat
    BY DEF MonotoneInv, BoxInv, TypeOK, Keys
  <1>2. LastPeriod(k) \in Nat /\ PeriodOf(now) \in Nat
    BY <1>1, PeriodSplit DEF LastPeriod
  <1>3. /\ 2 * k.period + Backtrack - PeriodOf(now) <= LastPeriod(k)
        /\ 2 * (PeriodOf(now) - k.period) <= Backtrack
    BY DEF MonotoneInv, ExpiryEarned, Recent
  <1> QED BY <1>1, <1>2, <1>3, BacktrackAssumption

(* The walk of refresh_cache stops early only at a period below which the  *)
(* recent periods are already cached, so after it none is missing.         *)
LEMMA RefreshReachesRecent ==
    ASSUME MonotoneInv, DecKeys # <<>>, Refresh(now),
           NEW r \in DecRoots, NEW p \in 0 .. PeriodOf(now), Recent(p)
    PROVE  Key(r, p) \in DOMAIN cache'
  <1> DEFINE c == PeriodOf(now)
  <1>1. c \in Nat /\ p \in Nat /\ p <= c /\ c - p <= Backtrack /\ c - p \in Nat
        /\ c - (c - p) = p
    <2>1. c \in Nat
      BY PeriodSplit DEF MonotoneInv, BoxInv, TypeOK
    <2>2. 2 * (c - p) <= Backtrack
      BY DEF Recent
    <2> HIDE DEF c
    <2>3. p \in Nat /\ p <= c
      BY <2>1 DEF c
    <2> QED BY <2>1, <2>2, <2>3, BacktrackAssumption
  <1>2. DOMAIN cache' = Survivors \cup Fresh
    BY RefreshEffect DEF MonotoneInv
  <1>3. CASE c - p \in FreshAges
    <2>1. Key(r, c - (c - p)) \in Fresh
      BY <1>3 DEF Fresh
    <2> QED BY <1>1, <1>2, <2>1
  <1>4. CASE c - p \notin FreshAges
    <2>1. PICK a \in 0 .. (c - p) : Key(Head(DecKeys), c - a) \in Survivors
      <3>1. c - p \in 0 .. Backtrack /\ c - p <= c
        BY <1>1, BacktrackAssumption
      <3> QED BY <1>4, <3>1 DEF FreshAges, FilledAges
    <2> DEFINE k == Key(Head(DecKeys), c - a)
    <2>2. k \in DOMAIN cache /\ k.period = c - a
      BY <2>1, PurgeEffect DEF MonotoneInv, Key
    <2> HIDE DEF k, c
    <2>3. p \in 0 .. k.period
      BY <1>1, <2>1, <2>2
    <2>4. Key(r, p) \in DOMAIN cache
      BY <2>2, <2>3 DEF MonotoneInv, RecentCached
    <2>5. Key(r, p).period = p
      BY DEF Key
    <2>6. LastPeriod(Key(r, p)) >= PeriodOf(now)
      BY <2>4, <2>5, RecentUnexpired
    <2>7. Key(r, p) \in Survivors
      BY <2>4, <2>6, PurgeEffect DEF MonotoneInv
    <2> QED BY <1>2, <2>7
  <1> QED BY <1>3, <1>4

(* A refresh keeps the facts about the cache that depend on the clock. *)
LEMMA RefreshKeepsRecent ==
    ASSUME MonotoneInv, DecKeys # <<>>, Refresh(now), UNCHANGED now
    PROVE  ExpiryEarned' /\ RecentCached'
  <1>1. /\ DOMAIN cache' = Survivors \cup Fresh
        /\ \A k \in Fresh :
              cache'[k] = InvalidAfter(2 * k.period + Backtrack - PeriodOf(now))
        /\ \A k \in Survivors : k \in DOMAIN cache /\ cache'[k] = cache[k]
    BY RefreshEffect, PurgeEffect DEF MonotoneInv
  <1>2. ExpiryEarned'
    <2> SUFFICES ASSUME NEW k \in DOMAIN cache'
                 PROVE  /\ k.period <= PeriodOf(now)
                        /\ 2 * k.period + Backtrack - PeriodOf(now)
                              <= PeriodOf(cache'[k])
      BY DEF ExpiryEarned, LastPeriod
    <2>1. CASE k \in Survivors
      BY <1>1, <2>1 DEF MonotoneInv, ExpiryEarned, LastPeriod
    <2>2. CASE k \in Fresh
      <3> DEFINE q == 2 * k.period + Backtrack - PeriodOf(now)
      <3>1. q \in Nat /\ cache'[k] = InvalidAfter(q) /\ k.period <= PeriodOf(now)
        BY <1>1, <2>2, FreshKeys DEF MonotoneInv
      <3>2. PeriodOf(cache'[k]) = q
        BY <3>1, PeriodOfEnd
      <3> QED BY <3>1, <3>2
    <2> QED BY <1>1, <2>1, <2>2
  <1>3. RecentCached'
    <2> SUFFICES ASSUME NEW k \in DOMAIN cache', NEW r \in DecRoots,
                        NEW p \in 0 .. k.period, Recent(p)
                 PROVE  Key(r, p) \in DOMAIN cache'
      BY DEF RecentCached, Recent
    <2>1. k \in Keys
      BY <1>1, FreshKeys DEF MonotoneInv, BoxInv, TypeOK
    <2>2. k.period <= PeriodOf(now)
      BY <1>2 DEF ExpiryEarned
    <2>3. PeriodOf(now) \in Nat
      BY PeriodSplit DEF MonotoneInv, BoxInv, TypeOK
    <2>4. p \in 0 .. PeriodOf(now)
      BY <2>1, <2>2, <2>3 DEF Keys
    <2> QED BY <2>4, RefreshReachesRecent
  <1> QED BY <1>2, <1>3

(* When a call that refreshed the cache retries, a recent key opens. *)
LEMMA RecentOpens ==
    ASSUME MonotoneInv, NEW th \in Threads, op[th].pc = "retry",
           op[th].ct.intact, op[th].ct.key.root \in DecRoots,
           Recent(op[th].ct.key.period)
    PROVE  Opens(op[th].ct)
  <1> DEFINE k == op[th].ct.key
  <1>1. k \in DOMAIN cache
    BY DEF MonotoneInv, CallReady
  <1>2. LastPeriod(k) >= PeriodOf(now)
    BY <1>1, RecentUnexpired
  <1>3. now \in Nat /\ cache[k] \in Nat
    BY <1>1 DEF MonotoneInv, BoxInv, TypeOK
  <1>4. LastPeriod(k) \in Nat /\ PeriodOf(now) \in Nat
    BY <1>3, PeriodSplit DEF LastPeriod
  <1>5. cache[k] = InvalidAfter(LastPeriod(k))
    BY <1>1 DEF MonotoneInv, BoxInv, ExpiryInWindow
  <1>6. ~ now > cache[k]
    BY <1>2, <1>3, <1>4, <1>5, ExpiredAfterPeriod
  <1> QED BY <1>1, <1>6 DEF Opens, IsExpired

(* What a call decrypts names a root and a period. *)
LEMMA CallTyped ==
    ASSUME BoxInv, NEW th \in Threads,
           op[th].pc \in {"try", "refresh", "drop", "retry", "panicked"}
    PROVE  /\ op[th].ct.key.period \in Nat
           /\ op[th].ct.key = Key(op[th].ct.key.root, op[th].ct.key.period)
  <1>1. PeriodOf(MaxTime) \in Nat
    BY TimeAssumption, PeriodSplit
  <1> QED BY <1>1, CalledTyped DEF Ciphertexts, Periods, Key

(* A new box satisfies the invariant of a clock that never goes back. *)
LEMMA InitMonotoneInv == Init => MonotoneInv
  <1> SUFFICES ASSUME Init PROVE MonotoneInv
    OBVIOUS
  <1>1. DOMAIN cache = {} /\ \A th \in Threads : op[th].pc = "idle"
    BY DEF Init, Idle
  <1> QED BY <1>1, InitBoxInv
          DEF MonotoneInv, ExpiryEarned, RecentCached, CallReady, RecentDecrypts, Refused

(* Time passing only makes fewer periods recent. *)
LEMMA RecentFades ==
    ASSUME now \in Nat, now' \in Nat, now <= now', NEW p \in Nat, Recent(p)'
    PROVE  Recent(p) /\ PeriodOf(now) <= PeriodOf(now')
  <1>1. PeriodOf(now) \in Nat /\ PeriodOf(now') \in Nat
    BY PeriodSplit
  <1>2. PeriodOf(now) <= PeriodOf(now')
    BY PeriodMonotone
  <1> QED BY <1>1, <1>2, BacktrackAssumption DEF Recent

(* Every step of a clock that never goes back keeps it. *)
LEMMA MonotoneInvStep == MonotoneInv /\ [Next]_vars => MonotoneInv'
  <1> SUFFICES ASSUME MonotoneInv, [Next]_vars
               PROVE  MonotoneInv'
    OBVIOUS
  <1>1. BoxInv /\ BoxInv'
    BY BoxInvStep DEF MonotoneInv
  <1>2. now \in Nat /\ op \in [Threads -> {Idle} \cup Called \cup Finished]
    BY <1>1 DEF BoxInv, TypeOK
  <1>3. ASSUME UNCHANGED <<now, cache>>
        PROVE  ExpiryEarned' /\ RecentCached'
    BY <1>3 DEF MonotoneInv, ExpiryEarned, RecentCached, LastPeriod, Recent
  <1>4. ASSUME UNCHANGED <<now, cache, op>>
        PROVE  MonotoneInv'
    <2>1. CallReady' /\ RecentDecrypts'
      BY <1>4 DEF MonotoneInv, CallReady, RecentDecrypts, Recent, Refused
    <2> QED BY <1>1, <1>3, <1>4, <2>1 DEF MonotoneInv
  <1>5. ASSUME NEW th \in Threads, CallDecrypt(th)
        PROVE  MonotoneInv'
    <2>1. PICK ct \in Ciphertexts :
             /\ ct.key.period <= PeriodOf(now)
             /\ op' = [op EXCEPT ![th] = [pc |-> "try", ct |-> ct]]
      BY <1>5 DEF CallDecrypt
    <2>2. UNCHANGED <<now, cache>>
      BY <1>5 DEF CallDecrypt
    <2>3. op'[th] = [pc |-> "try", ct |-> ct] /\ \A u \in Threads \ {th} : op'[u] = op[u]
      BY <1>2, <2>1
    <2>4. CallReady'
      BY <2>1, <2>2, <2>3 DEF MonotoneInv, CallReady, Recent
    <2>5. RecentDecrypts'
      BY <2>2, <2>3 DEF MonotoneInv, RecentDecrypts, Refused
    <2> QED BY <1>1, <1>3, <2>2, <2>4, <2>5 DEF MonotoneInv
  <1>6. ASSUME NEW th \in Threads, NEW result \in {"plaintext", "error"},
               op[th].pc \in {"try", "retry"}, Finish(th, result),
               result = "error" => op[th].pc = "retry" /\ ~ Opens(op[th].ct),
               UNCHANGED <<now, cache>>
        PROVE  MonotoneInv'
    <2>1. /\ op'[th] = [pc |-> "done", ct |-> op[th].ct, result |-> result, at |-> now]
          /\ \A u \in Threads \ {th} : op'[u] = op[u]
      BY <1>1, <1>6, FinishTyped
    <2>2. CallReady'
      BY <1>6, <2>1 DEF MonotoneInv, CallReady, Recent
    <2>3. ASSUME Refused(th)'
          PROVE  2 * (PeriodOf(now) - op[th].ct.key.period) > Backtrack
      <3>1. /\ op[th].pc = "retry" /\ ~ Opens(op[th].ct)
            /\ op[th].ct.intact /\ op[th].ct.key.root \in DecRoots
        BY <1>6, <2>1, <2>3 DEF Refused
      <3>2. ~ Recent(op[th].ct.key.period)
        BY <3>1, RecentOpens
      <3>3. op[th].ct.key.period \in Nat /\ PeriodOf(now) \in Nat
        BY <1>1, <1>2, <1>6, CallTyped, PeriodSplit
      <3> QED BY <3>2, <3>3, BacktrackAssumption DEF Recent
    <2>4. RecentDecrypts'
      <3> SUFFICES ASSUME NEW u \in Threads, Refused(u)'
                   PROVE  2 * (PeriodOf(op'[u].at) - op'[u].ct.key.period) > Backtrack
        BY DEF RecentDecrypts
      <3>1. CASE u = th
        BY <2>1, <2>3, <3>1
      <3>2. CASE u # th
        BY <2>1, <3>2 DEF MonotoneInv, RecentDecrypts, Refused
      <3> QED BY <3>1, <3>2
    <2> QED BY <1>1, <1>3, <1>6, <2>2, <2>4 DEF MonotoneInv
  <1>7. ASSUME NEW th \in Threads, TryDecrypt(th)
        PROVE  MonotoneInv'
    <2>1. CASE Opens(op[th].ct) /\ Finish(th, "plaintext")
      BY <1>6, <1>7, <2>1 DEF TryDecrypt
    <2>2. CASE ~ Opens(op[th].ct) /\ Goto(th, "refresh")
      <3>1. /\ op'[th] = [pc |-> "refresh", ct |-> op[th].ct]
            /\ \A u \in Threads \ {th} : op'[u] = op[u]
        BY <1>1, <1>7, <2>2, GotoTyped DEF TryDecrypt
      <3>2. UNCHANGED <<now, cache>> /\ op[th].pc = "try"
        BY <1>7 DEF TryDecrypt
      <3>3. CallReady'
        BY <3>1, <3>2 DEF MonotoneInv, CallReady, Recent
      <3>4. RecentDecrypts'
        BY <3>1, <3>2 DEF MonotoneInv, RecentDecrypts, Refused
      <3> QED BY <1>1, <1>3, <3>2, <3>3, <3>4 DEF MonotoneInv
    <2> QED BY <1>7, <2>1, <2>2 DEF TryDecrypt
  <1>8. ASSUME NEW th \in Threads, RefillCache(th)
        PROVE  MonotoneInv'
    <2>1. /\ op'[th] = [pc |-> "drop", ct |-> op[th].ct]
          /\ \A u \in Threads \ {th} : op'[u] = op[u]
      BY <1>1, <1>8, GotoTyped DEF RefillCache
    <2>2. UNCHANGED now /\ op[th].pc = "refresh" /\ DecKeys # <<>> /\ Refresh(now)
      BY <1>8 DEF RefillCache
    <2>3. ExpiryEarned' /\ RecentCached'
      BY <2>2, RefreshKeepsRecent
    <2>4. CallReady'
      <3> SUFFICES ASSUME NEW u \in Threads,
                          op'[u].pc \in {"try", "refresh", "drop", "retry"}
                   PROVE  /\ op'[u].ct.key.period <= PeriodOf(now)
                          /\ op'[u].pc \in {"drop", "retry"} =>
                               (op'[u].ct.key.root \in DecRoots
                                  /\ Recent(op'[u].ct.key.period)
                                => op'[u].ct.key \in DOMAIN cache')
        BY <2>2 DEF CallReady, Recent
      <3>1. op'[u].ct = op[u].ct /\ op[u].pc \in {"try", "refresh", "drop", "retry"}
        BY <2>1, <2>2
      <3>2. op[u].ct.key.period <= PeriodOf(now)
        BY <3>1 DEF MonotoneInv, CallReady
      <3>3. /\ op[u].ct.key.period \in Nat
            /\ op[u].ct.key = Key(op[u].ct.key.root, op[u].ct.key.period)
        BY <1>1, <3>1, CallTyped
      <3>4. op[u].ct.key.period \in 0 .. PeriodOf(now)
        BY <1>2, <3>2, <3>3, PeriodSplit
      <3> QED BY <2>2, <3>1, <3>2, <3>3, <3>4, RefreshReachesRecent
    <2>5. RecentDecrypts'
      BY <2>1 DEF MonotoneInv, RecentDecrypts, Refused
    <2> QED BY <1>1, <2>3, <2>4, <2>5 DEF MonotoneInv
  <1>9. ASSUME NEW th \in Threads, RefreshPanics(th)
        PROVE  MonotoneInv'
    <2>1. /\ op'[th] = [pc |-> "panicked", ct |-> op[th].ct]
          /\ \A u \in Threads \ {th} : op'[u] = op[u]
      BY <1>1, <1>9, GotoTyped DEF RefreshPanics
    <2>2. UNCHANGED now /\ DecRoots = {}
      BY <1>9 DEF RefreshPanics, DecRoots
    <2>3. DOMAIN cache' = {}
      BY <1>1, <2>2 DEF BoxInv, ExpiryInWindow
    <2>4. ExpiryEarned' /\ RecentCached'
      BY <2>3 DEF ExpiryEarned, RecentCached
    <2>5. CallReady'
      BY <2>1, <2>2 DEF MonotoneInv, CallReady
    <2>6. RecentDecrypts'
      BY <2>2 DEF RecentDecrypts, Refused
    <2> QED BY <1>1, <2>4, <2>5, <2>6 DEF MonotoneInv
  <1>10. ASSUME NEW th \in Threads, DropLock(th)
         PROVE  MonotoneInv'
    <2>1. /\ op'[th] = [pc |-> "retry", ct |-> op[th].ct]
          /\ \A u \in Threads \ {th} : op'[u] = op[u]
      BY <1>1, <1>10, GotoTyped DEF DropLock
    <2>2. UNCHANGED <<now, cache>> /\ op[th].pc = "drop"
      BY <1>10 DEF DropLock
    <2>3. CallReady'
      BY <2>1, <2>2 DEF MonotoneInv, CallReady, Recent
    <2>4. RecentDecrypts'
      BY <2>1, <2>2 DEF MonotoneInv, RecentDecrypts, Refused
    <2> QED BY <1>1, <1>3, <2>2, <2>3, <2>4 DEF MonotoneInv
  <1>11. ASSUME NEW th \in Threads, RetryDecrypt(th)
         PROVE  MonotoneInv'
    BY <1>6, <1>11 DEF RetryDecrypt
  <1>12. ASSUME NEW th \in Threads, Return(th)
         PROVE  MonotoneInv'
    <2>1. op'[th].pc = "idle" /\ \A u \in Threads \ {th} : op'[u] = op[u]
      BY <1>2, <1>12 DEF Return, Idle
    <2>2. UNCHANGED <<now, cache>>
      BY <1>12 DEF Return
    <2>3. CallReady'
      BY <2>1, <2>2 DEF MonotoneInv, CallReady, Recent
    <2>4. RecentDecrypts'
      BY <2>1, <2>2 DEF MonotoneInv, RecentDecrypts, Refused
    <2> QED BY <1>1, <1>3, <2>2, <2>3, <2>4 DEF MonotoneInv
  <1>13. ASSUME Tick
         PROVE  MonotoneInv'
    <2>1. UNCHANGED <<cache, op>> /\ now' \in Nat /\ now <= now'
      BY <1>2, <1>13, TimeAssumption DEF Tick
    <2>2. PeriodOf(now) \in Nat /\ PeriodOf(now') \in Nat
          /\ PeriodOf(now) <= PeriodOf(now')
      BY <1>2, <2>1, PeriodSplit, PeriodMonotone
    <2>3. \A k \in DOMAIN cache : k.period \in Nat /\ LastPeriod(k) \in Nat
      BY <1>1, PeriodSplit DEF BoxInv, TypeOK, Keys, LastPeriod
    <2>4. ExpiryEarned'
      <3> SUFFICES ASSUME NEW k \in DOMAIN cache
                   PROVE  /\ k.period <= PeriodOf(now')
                          /\ 2 * k.period + Backtrack - PeriodOf(now')
                                <= LastPeriod(k)
        BY <2>1 DEF ExpiryEarned, LastPeriod
      <3>1. /\ k.period <= PeriodOf(now)
            /\ 2 * k.period + Backtrack - PeriodOf(now) <= LastPeriod(k)
        BY DEF MonotoneInv, ExpiryEarned
      <3> QED BY <2>2, <2>3, <3>1, BacktrackAssumption
    <2>5. RecentCached'
      <3> SUFFICES ASSUME NEW k \in DOMAIN cache, NEW r \in DecRoots,
                          NEW p \in 0 .. k.period, Recent(p)'
                   PROVE  Key(r, p) \in DOMAIN cache
        BY <2>1 DEF RecentCached
      <3>1. Recent(p)
        BY <1>2, <2>1, <2>3, RecentFades
      <3> QED BY <3>1 DEF MonotoneInv, RecentCached
    <2>6. CallReady'
      <3> SUFFICES ASSUME NEW u \in Threads,
                          op[u].pc \in {"try", "refresh", "drop", "retry"}
                   PROVE  /\ op[u].ct.key.period <= PeriodOf(now')
                          /\ op[u].pc \in {"drop", "retry"} =>
                               (op[u].ct.key.root \in DecRoots
                                  /\ Recent(op[u].ct.key.period)'
                                => op[u].ct.key \in DOMAIN cache)
        BY <2>1 DEF CallReady, Recent
      <3>1. op[u].ct.key.period \in Nat
        BY <1>1, CallTyped
      <3>2. op[u].ct.key.period <= PeriodOf(now)
        BY DEF MonotoneInv, CallReady
      <3>3. Recent(op[u].ct.key.period)' => Recent(op[u].ct.key.period)
        <4> SUFFICES ASSUME Recent(op[u].ct.key.period)'
                     PROVE  Recent(op[u].ct.key.period)
          OBVIOUS
        <4> QED BY <2>1, <2>2, <3>1, BacktrackAssumption DEF Recent
      <3>4. op[u].pc \in {"drop", "retry"} =>
               (op[u].ct.key.root \in DecRoots /\ Recent(op[u].ct.key.period)
                   => op[u].ct.key \in DOMAIN cache)
        BY DEF MonotoneInv, CallReady
      <3>5. op[u].ct.key.period <= PeriodOf(now')
        BY <2>2, <3>1, <3>2
      <3> QED BY <2>1, <3>3, <3>4, <3>5
    <2>7. RecentDecrypts'
      BY <2>1 DEF MonotoneInv, RecentDecrypts, Refused
    <2> QED BY <1>1, <2>4, <2>5, <2>6, <2>7 DEF MonotoneInv
  <1>14. ASSUME NEW th \in Threads, Encrypt(th)
         PROVE  MonotoneInv'
    BY <1>4, <1>14 DEF Encrypt
  <1>15. ASSUME UNCHANGED vars
         PROVE  MonotoneInv'
    BY <1>4, <1>15 DEF vars
  <1> QED BY <1>5, <1>7, <1>8, <1>9, <1>10, <1>11, <1>12, <1>13, <1>14, <1>15
          DEF Next, Step, RefreshCache

(* What the box guarantees to decrypt: with a clock that does not go back, *)
(* no intact ciphertext of at most half the backtrack limit is refused.    *)
THEOREM RecentNeverRefused == Spec => []RecentDecrypts
  <1>1. MonotoneInv => RecentDecrypts
    BY DEF MonotoneInv
  <1> QED BY <1>1, InitMonotoneInv, MonotoneInvStep, PTL DEF Spec

----------------------------------------------------------------------------
(* The size of the cache *)

(* A refresh, and a purge, leave the keys of one window. *)
LEMMA RefreshKeepsWindow ==
    ASSUME MonotoneInv, DecKeys # <<>>, Refresh(now), UNCHANGED now
    PROVE  CacheInWindow'
  <1>1. /\ BoxInv /\ ExpiryEarned /\ PeriodOf(now) \in Nat
        /\ DOMAIN cache' = Survivors \cup Fresh
    BY RefreshEffect, PeriodSplit DEF MonotoneInv, BoxInv, TypeOK
  <1>2. ASSUME NEW k \in Survivors
        PROVE  k.period <= PeriodOf(now) /\ PeriodOf(now) <= k.period + Backtrack
    <2>1. k \in DOMAIN cache /\ LastPeriod(k) >= PeriodOf(now)
      BY <1>1, PurgeEffect
    <2>2. k.period \in Nat /\ LastPeriod(k) \in Nat
      BY <1>1, <2>1, PeriodSplit DEF BoxInv, TypeOK, Keys, LastPeriod
    <2>3. LastPeriod(k) <= k.period + Backtrack /\ k.period <= PeriodOf(now)
      BY <1>1, <2>1 DEF BoxInv, ExpiryInWindow, ExpiryEarned
    <2> QED BY <1>1, <2>1, <2>2, <2>3, BacktrackAssumption
  <1>3. ASSUME NEW k \in Fresh
        PROVE  k.period <= PeriodOf(now) /\ PeriodOf(now) <= k.period + Backtrack
    <2>1. /\ k.period \in Nat /\ k.period <= PeriodOf(now)
          /\ PeriodOf(now) - k.period <= Backtrack
      BY <1>1, FreshKeys DEF Keys
    <2> QED BY <1>1, <2>1, BacktrackAssumption
  <1>4. PeriodOf(now) \in 0 .. PeriodOf(now') /\ PeriodOf(now)' = PeriodOf(now)
    BY <1>1
  <1> QED BY <1>1, <1>2, <1>3, <1>4 DEF CacheInWindow

LEMMA WindowStep ==
    ASSUME MonotoneInv, CacheInWindow, [Next]_vars
    PROVE  CacheInWindow'
  <1>0. now \in Nat
    BY DEF MonotoneInv, BoxInv, TypeOK
  <1>1. ASSUME UNCHANGED <<now, cache>>
        PROVE  CacheInWindow'
    BY <1>1 DEF CacheInWindow
  <1>2. ASSUME NEW th \in Threads, RefillCache(th)
        PROVE  CacheInWindow'
    BY <1>2, RefreshKeepsWindow DEF RefillCache
  <1>3. ASSUME NEW th \in Threads, RefreshPanics(th)
        PROVE  CacheInWindow'
    <2>1. DOMAIN cache' \subseteq DOMAIN cache /\ UNCHANGED now
      BY <1>3 DEF RefreshPanics, CachedAfterPurge
    <2> QED BY <2>1 DEF CacheInWindow
  <1>4. ASSUME Tick
        PROVE  CacheInWindow'
    <2>1. UNCHANGED cache /\ now' \in Nat /\ now <= now'
      BY <1>0, <1>4, TimeAssumption DEF Tick
    <2>2. 0 .. PeriodOf(now) \subseteq 0 .. PeriodOf(now')
      BY <1>0, <2>1, PeriodSplit, PeriodMonotone
    <2> QED BY <2>1, <2>2 DEF CacheInWindow
  <1> QED BY <1>1, <1>2, <1>3, <1>4
          DEF Next, Step, vars, Encrypt, CallDecrypt, TryDecrypt, RefreshCache, DropLock,
              RetryDecrypt, Return

LEMMA DecRootsFinite == IsFiniteSet(DecRoots) /\ Cardinality(DecRoots) \in Nat
  <1> DEFINE At == [i \in 1 .. Len(DecKeys) |-> DecKeys[i]]
  <1>1. Len(DecKeys) \in Nat /\ DOMAIN DecKeys = 1 .. Len(DecKeys)
    BY KeysAssumption
  <1>2. At \in Surjection(1 .. Len(DecKeys), DecRoots)
    BY <1>1 DEF Surjection, DecRoots
  <1>3. IsFiniteSet(1 .. Len(DecKeys))
    BY <1>1, FS_Interval
  <1> HIDE DEF At
  <1>4. IsFiniteSet(DecRoots)
    BY <1>2, <1>3, FS_Surjection
  <1> QED BY <1>4, FS_CardinalityType

(* The keys of one window are told apart by their root and their age. *)
LEMMA WindowIsSmall ==
    ASSUME BoxInv, CacheInWindow
    PROVE  CacheBounded
  <1>1. PICK c \in 0 .. PeriodOf(now) :
           \A k \in DOMAIN cache : k.period <= c /\ c <= k.period + Backtrack
    BY DEF CacheInWindow
  <1> DEFINE Ages == DecRoots \X (0 .. Backtrack)
             place == [k \in DOMAIN cache |-> <<k.root, c - k.period>>]
  <1>0. c \in Nat
    BY PeriodSplit DEF BoxInv, TypeOK
  <1>2. \A k \in DOMAIN cache :
           k \in [root : Roots, period : Nat] /\ k.root \in DecRoots /\ k.period \in Nat
    BY DEF BoxInv, TypeOK, ExpiryInWindow, Keys
  <1>3. \A k \in DOMAIN cache : c - k.period \in 0 .. Backtrack
    BY <1>0, <1>1, <1>2, BacktrackAssumption
  <1>4. place \in [DOMAIN cache -> Ages]
    BY <1>2, <1>3
  <1>5. ASSUME NEW j \in DOMAIN cache, NEW k \in DOMAIN cache, place[j] = place[k]
        PROVE  j = k
    <2>1. j.root = k.root /\ c - j.period = c - k.period
      BY <1>5
    <2>2. j.period = k.period
      BY <1>0, <1>1, <1>2, <2>1
    <2> QED BY <1>2, <2>1, <2>2
  <1>6. place \in Injection(DOMAIN cache, Ages)
    BY <1>4, <1>5 DEF Injection, IsInjective
  <1>7. IsFiniteSet(0 .. Backtrack) /\ Cardinality(0 .. Backtrack) = Backtrack + 1
    BY BacktrackAssumption, FS_Interval
  <1>8. IsFiniteSet(Ages) /\ Cardinality(Ages) = Cardinality(DecRoots) * (Backtrack + 1)
    BY <1>7, DecRootsFinite, FS_Product
  <1> HIDE DEF Ages, place
  <1>9. Cardinality(DOMAIN cache) <= Cardinality(Ages)
    BY <1>6, <1>8, FS_Injection
  <1> QED BY <1>8, <1>9 DEF CacheBounded

(* The cache never holds more than one key for each decryption root and    *)
(* period of the window, however the threads refresh and purge it.         *)
THEOREM CacheStaysSmall == Spec => []CacheBounded
  <1>1. Init => CacheInWindow
    <2>1. Init => DOMAIN cache = {} /\ 0 \in 0 .. PeriodOf(now)
      BY TimeAssumption, PeriodSplit DEF Init
    <2> QED BY <2>1 DEF CacheInWindow
  <1>2. MonotoneInv /\ CacheInWindow => CacheBounded
    BY WindowIsSmall DEF MonotoneInv
  <1>3. MonotoneInv /\ CacheInWindow /\ [Next]_vars => CacheInWindow'
    BY WindowStep
  <1> QED BY <1>1, <1>2, <1>3, InitMonotoneInv, MonotoneInvStep, PTL DEF Spec

----------------------------------------------------------------------------
(* The encryption side *)

(* The cached encryption key is of a period that has begun, and expires    *)
(* with it; before the first encryption it is the zero key, expired at any *)
(* second but the epoch's.                                                 *)
EncryptorInv ==
    /\ now \in Nat /\ now >= StartTime
    /\ \/ encryptor.invalid_after = 0
       \/ \E q \in 0 .. PeriodOf(now) :
             encryptor = [key |-> Key(EncKey, q), invalid_after |-> InvalidAfter(q)]
    /\ SealedUnderCurrentPeriod

(* Every step keeps the encryptor usable for the present period. *)
LEMMA EncryptorStep ==
    ASSUME StartTime > 0, EncryptorInv, [Next]_vars
    PROVE  EncryptorInv'
  <1>0. /\ now \in Nat /\ now >= StartTime /\ PeriodOf(now) \in Nat
        /\ SealedUnderCurrentPeriod
    BY PeriodSplit DEF EncryptorInv
  <1>1. ASSUME UNCHANGED <<now, encryptor, sealed>>
        PROVE  EncryptorInv'
    BY <1>1 DEF EncryptorInv, SealedUnderCurrentPeriod
  <1>2. ASSUME NEW th \in Threads, Encrypt(th)
        PROVE  EncryptorInv'
    <2>1. UNCHANGED now /\ sealed' = <<encryptor'.key, now>>
      BY <1>2 DEF Encrypt
    <2>2. encryptor' = [key |-> Key(EncKey, PeriodOf(now)),
                        invalid_after |-> InvalidAfter(PeriodOf(now))]
      <3>1. CASE now > encryptor.invalid_after
        BY <1>2, <3>1 DEF Encrypt, IsExpired
      <3>2. CASE ~ now > encryptor.invalid_after
        <4>1. encryptor' = encryptor
          BY <1>2, <3>2 DEF Encrypt, IsExpired
        <4>2. encryptor.invalid_after # 0
          BY <1>0, <3>2, TimeAssumption
        <4>3. PICK q \in 0 .. PeriodOf(now) :
                 encryptor = [key |-> Key(EncKey, q), invalid_after |-> InvalidAfter(q)]
          BY <4>2 DEF EncryptorInv
        <4>4. q \in Nat /\ ~ now > InvalidAfter(q)
          BY <1>0, <3>2, <4>3
        <4>5. ~ PeriodOf(now) > q
          BY <1>0, <4>4, ExpiredAfterPeriod
        <4>6. q = PeriodOf(now)
          BY <1>0, <4>3, <4>5
        <4> QED BY <4>1, <4>3, <4>6
      <3> QED BY <3>1, <3>2
    <2>3. sealed'[1] = Key(EncKey, PeriodOf(sealed'[2]))
      BY <2>1, <2>2
    <2>4. PeriodOf(now) \in 0 .. PeriodOf(now)
      BY <1>0
    <2> QED BY <1>0, <2>1, <2>2, <2>3, <2>4
            DEF EncryptorInv, SealedUnderCurrentPeriod
  <1>3. ASSUME Tick
        PROVE  EncryptorInv'
    <2>1. UNCHANGED <<encryptor, sealed>> /\ now' \in Nat /\ now <= now'
      BY <1>0, <1>3, TimeAssumption DEF Tick
    <2>2. PeriodOf(now') \in Nat /\ PeriodOf(now) <= PeriodOf(now')
      BY <1>0, <2>1, PeriodSplit, PeriodMonotone
    <2>3. 0 .. PeriodOf(now) \subseteq 0 .. PeriodOf(now')
      BY <1>0, <2>2
    <2>4. now' >= StartTime
      BY <1>0, <2>1, TimeAssumption
    <2>5. SealedUnderCurrentPeriod'
      BY <1>0, <2>1 DEF SealedUnderCurrentPeriod
    <2> QED BY <2>1, <2>3, <2>4, <2>5 DEF EncryptorInv
  <1> QED BY <1>1, <1>2, <1>3
          DEF Next, Step, vars, CallDecrypt, TryDecrypt, RefreshCache, RefillCache, RefreshPanics,
              DropLock, RetryDecrypt, Return

(* A box created after the first second of the epoch encrypts under the    *)
(* key of the present period, and never under its initial zero key: as     *)
(* long as the clock does not go back, which is what Spec, unlike          *)
(* SkewedSpec, says of it.                                                 *)
THEOREM NeverSealedStale ==
    ASSUME StartTime > 0
    PROVE  Spec => []SealedUnderCurrentPeriod
  <1>1. Init => EncryptorInv
    BY TimeAssumption DEF Init, EncryptorInv, SealedUnderCurrentPeriod
  <1>2. EncryptorInv /\ [Next]_vars => EncryptorInv'
    BY EncryptorStep
  <1>3. EncryptorInv => SealedUnderCurrentPeriod
    BY DEF EncryptorInv
  <1> QED BY <1>1, <1>2, <1>3, PTL DEF Spec

(* Under a clock that may also go back, the cached encryption key is of    *)
(* some period, perhaps one that is yet to come again.                     *)
SkewedEncryptorInv ==
    /\ now \in Nat
    /\ \/ encryptor.invalid_after = 0
       \/ \E q \in Nat : encryptor = [key |-> Key(EncKey, q), invalid_after |-> InvalidAfter(q)]
    /\ NeverSealedUnderEarlier

LEMMA SkewedEncrypt ==
    ASSUME SkewedEncryptorInv, NEW th \in Threads, Encrypt(th)
    PROVE  SkewedEncryptorInv'
  <1>0. now \in Nat /\ PeriodOf(now) \in Nat /\ now' = now /\ sealed' = <<encryptor'.key, now>>
    BY PeriodSplit DEF SkewedEncryptorInv, Encrypt
  <1>1. CASE now > encryptor.invalid_after
    <2>1. encryptor' = [key |-> Key(EncKey, PeriodOf(now)), invalid_after |-> InvalidAfter(PeriodOf(now))]
      BY <1>1 DEF Encrypt, IsExpired
    <2>2. sealed'[1].root = EncKey /\ sealed'[1].period = PeriodOf(now) /\ sealed'[2] = now
      BY <1>0, <2>1 DEF Key
    <2> QED BY <1>0, <2>1, <2>2 DEF SkewedEncryptorInv, NeverSealedUnderEarlier
  <1>2. CASE ~ now > encryptor.invalid_after
    <2>1. encryptor' = encryptor
      BY <1>2 DEF Encrypt, IsExpired
    <2>2. CASE now = 0
      BY <1>0, <2>1, <2>2 DEF SkewedEncryptorInv, NeverSealedUnderEarlier
    <2>3. CASE now > 0
      <3>1. PICK q \in Nat : encryptor = [key |-> Key(EncKey, q), invalid_after |-> InvalidAfter(q)]
        BY <1>0, <1>2, <2>3 DEF SkewedEncryptorInv
      <3>2. ~ PeriodOf(now) > q
        BY <1>0, <1>2, <3>1, ExpiredAfterPeriod
      <3>3. sealed'[1].root = EncKey /\ sealed'[1].period = q /\ sealed'[2] = now
        BY <1>0, <2>1, <3>1 DEF Key
      <3> QED BY <1>0, <2>1, <3>1, <3>2, <3>3 DEF SkewedEncryptorInv, NeverSealedUnderEarlier
    <2> QED BY <1>0, <2>2, <2>3
  <1> QED BY <1>1, <1>2

(* Whatever the clock does, and whenever the box was created: it never     *)
(* encrypts under the key of a period that is over, nor, but at the        *)
(* epoch's own second, under its initial zero key.                         *)
THEOREM NeverSealedBehindTheClock ==
    SkewedSpec => []NeverSealedUnderEarlier
  <1>1. Init => SkewedEncryptorInv
    BY TimeAssumption DEF Init, SkewedEncryptorInv, NeverSealedUnderEarlier
  <1>2. SkewedEncryptorInv /\ [Next \/ StepBack]_vars => SkewedEncryptorInv'
    <2> SUFFICES ASSUME SkewedEncryptorInv, [Next \/ StepBack]_vars PROVE SkewedEncryptorInv'
      OBVIOUS
    <2>1. ASSUME UNCHANGED <<encryptor, sealed>>, now' \in Nat
          PROVE  SkewedEncryptorInv'
      BY <2>1 DEF SkewedEncryptorInv, NeverSealedUnderEarlier
    <2>2. ASSUME Tick \/ StepBack
          PROVE  SkewedEncryptorInv'
      <3>1. UNCHANGED <<encryptor, sealed>> /\ now' \in Nat
        BY <2>2, TimeAssumption DEF Tick, StepBack, SkewedEncryptorInv
      <3> QED BY <2>1, <3>1
    <2>3. ASSUME UNCHANGED <<now, encryptor, sealed>>
          PROVE  SkewedEncryptorInv'
      BY <2>1, <2>3 DEF SkewedEncryptorInv
    <2> QED BY <2>2, <2>3, SkewedEncrypt
            DEF Next, Step, vars, CallDecrypt, TryDecrypt, RefreshCache, RefillCache, RefreshPanics,
                DropLock, RetryDecrypt, Return
  <1>3. SkewedEncryptorInv => NeverSealedUnderEarlier
    BY DEF SkewedEncryptorInv
  <1> QED BY <1>1, <1>2, <1>3, PTL DEF SkewedSpec

----------------------------------------------------------------------------
(* The boxes that a service derives *)

(* Null is no text, no ciphertext and no key, and no word or number that a *)
(* text begins with.                                                       *)
NullIsNoValue ==
    /\ Null \notin {"static", "shared", 2, 3}
    /\ \A id, nonce, c : StaticText(id, nonce, c) # Null
    /\ \A public, text : SharedText(public, text) # Null
    /\ \A key, nonce, aad, body : Aead(key, nonce, aad, body) # Null
    /\ \A key : KeyId(key) # Null
    /\ \A person : Public(person) # Null

Prefixes == [stem |-> "derive_stem", static |-> "derive", rotating |-> "derive_stem", period |-> "rotation"]
Kinds == {"stem", "static", "rotating", "period"}
Places == Seq(Kinds \X (Purposes \cup Numbers))
Labels == {"derive_stem", "derive", "rotation"} \X (Purposes \cup Numbers)

Label(step) == <<Prefixes[step[1]], step[2]>>

(* The key of a root for a place of the tree                               *)
LabelsOf(place) == [i \in 1 .. Len(place) |-> Label(place[i])]
KeyOf(root, place) == [root |-> root, path |-> LabelsOf(place)]
KeysOf(roots, place) == {KeyOf(r, place) : r \in roots}

(* A rotating box and a stem are derived alike: it is the period after the *)
(* one that tells their keys apart.                                        *)
OfStem(place) == place \in Places /\ \A i \in 1 .. Len(place) : place[i][1] = "stem"
OfBox(place) ==
    /\ place \in Places
    /\ \A i \in 1 .. Len(place) :
          place[i][1] = "rotating" <=> i + 1 \in 1 .. Len(place) /\ place[i + 1][1] = "period"

LEMMA LabelsAreLabels ==
    ASSUME NEW place \in Places
    PROVE  LabelsOf(place) \in Seq(Labels) /\ Len(LabelsOf(place)) = Len(place)
<1>1. Len(place) \in Nat /\ \A i \in 1 .. Len(place) : place[i] \in Kinds \X (Purposes \cup Numbers)
    BY LenProperties, ElementOfSeq DEF Places
<1>2. \A i \in 1 .. Len(place) : Label(place[i]) \in Labels
    BY <1>1 DEF Label, Labels, Prefixes, Kinds
<1>3. LabelsOf(place) \in [1 .. Len(place) -> Labels]
    BY <1>2 DEF LabelsOf
<1>4. QED BY <1>1, <1>3, LenProperties, SeqDef

LEMMA LabelsOfChild ==
    ASSUME NEW place \in Places, NEW step \in Kinds \X (Purposes \cup Numbers)
    PROVE  /\ Append(place, step) \in Places
           /\ Append(LabelsOf(place), Label(step)) = LabelsOf(Append(place, step))
<1>1. /\ Append(place, step) \in Places /\ Len(Append(place, step)) = Len(place) + 1
      /\ \A i \in 1 .. Len(place) : Append(place, step)[i] = place[i]
      /\ Append(place, step)[Len(place) + 1] = step
    BY AppendProperties DEF Places
<1>2. Label(step) \in Labels BY DEF Label, Labels, Prefixes, Kinds
<1>3. LabelsOf(place) \in Seq(Labels) /\ Len(LabelsOf(place)) = Len(place) /\ Len(place) \in Nat
    BY LabelsAreLabels, LenProperties DEF Places
<1> DEFINE longer == Append(LabelsOf(place), Label(step))
<1>4. /\ longer \in Seq(Labels) /\ Len(longer) = Len(place) + 1
      /\ \A i \in 1 .. Len(place) : longer[i] = LabelsOf(place)[i]
      /\ longer[Len(place) + 1] = Label(step)
    BY <1>2, <1>3, AppendProperties
<1> HIDE DEF longer
<1>5. LabelsOf(Append(place, step)) \in Seq(Labels) /\ Len(LabelsOf(Append(place, step))) = Len(place) + 1
    BY <1>1, LabelsAreLabels
<1>6. \A i \in 1 .. Len(place) + 1 : longer[i] = LabelsOf(Append(place, step))[i]
    <2>1. \A i \in 1 .. Len(place) + 1 : i \in 1 .. Len(place) \/ i = Len(place) + 1 BY <1>3
    <2>2. \A i \in 1 .. Len(place) + 1 : LabelsOf(Append(place, step))[i] = Label(Append(place, step)[i])
        BY <1>1 DEF LabelsOf
    <2>3. \A i \in 1 .. Len(place) : LabelsOf(place)[i] = Label(place[i]) BY DEF LabelsOf
    <2>4. QED BY <1>1, <1>4, <2>1, <2>2, <2>3
<1>7. longer = LabelsOf(Append(place, step)) BY <1>4, <1>5, <1>6, SeqEqual
<1>8. QED BY <1>1, <1>7 DEF longer

(* Derivation goes down the tree.                                          *)
LEMMA KeyOfChild ==
    ASSUME NEW root, NEW place \in Places, NEW step \in Kinds \X (Purposes \cup Numbers)
    PROVE  DeriveKey(KeyOf(root, place), Label(step)) = KeyOf(root, Append(place, step))
<1>1. Append(LabelsOf(place), Label(step)) = LabelsOf(Append(place, step)) BY LabelsOfChild
<1>2. KeyOf(root, place).root = root /\ KeyOf(root, place).path = LabelsOf(place) BY DEF KeyOf
<1>3. DeriveKey(KeyOf(root, place), Label(step)) = [root |-> root, path |-> LabelsOf(Append(place, step))]
    BY <1>1, <1>2 DEF DeriveKey
<1>4. QED BY <1>3 DEF KeyOf

LEMMA KeysOfChild ==
    ASSUME NEW roots, NEW place \in Places, NEW step \in Kinds \X (Purposes \cup Numbers)
    PROVE  Children(KeysOf(roots, place), Label(step)) = KeysOf(roots, Append(place, step))
<1>1. \A r : DeriveKey(KeyOf(r, place), Label(step)) = KeyOf(r, Append(place, step)) BY KeyOfChild
<1>2. QED BY <1>1 DEF Children, KeysOf

(* Keys of boxes agree only if their roots and places do.                  *)
LEMMA KeyOfOnePlace ==
    ASSUME NEW r, NEW s, NEW p, NEW q, OfBox(p), OfBox(q), KeyOf(r, p) = KeyOf(s, q)
    PROVE  r = s /\ p = q
<1>1. r = s /\ LabelsOf(p) = LabelsOf(q)
    <2>1. KeyOf(r, p).root = KeyOf(s, q).root /\ KeyOf(r, p).path = KeyOf(s, q).path OBVIOUS
    <2>2. QED BY <2>1 DEF KeyOf
<1>2. Len(p) = Len(q) /\ Len(p) \in Nat
    BY <1>1, LabelsAreLabels, LenProperties DEF OfBox, Places
<1>3. \A i \in 1 .. Len(p) : p[i] \in Kinds \X (Purposes \cup Numbers) /\ q[i] \in Kinds \X (Purposes \cup Numbers)
    BY <1>2, ElementOfSeq DEF OfBox, Places
<1>4. \A i \in 1 .. Len(p) : Prefixes[p[i][1]] = Prefixes[q[i][1]] /\ p[i][2] = q[i][2]
    <2> SUFFICES ASSUME NEW i \in 1 .. Len(p) PROVE Prefixes[p[i][1]] = Prefixes[q[i][1]] /\ p[i][2] = q[i][2]
        OBVIOUS
    <2>1. LabelsOf(p)[i] = Label(p[i]) /\ LabelsOf(q)[i] = Label(q[i]) BY <1>2 DEF LabelsOf
    <2>2. Label(p[i]) = Label(q[i]) BY <1>1, <2>1
    <2>3. QED BY <2>2 DEF Label
<1>5. \A i \in 1 .. Len(p) : p[i][1] = "period" <=> q[i][1] = "period"
    BY <1>3, <1>4 DEF Prefixes, Kinds
<1>6. \A i \in 1 .. Len(p) : p[i][1] = "rotating" <=> q[i][1] = "rotating"
    BY <1>2, <1>5 DEF OfBox
<1>7. \A i \in 1 .. Len(p) : p[i][1] = q[i][1]
    BY <1>3, <1>4, <1>6 DEF Prefixes, Kinds
<1>8. \A i \in 1 .. Len(p) : p[i] = q[i] BY <1>3, <1>4, <1>7
<1>9. p = q BY <1>2, <1>8, SeqEqual DEF OfBox, Places
<1>10. QED BY <1>1, <1>9


----------------------------------------------------------------------------
(* What a static box opens *)

LEMMA KeyIdOfOneKey ==
    ASSUME NEW r, NEW s, NEW p, NEW q, OfBox(p), OfBox(q), KeyId(KeyOf(r, p)) = KeyId(KeyOf(s, q))
    PROVE  r = s /\ p = q
<1> DEFINE all == Labels \cup {<<"key_id">>}
<1>1. KeyId(KeyOf(r, p)).root = r /\ KeyId(KeyOf(r, p)).path = Append(LabelsOf(p), <<"key_id">>)
    BY DEF KeyId, DeriveKey, KeyOf
<1>2. KeyId(KeyOf(s, q)).root = s /\ KeyId(KeyOf(s, q)).path = Append(LabelsOf(q), <<"key_id">>)
    BY DEF KeyId, DeriveKey, KeyOf
<1>3. LabelsOf(p) \in Seq(all) /\ LabelsOf(q) \in Seq(all)
    BY LabelsAreLabels, SeqMonotonic DEF OfBox
<1>4. LabelsOf(p) = LabelsOf(q) /\ r = s BY <1>1, <1>2, <1>3, AppendInjective
<1>5. KeyOf(r, p) = KeyOf(s, q) BY <1>4 DEF KeyOf
<1>6. QED BY <1>5, KeyOfOnePlace

(* A box opens what was encrypted with one of its decryption keys, and in  *)
(* the context it was encrypted in.                                        *)
LEMMA StaticOpens ==
    ASSUME NullIsNoValue,
           NEW root, NEW place, OfBox(place), NEW roots, NEW other, OfBox(other),
           NEW nonce, nonce # Null, NEW ctx, NEW given, NEW body
    PROVE  DecryptStatic(ById(KeysOf(roots, other)), given, EncryptStatic(KeyOf(root, place), nonce, ctx, body)) =
              IF other = place /\ root \in roots /\ given = ctx THEN body ELSE Null
<1> DEFINE key == KeyOf(root, place)
           keys == KeysOf(roots, other)
           id == KeyId(key)
           cipher == Aead(key, nonce, Additional(ctx, id, nonce), body)
           text == StaticText(id, nonce, cipher)
<1>1. /\ DecodesAsStatic(text) /\ text.id = id /\ text.nonce = nonce /\ text.body = cipher
    BY DEF NullIsNoValue, DecodesAsStatic, DecodesKeyId, StaticText
<1>2. /\ cipher # Null /\ cipher.key = key /\ cipher.nonce = nonce
      /\ cipher.aad = Additional(ctx, id, nonce) /\ cipher.body = body
    BY DEF NullIsNoValue, Aead
<1>3. EncryptStatic(key, nonce, ctx, body) = text BY DEF EncryptStatic
<1>4. DOMAIN ById(keys) = {KeyId(k) : k \in keys} BY DEF ById
<1>5. id \in DOMAIN ById(keys) <=> other = place /\ root \in roots
    <2>1. id \in DOMAIN ById(keys) <=> \E r \in roots : id = KeyId(KeyOf(r, other))
        BY <1>4 DEF KeysOf
    <2>2. QED BY <2>1, KeyIdOfOneKey
<1>6. CASE other = place /\ root \in roots
    <2>1. key \in keys BY <1>6 DEF KeysOf
    <2>2. \A k \in keys : KeyId(k) = id => k = key
        <3>1. SUFFICES ASSUME NEW r \in roots, KeyId(KeyOf(r, other)) = id PROVE KeyOf(r, other) = key
            BY DEF KeysOf
        <3>2. r = root BY <3>1, KeyIdOfOneKey
        <3>3. QED BY <1>6, <3>2
    <2> HIDE DEF key, keys, id, cipher, text
    <2>3. ById(keys)[id] = CHOOSE k \in keys : KeyId(k) = id BY <1>5, <1>4, <1>6 DEF ById
    <2>4. ById(keys)[id] = key BY <2>1, <2>2, <2>3 DEF id
    <2>5. (Additional(ctx, id, nonce) = Additional(given, id, nonce)) <=> (given = ctx) BY DEF Additional
    <2>6. DecryptStatic(ById(keys), given, text) = IF given = ctx THEN body ELSE Null
        BY <1>1, <1>2, <1>5, <1>6, <2>4, <2>5 DEF DecryptStatic, OpenAead
    <2>7. QED BY <1>3, <1>6, <2>6 DEF key, keys
<1>7. CASE ~(other = place /\ root \in roots)
    <2> HIDE DEF key, keys, id, cipher, text
    <2>1. DecryptStatic(ById(keys), given, text) = Null BY <1>1, <1>5, <1>7 DEF DecryptStatic
    <2>2. QED BY <1>3, <1>7, <2>1 DEF key, keys
<1>8. QED BY <1>6, <1>7


----------------------------------------------------------------------------
(* The invariant of the boxes *)

StemFields == {"place", "writes", "reads", "enc", "decs"}
StoredFields == {"text", "place", "root", "context", "body", "damaged"}
TextFields == {"magic", "items", "id", "nonce", "body"}
SharedFields == {"magic", "items", "public", "body"}

StemMade(s) ==
    /\ DOMAIN s = StemFields /\ OfStem(s.place)
    /\ s.enc = KeyOf(s.writes, s.place) /\ s.decs = KeysOf(s.reads, s.place)

StaticMade(b) ==
    /\ b.kind = "static" /\ OfBox(b.place)
    /\ b.enc = KeyOf(b.writes, b.place) /\ b.keys = ById(KeysOf(b.reads, b.place))

SharedPlace(person) == <<<<"shared", person>>>>

SharedMade(b) ==
    /\ b.kind = "shared" /\ b.writes \in People \cup {Null} /\ b.place = SharedPlace(b.writes)
    /\ b.key.public = Public(b.writes)
    /\ \/ b.writes \in People /\ b.reads = {b.writes} /\ b.key.private = b.writes
       \/ b.reads = {} /\ b.key.private = Null

WrittenStatic(t) ==
    /\ OfBox(t.place)
    /\ \E nonce \in Nonces : t.text = EncryptStatic(KeyOf(t.root, t.place), nonce, t.context, t.body)

WrittenShared(t) ==
    /\ t.root \in People /\ t.place = SharedPlace(t.root)
    /\ \E e \in Ephemerals, nonce \in Nonces :
          t.text = SharedText(Public(e),
                       EncryptStatic(BoxKey(e, Public(t.root)), nonce, <<t.context, Public(e)>>, t.body))

(* A part of the text is gone, and it never passes for one of another box. *)
Torn(text) ==
    \/ DOMAIN text = TextFields /\ text.magic # "shared" /\ \E part \in TextFields : text[part] = Null
    \/ DOMAIN text = SharedFields /\ text.magic # "static" /\ \E part \in SharedFields : text[part] = Null

Stored(t) ==
    /\ DOMAIN t = StoredFields /\ t.damaged \in BOOLEAN
    /\ IF t.damaged THEN Torn(t.text) ELSE WrittenStatic(t) \/ WrittenShared(t)

BoxesInv ==
    /\ \A s \in stems : StemMade(s)
    /\ \A b \in boxes : StaticMade(b) \/ SharedMade(b)
    /\ \A t \in texts : Stored(t)

LEMMA TornNeverOpens ==
    ASSUME NullIsNoValue, NEW text, Torn(text), NEW box, NEW ctx
    PROVE  Opened(box, ctx, text) = Null
<1>1. \A keys, given : DecryptStatic(keys, given, Null) = Null BY DEF DecryptStatic, DecodesAsStatic, DecodesKeyId
<1>2. CASE DOMAIN text = TextFields /\ text.magic # "shared" /\ \E part \in TextFields : text[part] = Null
    <2>1. ASSUME NEW keys PROVE DecryptStatic(keys, ctx, text) = Null
        <3>1. text.body = Null \/ ~DecodesAsStatic(text)
            BY <1>2 DEF DecodesAsStatic, DecodesKeyId, TextFields, NullIsNoValue
        <3>2. QED BY <3>1 DEF DecryptStatic, OpenAead
    <2>2. QED BY <1>2, <2>1 DEF Opened, DecryptShared, DecodesAsShared
<1>3. CASE DOMAIN text = SharedFields /\ text.magic # "static" /\ \E part \in SharedFields : text[part] = Null
    <2>1. ~DecodesAsStatic(text) BY <1>3 DEF DecodesAsStatic, DecodesKeyId
    <2>2. text.body = Null \/ ~DecodesAsShared(text)
        BY <1>3 DEF DecodesAsShared, SharedFields, NullIsNoValue
    <2>3. QED BY <1>1, <2>1, <2>2 DEF Opened, DecryptStatic, DecryptShared
<1>4. QED BY <1>2, <1>3 DEF Torn

LEMMA RootIsAPlace ==
    /\ OfStem(<<>>) /\ OfBox(<<>>)
    /\ \A r : RootKey(r) = KeyOf(r, <<>>)
<1>1. <<>> \in Places /\ Len(<<>>) = 0 BY EmptySeq DEF Places
<1>2. LabelsOf(<<>>) = <<>> BY <1>1 DEF LabelsOf
<1>3. OfStem(<<>>) /\ OfBox(<<>>) BY <1>1 DEF OfStem, OfBox
<1>4. QED BY <1>2, <1>3 DEF RootKey, KeyOf

LEMMA SharedIsElsewhere ==
    ASSUME NEW place, OfBox(place), NEW person
    PROVE  place # SharedPlace(person)
<1>1. SUFFICES ASSUME place = SharedPlace(person) PROVE FALSE OBVIOUS
<1>2. Len(place) = 1 /\ place[1] = <<"shared", person>> BY <1>1 DEF SharedPlace
<1>3. place[1] \in Kinds \X (Purposes \cup Numbers) BY <1>2, ElementOfSeq DEF OfBox, Places
<1>4. QED BY <1>2, <1>3 DEF Kinds

(* Both sides agree on the key, and nobody else does.                      *)
LEMMA SharedOpens ==
    ASSUME NullIsNoValue, NEW person \in People, NEW e \in Ephemerals, NEW nonce \in Nonces,
           NEW key, NEW other \in People \cup {Null}, key.public = Public(other),
           key.private = Null \/ key.private = other,
           NEW ctx, NEW given, NEW body
    PROVE  DecryptShared(key, given,
               SharedText(Public(e), EncryptStatic(BoxKey(e, Public(person)), nonce, <<ctx, Public(e)>>, body))) =
              IF key.private = person /\ given = ctx THEN body ELSE Null
<1> DEFINE inner == EncryptStatic(BoxKey(e, Public(person)), nonce, <<ctx, Public(e)>>, body)
           text == SharedText(Public(e), inner)
           agreed == BoxKey(key.private, Public(e))
<1>1. text.public = Public(e) /\ text.body = inner /\ DecodesAsShared(text) /\ Contributes(text.public)
    <2>1. text.public = Public(e) /\ text.body = inner /\ text.magic = "shared" /\ text.items = 2
        BY DEF SharedText
    <2>2. Public(e) # Null /\ Public(e) # LowOrder /\ text # Null
        BY NullAssumption DEF NullIsNoValue, LowOrder, Public
    <2> HIDE DEF text
    <2>3. QED BY <2>1, <2>2 DEF DecodesAsShared, Contributes
<1>2. person # Null /\ nonce # Null BY NullAssumption
<1>3. DecryptShared(key, given, text) =
          IF key.private # Null THEN DecryptStatic(ById({agreed}), <<given, Public(e)>>, inner) ELSE Null
    <2> HIDE DEF text, inner
    <2>1. QED BY <1>1 DEF DecryptShared
<1>4. ({Public(key.private), Public(e)} = {Public(e), Public(person)}) <=> key.private = person
    <2>1. \A x, y : Public(x) = Public(y) <=> x = y BY DEF Public
    <2>2. \A x, y, z : {x, y} = {y, z} => x = z
        <3>1. SUFFICES ASSUME NEW x, NEW y, NEW z, {x, y} = {y, z} PROVE x = z OBVIOUS
        <3>2. x \in {y, z} /\ z \in {x, y} BY <3>1
        <3>3. QED BY <3>2
    <2>3. \A x, y : {x, y} = {y, x} OBVIOUS
    <2>4. QED BY <2>1, <2>2, <2>3, Zenon
<1>5. DecryptStatic(ById({agreed}), <<given, Public(e)>>, inner) =
          IF key.private = person /\ given = ctx THEN body ELSE Null
    <2> DEFINE root == {Public(e), Public(person)}
               mine == {Public(key.private), Public(e)}
    <2>1. {agreed} = KeysOf({mine}, <<>>) /\ BoxKey(e, Public(person)) = KeyOf(root, <<>>)
        BY RootIsAPlace DEF BoxKey, KeysOf
    <2> HIDE DEF root, mine, agreed
    <2>2. DecryptStatic(ById(KeysOf({mine}, <<>>)), <<given, Public(e)>>,
                        EncryptStatic(KeyOf(root, <<>>), nonce, <<ctx, Public(e)>>, body)) =
            IF <<>> = <<>> /\ root \in {mine} /\ <<given, Public(e)>> = <<ctx, Public(e)>> THEN body ELSE Null
        BY <1>2, RootIsAPlace, StaticOpens
    <2>3. (root \in {mine} <=> key.private = person)
          /\ (<<given, Public(e)>> = <<ctx, Public(e)>> <=> given = ctx)
        BY <1>4 DEF root, mine
    <2>4. QED BY <2>1, <2>2, <2>3
<1>6. QED BY <1>2, <1>3, <1>5

LEMMA InvOpens ==
    ASSUME NullIsNoValue, BoxesInv
    PROVE  OpensWhereMeant
<1> SUFFICES ASSUME NEW box \in boxes, NEW t \in texts, NEW ctx \in Contexts
             PROVE  Opened(box, ctx, t.text) =
                       IF /\ box.place = t.place /\ t.root \in box.reads
                          /\ ctx = t.context /\ ~t.damaged
                       THEN t.body ELSE Null
    BY DEF OpensWhereMeant
<1>1. Stored(t) /\ (StaticMade(box) \/ SharedMade(box)) BY DEF BoxesInv
<1>2. CASE t.damaged
    BY <1>1, <1>2, TornNeverOpens DEF Stored
<1>3. CASE ~t.damaged /\ WrittenStatic(t)
    <2>1. PICK nonce \in Nonces : t.text = EncryptStatic(KeyOf(t.root, t.place), nonce, t.context, t.body)
        BY <1>3 DEF WrittenStatic
    <2>2. OfBox(t.place) /\ nonce # Null BY <1>3, NullAssumption DEF WrittenStatic
    <2>3. CASE StaticMade(box)
        <3>1. Opened(box, ctx, t.text) = DecryptStatic(ById(KeysOf(box.reads, box.place)), ctx, t.text)
            BY <2>3 DEF StaticMade, Opened
        <3>2. OfBox(box.place) BY <2>3 DEF StaticMade
        <3>3. DecryptStatic(ById(KeysOf(box.reads, box.place)), ctx, t.text) =
                IF box.place = t.place /\ t.root \in box.reads /\ ctx = t.context THEN t.body ELSE Null
            BY <2>1, <2>2, <3>2, StaticOpens
        <3>4. QED BY <1>3, <3>1, <3>3
    <2>4. CASE SharedMade(box)
        <3>1. t.text.magic = "static" BY <2>1 DEF EncryptStatic, StaticText
        <3>2. Opened(box, ctx, t.text) = Null
            BY <2>4, <3>1 DEF SharedMade, Opened, DecryptShared, DecodesAsShared
        <3>3. box.place # t.place BY <2>2, <2>4, SharedIsElsewhere DEF SharedMade
        <3>4. QED BY <3>2, <3>3
    <2>5. QED BY <1>1, <2>3, <2>4
<1>4. CASE ~t.damaged /\ WrittenShared(t)
    <2>1. PICK e \in Ephemerals, nonce \in Nonces :
             t.text = SharedText(Public(e),
                          EncryptStatic(BoxKey(e, Public(t.root)), nonce, <<t.context, Public(e)>>, t.body))
        BY <1>4 DEF WrittenShared
    <2>2. t.root \in People /\ t.place = SharedPlace(t.root) /\ t.root # Null
        BY <1>4, NullAssumption DEF WrittenShared
    <2>3. CASE StaticMade(box)
        <3>1. t.text.magic = "shared" BY <2>1 DEF SharedText
        <3>2. Opened(box, ctx, t.text) = Null
            BY <2>3, <3>1 DEF StaticMade, Opened, DecryptStatic, DecodesAsStatic, DecodesKeyId
        <3>3. box.place # t.place BY <2>2, <2>3, SharedIsElsewhere DEF StaticMade
        <3>4. QED BY <3>2, <3>3
    <2>4. CASE SharedMade(box)
        <3>1. Opened(box, ctx, t.text) = DecryptShared(box.key, ctx, t.text)
            BY <2>4 DEF SharedMade, Opened
        <3>2. /\ box.writes \in People \cup {Null} /\ box.key.public = Public(box.writes)
              /\ box.key.private = Null \/ box.key.private = box.writes
            BY <2>4 DEF SharedMade
        <3>3. DecryptShared(box.key, ctx, t.text) =
                IF box.key.private = t.root /\ ctx = t.context THEN t.body ELSE Null
            BY <2>1, <2>2, <3>2, SharedOpens
        <3>4. box.key.private = t.root <=> box.place = t.place /\ t.root \in box.reads
            BY <2>2, <2>4 DEF SharedMade, SharedPlace
        <3>5. QED BY <1>4, <3>1, <3>3, <3>4
    <2>5. QED BY <1>1, <2>3, <2>4
<1>5. QED BY <1>1, <1>2, <1>3, <1>4 DEF Stored


(* A child of a stem is a place of the tree again.                         *)
LEMMA StemOfStem ==
    ASSUME NEW place, OfStem(place), NEW step \in Kinds \X (Purposes \cup Numbers), step[1] = "stem"
    PROVE  OfStem(Append(place, step))
<1>1. /\ Append(place, step) \in Places /\ Len(Append(place, step)) = Len(place) + 1 /\ Len(place) \in Nat
      /\ \A i \in 1 .. Len(place) : Append(place, step)[i] = place[i]
      /\ Append(place, step)[Len(place) + 1] = step
    BY AppendProperties, LenProperties DEF OfStem, Places
<1>2. \A i \in 1 .. Len(place) + 1 : i \in 1 .. Len(place) \/ i = Len(place) + 1 BY <1>1
<1>3. QED BY <1>1, <1>2 DEF OfStem

LEMMA StaticOfStem ==
    ASSUME NEW place, OfStem(place), NEW purpose \in Purposes
    PROVE  OfBox(Append(place, <<"static", purpose>>))
<1> DEFINE a == Append(place, <<"static", purpose>>)
           l == Len(place)
<1>1. <<"static", purpose>> \in Kinds \X (Purposes \cup Numbers) BY DEF Kinds
<1>2. place \in Places /\ l \in Nat /\ \A i \in 1 .. l : place[i][1] = "stem"
    BY LenProperties DEF OfStem, Places
<1>3. /\ a \in Places /\ Len(a) = l + 1 /\ a[l + 1] = <<"static", purpose>>
      /\ \A i \in 1 .. l : a[i] = place[i]
    BY <1>1, <1>2, AppendProperties DEF Places
<1> HIDE DEF a, l
<1>4. \A i \in 1 .. l + 1 : i \in 1 .. l \/ i = l + 1 BY <1>2
<1>5. \A i \in 1 .. l + 1 : a[i][1] # "rotating" /\ a[i][1] # "period" BY <1>2, <1>3, <1>4
<1>6. OfBox(a) BY <1>3, <1>5 DEF OfBox
<1>7. QED BY <1>6 DEF a

LEMMA PeriodOfStem ==
    ASSUME NEW place, OfStem(place), NEW purpose \in Purposes, NEW n \in Numbers
    PROVE  /\ Append(place, <<"rotating", purpose>>) \in Places
           /\ OfBox(Append(Append(place, <<"rotating", purpose>>), <<"period", n>>))
<1> DEFINE b == Append(place, <<"rotating", purpose>>)
           c == Append(b, <<"period", n>>)
           l == Len(place)
<1>1. /\ <<"rotating", purpose>> \in Kinds \X (Purposes \cup Numbers)
      /\ <<"period", n>> \in Kinds \X (Purposes \cup Numbers)
    BY DEF Kinds
<1>2. place \in Places /\ l \in Nat /\ \A i \in 1 .. l : place[i][1] = "stem"
    BY LenProperties DEF OfStem, Places
<1>3. /\ b \in Places /\ Len(b) = l + 1 /\ b[l + 1] = <<"rotating", purpose>>
      /\ \A i \in 1 .. l : b[i] = place[i]
    BY <1>1, <1>2, AppendProperties DEF Places
<1> HIDE DEF b, l
<1>4. /\ c \in Places /\ Len(c) = l + 2 /\ c[l + 2] = <<"period", n>>
      /\ \A i \in 1 .. l + 1 : c[i] = b[i]
    <2>1. /\ c \in Places /\ Len(c) = Len(b) + 1 /\ c[Len(b) + 1] = <<"period", n>>
          /\ \A i \in 1 .. Len(b) : c[i] = b[i]
        BY <1>1, <1>3, AppendProperties DEF Places
    <2> HIDE DEF c
    <2>2. Len(b) + 1 = l + 2 BY <1>2, <1>3
    <2>3. QED BY <1>3, <2>1, <2>2
<1> HIDE DEF c
<1>5. \A i \in 1 .. l + 2 : i \in 1 .. l \/ i = l + 1 \/ i = l + 2 BY <1>2
<1>6. \A i \in 1 .. l : c[i][1] = "stem"
    <2>1. \A i \in 1 .. l : i \in 1 .. l + 1 BY <1>2
    <2>2. QED BY <1>2, <1>3, <1>4, <2>1
<1>7. c[l + 1][1] = "rotating" /\ c[l + 2][1] = "period" BY <1>2, <1>3, <1>4
<1>8. \A i \in 1 .. l + 2 : /\ c[i][1] = "rotating" <=> i = l + 1
                            /\ c[i][1] = "period" <=> i = l + 2
    <2>1. \A i \in 1 .. l : i # l + 1 /\ i # l + 2 BY <1>2
    <2>2. QED BY <1>5, <1>6, <1>7, <2>1
<1>9. \A i \in 1 .. l + 2 : (i = l + 1) <=> (i + 1 \in 1 .. l + 2 /\ i + 1 = l + 2) BY <1>2
<1>10. OfBox(c) BY <1>2, <1>4, <1>8, <1>9 DEF OfBox
<1>11. QED BY <1>3, <1>10 DEF b, c

LEMMA StemsStayMade ==
    ASSUME BoxesInv, BoxesNext
    PROVE  \A s \in stems' : StemMade(s)
<1>1. CASE NewStem
    <2>1. PICK enc \in RootKeys, decs \in SUBSET RootKeys :
             stems' = stems \cup {[place |-> <<>>, writes |-> enc, reads |-> decs,
                                   enc |-> RootKey(enc), decs |-> {RootKey(r) : r \in decs}]}
        BY <1>1 DEF NewStem
    <2> DEFINE s == [place |-> <<>>, writes |-> enc, reads |-> decs,
                     enc |-> RootKey(enc), decs |-> {RootKey(r) : r \in decs}]
    <2>2. s.enc = KeyOf(enc, <<>>) /\ s.decs = KeysOf(decs, <<>>) BY RootIsAPlace DEF KeysOf
    <2>3. DOMAIN s = StemFields /\ s.place = <<>> /\ s.writes = enc /\ s.reads = decs BY DEF StemFields
    <2> HIDE DEF s
    <2>4. StemMade(s) BY <2>2, <2>3, RootIsAPlace DEF StemMade
    <2>5. QED BY <2>1, <2>4 DEF BoxesInv, s
<1>2. ASSUME NEW stem \in stems, NEW purpose \in Purposes, DeriveStem(stem, purpose)
      PROVE  \A s \in stems' : StemMade(s)
    <2> DEFINE step == <<"stem", purpose>>
               s == [stem EXCEPT !.place = Append(@, <<"stem", purpose>>),
                                 !.enc = DeriveKey(@, <<"derive_stem", purpose>>),
                                 !.decs = Children(@, <<"derive_stem", purpose>>)]
    <2>1. StemMade(stem) BY DEF BoxesInv
    <2>2. step \in Kinds \X (Purposes \cup Numbers) /\ Label(step) = <<"derive_stem", purpose>> /\ step[1] = "stem"
        BY DEF Kinds, Label, Prefixes
    <2>3. /\ DOMAIN s = StemFields /\ s.writes = stem.writes /\ s.reads = stem.reads
          /\ s.place = Append(stem.place, step)
          /\ s.enc = DeriveKey(stem.enc, Label(step)) /\ s.decs = Children(stem.decs, Label(step))
        BY <2>1, <2>2 DEF StemMade, StemFields
    <2> HIDE DEF s, step
    <2>4. stem.place \in Places BY <2>1 DEF StemMade, OfStem
    <2>5. s.enc = KeyOf(s.writes, s.place) /\ s.decs = KeysOf(s.reads, s.place)
        BY <2>1, <2>2, <2>3, <2>4, KeyOfChild, KeysOfChild DEF StemMade
    <2>6. OfStem(s.place) BY <2>1, <2>2, <2>3, StemOfStem DEF StemMade
    <2>7. StemMade(s) BY <2>3, <2>5, <2>6 DEF StemMade
    <2>8. stems' = stems \cup {s} BY <1>2 DEF DeriveStem, s
    <2>9. QED BY <2>7, <2>8 DEF BoxesInv
<1>3. CASE UNCHANGED stems BY <1>3 DEF BoxesInv
<1>4. QED
    BY <1>1, <1>2, <1>3
    DEF BoxesNext, NewStatic, NewShared, DeriveStatic, DeriveRotating, AddBox, EncryptWith, DropBox, Damage

LEMMA BoxesStayMade ==
    ASSUME BoxesInv, BoxesNext
    PROVE  \A b \in boxes' : StaticMade(b) \/ SharedMade(b)
<1>1. ASSUME NEW box, AddBox(box), StaticMade(box) \/ SharedMade(box)
      PROVE  \A b \in boxes' : StaticMade(b) \/ SharedMade(b)
    BY <1>1 DEF AddBox, BoxesInv
<1>2. ASSUME NEW place, OfBox(place), NEW writes, NEW reads, NEW enc, NEW decs,
             enc = KeyOf(writes, place), decs = KeysOf(reads, place)
      PROVE  StaticMade(StaticBox(place, writes, reads, enc, decs))
    BY <1>2 DEF StaticMade, StaticBox
<1>3. CASE NewStatic
    <2>1. PICK enc \in RootKeys, decs \in SUBSET RootKeys :
             AddBox(StaticBox(<<>>, enc, decs, RootKey(enc), {RootKey(r) : r \in decs}))
        BY <1>3 DEF NewStatic
    <2>2. RootKey(enc) = KeyOf(enc, <<>>) /\ {RootKey(r) : r \in decs} = KeysOf(decs, <<>>)
        BY RootIsAPlace DEF KeysOf
    <2>3. QED BY <1>1, <1>2, <2>1, <2>2, RootIsAPlace
<1>4. ASSUME NEW stem \in stems, NEW purpose \in Purposes, DeriveStatic(stem, purpose)
      PROVE  \A b \in boxes' : StaticMade(b) \/ SharedMade(b)
    <2> DEFINE step == <<"static", purpose>>
    <2>1. StemMade(stem) /\ stem.place \in Places BY DEF BoxesInv, StemMade, OfStem
    <2>2. step \in Kinds \X (Purposes \cup Numbers) /\ Label(step) = <<"derive", purpose>>
        BY DEF Kinds, Label, Prefixes
    <2>3. /\ DeriveKey(stem.enc, <<"derive", purpose>>) = KeyOf(stem.writes, Append(stem.place, step))
          /\ Children(stem.decs, <<"derive", purpose>>) = KeysOf(stem.reads, Append(stem.place, step))
        <3> HIDE DEF step
        <3>1. QED BY <2>1, <2>2, KeyOfChild, KeysOfChild DEF StemMade
    <2>4. OfBox(Append(stem.place, step))
        <3>1. QED BY <2>1, StaticOfStem DEF StemMade
    <2>5. QED BY <1>1, <1>2, <1>4, <2>3, <2>4 DEF DeriveStatic
<1>5. ASSUME NEW stem \in stems, NEW purpose \in Purposes, NEW n \in Numbers, DeriveRotating(stem, purpose, n)
      PROVE  \A b \in boxes' : StaticMade(b) \/ SharedMade(b)
    <2> DEFINE step == <<"rotating", purpose>>
               last == <<"period", n>>
               mid == Append(stem.place, step)
               place == Append(mid, last)
    <2>1. StemMade(stem) /\ stem.place \in Places BY DEF BoxesInv, StemMade, OfStem
    <2>2. /\ step \in Kinds \X (Purposes \cup Numbers) /\ Label(step) = <<"derive_stem", purpose>>
          /\ last \in Kinds \X (Purposes \cup Numbers) /\ Label(last) = <<"rotation", n>>
        BY DEF Kinds, Label, Prefixes
    <2>3. mid \in Places /\ OfBox(place) BY <2>1, PeriodOfStem DEF StemMade
    <2>5. /\ DeriveKey(stem.enc, Label(step)) = KeyOf(stem.writes, mid)
          /\ Children(stem.decs, Label(step)) = KeysOf(stem.reads, mid)
        <3> HIDE DEF step
        <3>1. QED BY <2>1, <2>2, KeyOfChild, KeysOfChild DEF StemMade
    <2>6. /\ DeriveKey(KeyOf(stem.writes, mid), Label(last)) = KeyOf(stem.writes, place)
          /\ Children(KeysOf(stem.reads, mid), Label(last)) = KeysOf(stem.reads, place)
        <3> HIDE DEF last, mid
        <3>1. QED BY <2>2, <2>3, KeyOfChild, KeysOfChild
    <2>7. AddBox(StaticBox(place, stem.writes, stem.reads,
                    DeriveKey(DeriveKey(stem.enc, Label(step)), Label(last)),
                    Children(Children(stem.decs, Label(step)), Label(last))))
        BY <1>5, <2>2 DEF DeriveRotating
    <2> HIDE DEF step, last, mid, place
    <2>8. AddBox(StaticBox(place, stem.writes, stem.reads, KeyOf(stem.writes, place), KeysOf(stem.reads, place)))
        BY <2>5, <2>6, <2>7
    <2>9. QED BY <1>1, <1>2, <2>3, <2>8
<1>6. CASE NewShared
    <2>1. ASSUME NEW p \in People \cup {Null}, NEW bytes,
                 (bytes = Private(p) /\ p \in People) \/ bytes = Public(p),
                 NEW box,
                 box = [kind |-> "shared", place |-> <<<<"shared", bytes[2]>>>>, writes |-> bytes[2],
                        reads |-> IF bytes[1] = "private" THEN {bytes[2]} ELSE {},
                        key |-> ReadKey(bytes)]
          PROVE  SharedMade(box)
        <3>1. bytes[2] = p BY <2>1 DEF Private, Public
        <3>2. box.kind = "shared" /\ box.writes = p /\ box.place = SharedPlace(p) BY <2>1, <3>1 DEF SharedPlace
        <3>3. box.key.public = Public(p) BY <2>1, <3>1 DEF ReadKey, Private, Public
        <3>4. \/ p \in People /\ box.reads = {p} /\ box.key.private = p
              \/ box.reads = {} /\ box.key.private = Null
            BY <2>1, <3>1 DEF ReadKey, Private, Public
        <3>5. QED BY <3>2, <3>3, <3>4 DEF SharedMade
    <2>2. QED BY <1>1, <1>6, <2>1 DEF NewShared
<1>7. CASE UNCHANGED boxes BY <1>7 DEF BoxesInv
<1>8. CASE \E box \in boxes : DropBox(box) BY <1>8 DEF DropBox, BoxesInv
<1>9. QED
    BY <1>3, <1>4, <1>5, <1>6, <1>7, <1>8
    DEF BoxesNext, NewStem, DeriveStem, EncryptWith, Damage

LEMMA TextsStayStored ==
    ASSUME NullIsNoValue, BoxesInv, BoxesNext
    PROVE  \A t \in texts' : Stored(t)
<1>1. ASSUME NEW box \in boxes, EncryptWith(box)
      PROVE  \A t \in texts' : Stored(t)
    <2>1. PICK e \in Ephemerals, nonce \in Nonces, ctx \in Contexts, body \in Bodies :
             /\ Written(box, e, nonce, ctx, body) # Null
             /\ texts' = texts \cup {[text |-> Written(box, e, nonce, ctx, body), place |-> box.place,
                                      root |-> box.writes, context |-> ctx, body |-> body, damaged |-> FALSE]}
        BY <1>1 DEF EncryptWith
    <2> DEFINE t == [text |-> Written(box, e, nonce, ctx, body), place |-> box.place,
                     root |-> box.writes, context |-> ctx, body |-> body, damaged |-> FALSE]
    <2>2. /\ DOMAIN t = StoredFields /\ ~t.damaged /\ t.damaged \in BOOLEAN
          /\ t.text = Written(box, e, nonce, ctx, body)
          /\ t.place = box.place /\ t.root = box.writes /\ t.context = ctx /\ t.body = body
        BY DEF StoredFields
    <2> HIDE DEF t
    <2>3. CASE StaticMade(box)
        <3>1. t.text = EncryptStatic(KeyOf(t.root, t.place), nonce, t.context, t.body)
            BY <2>2, <2>3 DEF StaticMade, Written
        <3>2. WrittenStatic(t) BY <2>2, <2>3, <3>1 DEF StaticMade, WrittenStatic
        <3>3. QED BY <2>1, <2>2, <3>2 DEF Stored, BoxesInv, t
    <2>4. CASE SharedMade(box)
        <3>1. t.text = EncryptShared(box.key, e, nonce, ctx, body) /\ t.text # Null
            BY <2>1, <2>2, <2>4 DEF SharedMade, Written
        <3>2. Contributes(box.key.public) BY <3>1 DEF EncryptShared
        <3>3. box.writes \in People /\ box.key.public = Public(box.writes)
            BY <2>4, <3>2 DEF SharedMade, Contributes, LowOrder
        <3>4. t.text = SharedText(Public(e), EncryptStatic(BoxKey(e, Public(t.root)), nonce, <<t.context, Public(e)>>, t.body))
            BY <2>2, <3>1, <3>2, <3>3 DEF EncryptShared
        <3>5. WrittenShared(t) BY <2>2, <2>4, <3>3, <3>4 DEF SharedMade, WrittenShared
        <3>6. QED BY <2>1, <2>2, <3>5 DEF Stored, BoxesInv, t
    <2>5. QED BY <2>3, <2>4 DEF BoxesInv
<1>2. ASSUME NEW t \in texts, Damage(t)
      PROVE  \A s \in texts' : Stored(s)
    <2>1. PICK part \in DOMAIN t.text :
             texts' = (texts \ {t}) \cup {[t EXCEPT !.text = [@ EXCEPT ![part] = Null], !.damaged = TRUE]}
        BY <1>2 DEF Damage
    <2> DEFINE rest == [t.text EXCEPT ![part] = Null]
               s == [t EXCEPT !.text = [@ EXCEPT ![part] = Null], !.damaged = TRUE]
    <2>2. Stored(t) BY DEF BoxesInv
    <2>3. DOMAIN s = StoredFields /\ s.damaged /\ s.damaged \in BOOLEAN /\ s.text = rest
        BY <2>2 DEF Stored, StoredFields
    <2>4. \/ DOMAIN t.text = TextFields /\ t.text.magic # "shared"
          \/ DOMAIN t.text = SharedFields /\ t.text.magic # "static"
        <3>1. CASE t.damaged BY <2>2, <3>1 DEF Stored, Torn
        <3>2. CASE WrittenStatic(t) BY <3>2 DEF WrittenStatic, EncryptStatic, StaticText, TextFields
        <3>3. CASE WrittenShared(t) BY <3>3 DEF WrittenShared, SharedText, SharedFields
        <3>4. QED BY <2>2, <3>1, <3>2, <3>3 DEF Stored
    <2>5. /\ DOMAIN rest = DOMAIN t.text /\ rest[part] = Null
          /\ \A f \in DOMAIN t.text : f # part => rest[f] = t.text[f]
        BY <2>1
    <2> HIDE DEF rest, s
    <2>6. "magic" \in DOMAIN t.text BY <2>4 DEF TextFields, SharedFields
    <2>7. rest.magic = t.text.magic \/ rest.magic = Null BY <2>5, <2>6
    <2>8. Torn(rest) BY <2>1, <2>4, <2>5, <2>7 DEF Torn, NullIsNoValue
    <2>9. Stored(s) BY <2>3, <2>8 DEF Stored
    <2>10. QED BY <2>1, <2>9 DEF BoxesInv, s
<1>3. CASE UNCHANGED texts BY <1>3 DEF BoxesInv
<1>4. QED
    BY <1>1, <1>2, <1>3
    DEF BoxesNext, NewStem, NewStatic, NewShared, DeriveStem, DeriveStatic, DeriveRotating, AddBox, DropBox

(* The keys of every box are those of its place in the tree and of the     *)
(* roots it was made with, and every text is as a box wrote it or torn.    *)
THEOREM BoxesInvariant ==
    ASSUME NullIsNoValue
    PROVE  BoxesSpec => []BoxesInv
<1>1. BoxesInit => BoxesInv BY DEF BoxesInit, BoxesInv
<1>2. BoxesInv /\ [BoxesNext]_boxVars => BoxesInv'
    <2>1. SUFFICES ASSUME BoxesInv, [BoxesNext]_boxVars PROVE BoxesInv' OBVIOUS
    <2>2. CASE BoxesNext
        BY <2>1, <2>2, StemsStayMade, BoxesStayMade, TextsStayStored DEF BoxesInv
    <2>3. CASE UNCHANGED boxVars BY <2>1, <2>3 DEF boxVars, BoxesInv
    <2>4. QED BY <2>1, <2>2, <2>3
<1>3. QED BY <1>1, <1>2, PTL DEF BoxesSpec

(* A text opens with exactly the boxes it is meant for, at every depth of  *)
(* the tree and for any roots, purposes and people.                        *)
THEOREM TextsOpenWhereMeant ==
    ASSUME NullIsNoValue
    PROVE  BoxesSpec => []OpensWhereMeant
<1>1. BoxesInv => OpensWhereMeant BY InvOpens
<1>2. QED BY <1>1, BoxesInvariant, PTL
=============================================================================
