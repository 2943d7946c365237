------------------------- MODULE RotatingStrongBox -------------------------
(***************************************************************************)
(* The RotatingStrongBox of the strong-box crate: an encryption container  *)
(* whose key changes every Lifespan seconds, and whose clones, used by     *)
(* several threads, share one cache of decryption keys behind a read-write *)
(* lock.                                                                   *)
(*                                                                         *)
(* A derived key stands for its own identifier: key ids are 128-bit        *)
(* derivations of the key, and collisions are not modelled.  A period,     *)
(* which the code holds as its first and last second, is its number: it    *)
(* starts Lifespan * number seconds after the epoch.                       *)
(***************************************************************************)
EXTENDS Integers, Sequences, FiniteSets

CONSTANTS
    Lifespan,   \* seconds in a rotation period
    Backtrack,  \* number of earlier periods the box is asked to decrypt
    Roots,      \* the root keys that exist
    EncKey,     \* the root encryption key of this box
    DecKeys,    \* the root decryption keys of this box, a sequence
    ZeroKey,    \* the all-zero key the encryptor holds when it is created
    Threads,    \* threads that hold a clone of the box
    Nobody,     \* the holder of a lock that is free
    StartTime,  \* the clock when the box is created
    MaxTime     \* bound of the model: the clock stops here

(* The code divides by Lifespan: a period shorter than a second panics.  *)
ASSUME LifespanAssumption == Lifespan \in Nat \ {0}
ASSUME BacktrackAssumption == Backtrack \in Nat
ASSUME KeysAssumption ==
    EncKey \in Roots /\ DecKeys \in Seq(Roots) /\ ZeroKey \notin Roots
ASSUME ThreadsAssumption == Nobody \notin Threads
ASSUME TimeAssumption == StartTime \in Nat /\ MaxTime \in Nat

VARIABLES
    now,          \* seconds since the epoch, read afresh by every operation
    encryptor,    \* the cached encryption key and its last valid second
    cache,        \* decryptor_cache: key -> last second of its validity
    validities,   \* decryptor_validities: the pairs <<expiry, key>>
    writer,       \* the thread inside the write lock, or Nobody
    op,           \* what every thread is doing
    sealed        \* the last encryption: its key and the second it was made

vars == <<now, encryptor, cache, validities, writer, op, sealed>>

----------------------------------------------------------------------------
(* Periods and keys *)

PeriodOf(t) == t \div Lifespan
FirstValidAt(p) == p * Lifespan
InvalidAfterNext(p) == FirstValidAt(p) + Lifespan  \* mutant: off by one
InvalidAfter(p) == FirstValidAt(p) + Lifespan - 1

Periods == 0 .. PeriodOf(MaxTime)

(* kdf::derive_key of a root key with a period for context *)
Key(root, p) == [root |-> root, period |-> p]
Keys == [root : Roots, period : Nat]

DecRoots == {DecKeys[i] : i \in DOMAIN DecKeys}

(* A ciphertext names its key; it is intact when its tag verifies under    *)
(* that key and the context the caller supplies.                           *)
Ciphertexts == [key : [root : Roots, period : Periods], intact : BOOLEAN]

IsExpired(invalid_after, t) == t > invalid_after

(* try_decrypt_with finds the key, unexpired, and the ciphertext verifies *)
Opens(ct) ==
    /\ ct.key \in DOMAIN cache
    /\ ~IsExpired(cache[ct.key], now)
    /\ ct.intact

----------------------------------------------------------------------------
(* The key cache *)

(* purge_entries_before: the entries that survive, oldest expiry first out *)
KeptAll(t) == validities  \* mutant: no purge
Kept(t) == {v \in validities : v[1] >= t}
PurgedNone(t) == {}  \* mutant: the purge forgets decryptor_cache
Purged(t) == {v[2] : v \in validities \ Kept(t)}
CachedAfterPurge(t) == DOMAIN cache \ Purged(t)

(* The ages b at which refresh_cache, running in period c over the keys    *)
(* `cached`, adds keys: it walks back from b = 0 and stops at the first    *)
(* period whose key for the first root is cached, at the limit, or at the  *)
(* epoch.                                                                  *)
FilledAgesPastEpoch(c, cached) ==  \* mutant: no stop at the epoch
    {b \in 0 .. Backtrack : \A a \in 0 .. b : Key(Head(DecKeys), c - a) \notin cached}

FilledAges(c, cached) ==
    {b \in 0 .. Backtrack :
        b <= c /\ \A a \in 0 .. b : Key(Head(DecKeys), c - a) \notin cached}

(* The expiry given to the keys of age b, as the code computes it.  The    *)
(* period it starts from has already moved b periods into the past.        *)
ExpiryFromNow(c, b) == InvalidAfter(c) + Backtrack * Lifespan  \* mutant: age ignored
ExpiryTooSoon(c, b) ==  \* mutant: one period short
    InvalidAfter(c - b) + (Backtrack - b - 1) * Lifespan
ExpiryAtAge(c, b) == InvalidAfter(c - b) + (Backtrack - b) * Lifespan

Refresh(t) ==
    LET c      == PeriodOf(t)
        purge  == FirstValidAt(c)
        cached == CachedAfterPurge(purge)
        ages   == FilledAges(c, cached)
        fresh  == {Key(r, c - b) : r \in DecRoots, b \in ages}
    IN  /\ cache' = [k \in cached \cup fresh |->
                        IF k \in fresh THEN ExpiryAtAge(c, c - k.period)
                                       ELSE cache[k]]
        /\ validities' = Kept(purge) \cup
                         {<<ExpiryAtAge(c, c - k.period), k>> : k \in fresh}

----------------------------------------------------------------------------
(* Operations *)

Idle == [pc |-> "idle"]

Init ==
    /\ now = StartTime
    /\ encryptor = [key |-> Key(ZeroKey, 0), invalid_after |-> 0]
    /\ cache = [k \in {} |-> 0]
    /\ validities = {}
    /\ writer = Nobody
    /\ op = [th \in Threads |-> Idle]
    /\ sealed = <<>>

(* encrypt: under the write lock, with a key derived anew if the cached    *)
(* one has expired                                                         *)
Encrypt(th) ==
    /\ op[th].pc = "idle"
    /\ writer = Nobody
    /\ encryptor' = IF IsExpired(encryptor.invalid_after, now)
                    THEN [key |-> Key(EncKey, PeriodOf(now)),
                          invalid_after |-> InvalidAfter(PeriodOf(now))]
                    ELSE encryptor
    /\ sealed' = <<encryptor'.key, now>>
    /\ UNCHANGED <<now, cache, validities, writer, op>>

(* decrypt is called with a ciphertext made by some box, here or elsewhere, *)
(* no later than now                                                        *)
CallDecrypt(th) ==
    /\ op[th].pc = "idle"
    /\ \E ct \in Ciphertexts :
          /\ ct.key.period <= PeriodOf(now)
          /\ op' = [op EXCEPT ![th] = [pc |-> "try", ct |-> ct]]
    /\ UNCHANGED <<now, encryptor, cache, validities, writer, sealed>>

Goto(th, label) == op' = [op EXCEPT ![th] = [pc |-> label, ct |-> op[th].ct]]

Finish(th, result) ==
    op' = [op EXCEPT ![th] = [pc |-> "done", ct |-> op[th].ct,
                              result |-> result, at |-> now]]

(* The first attempt, under the read lock *)
TryDecrypt(th) ==
    /\ op[th].pc = "try"
    /\ writer = Nobody
    /\ \/ Opens(op[th].ct) /\ Finish(th, "plaintext")
       \/ ~Opens(op[th].ct) /\ Goto(th, "refresh")
    /\ UNCHANGED <<now, encryptor, cache, validities, writer, sealed>>

(* The cache is refreshed for the time at which the write lock is taken. *)
RefillCache(th) ==
    /\ op[th].pc = "refresh"
    /\ writer = Nobody
    /\ DecKeys # <<>>
    /\ Refresh(now)
    /\ writer' = th
    /\ Goto(th, "drop")
    /\ UNCHANGED <<now, encryptor, sealed>>

(* With no decryption key, refresh_cache panics after the purge; unwinding *)
(* drops the guard, which frees the lock without poisoning it.             *)
RefreshCaught(th) ==  \* mutant: the panic is caught and the call starts again
    /\ op[th].pc = "refresh"
    /\ writer = Nobody
    /\ DecKeys = <<>>
    /\ Goto(th, "try")
    /\ UNCHANGED <<now, encryptor, cache, validities, writer, sealed>>

RefreshPanics(th) ==
    /\ op[th].pc = "refresh"
    /\ writer = Nobody
    /\ DecKeys = <<>>
    /\ LET purge == FirstValidAt(PeriodOf(now))
       IN  /\ cache' = [k \in CachedAfterPurge(purge) |-> cache[k]]
           /\ validities' = Kept(purge)
    /\ Goto(th, "panicked")
    /\ UNCHANGED <<now, encryptor, writer, sealed>>

(* The step under the write lock: it keeps the lock until its guard drops. *)
RefreshCache(th) ==
    /\ op[th].pc = "refresh"
    /\ RefillCache(th) \/ RefreshPanics(th)

DropLock(th) ==
    /\ op[th].pc = "drop"
    /\ writer' = Nobody
    /\ Goto(th, "retry")
    /\ UNCHANGED <<now, encryptor, cache, validities, sealed>>

(* The second attempt, after which an error is final *)
RetryDecrypt(th) ==
    /\ op[th].pc = "retry"
    /\ writer = Nobody
    /\ Finish(th, IF Opens(op[th].ct) THEN "plaintext" ELSE "error")
    /\ UNCHANGED <<now, encryptor, cache, validities, writer, sealed>>

(* decrypt is back; a caller may also catch the panic, the box being       *)
(* declared unwind safe.                                                   *)
Return(th) ==
    /\ op[th].pc \in {"done", "panicked"}
    /\ op' = [op EXCEPT ![th] = Idle]
    /\ UNCHANGED <<now, encryptor, cache, validities, writer, sealed>>

Tick ==
    /\ now < MaxTime
    /\ now' \in now + 1 .. MaxTime
    /\ UNCHANGED <<encryptor, cache, validities, writer, op, sealed>>

(* SystemTime is not monotone: the wall clock may be set back. *)
StepBack ==
    /\ now' \in 0 .. now - 1
    /\ UNCHANGED <<encryptor, cache, validities, writer, op, sealed>>

Step(th) ==
    \/ TryDecrypt(th)
    \/ RefreshCache(th)
    \/ DropLock(th)
    \/ RetryDecrypt(th)

Next ==
    \/ \E th \in Threads : Encrypt(th) \/ CallDecrypt(th) \/ Step(th) \/ Return(th)
    \/ Tick

Spec == Init /\ [][Next]_vars

(* The same box under a clock that may also go back *)
SkewedSpec == Init /\ [][Next \/ StepBack]_vars

(* parking_lot's lock is eventually fair, so a thread that waits for it    *)
(* gets it: strong fairness of every thread's own steps.                   *)
Fairness == \A th \in Threads : SF_vars(Step(th))
FairSpec == Spec /\ Fairness
FairSkewedSpec == SkewedSpec /\ Fairness

----------------------------------------------------------------------------
(* Correctness *)

Called == [pc : {"try", "refresh", "drop", "retry", "panicked"}, ct : Ciphertexts]
Finished == [pc : {"done"}, ct : Ciphertexts, result : {"plaintext", "error"}, at : Nat]

(* Type correctness of the box and of the threads that use it *)
TypeOK ==
    /\ now \in Nat
    /\ encryptor \in [key : Keys \cup {Key(ZeroKey, 0)}, invalid_after : Nat]
    /\ DOMAIN cache \subseteq Keys
    /\ cache \in [DOMAIN cache -> Nat]
    /\ validities \in SUBSET (Nat \X Keys)
    /\ writer \in Threads \cup {Nobody}
    /\ op \in [Threads -> {Idle} \cup Called \cup Finished]

(* The two structures of the cache never drift apart: the ordered set that *)
(* drives the purge holds one entry for each cached key, with the expiry   *)
(* that decryption tests (inserts at 342-346, removals at 372-374).        *)
CacheIndexed == validities = {<<cache[k], k>> : k \in DOMAIN cache}

(* Rotation forgets, and never early-accepts: what decrypts was encrypted  *)
(* no more than Backtrack periods before the second the key was checked,   *)
(* whatever other threads refreshed or purged in between.                  *)
NeverPastBacktrack ==
    \A th \in Threads :
        op[th].pc = "done" /\ op[th].result = "plaintext" =>
            PeriodOf(op[th].at) - op[th].ct.key.period <= Backtrack

(* What the box does guarantee to decrypt: an intact ciphertext under one  *)
(* of its roots, whose age in periods is at most half of Backtrack when    *)
(* the call ends, is decrypted, even if the period changes or other        *)
(* threads refresh the cache during the call.                              *)
Refused(th) ==
    /\ op[th].pc = "done"
    /\ op[th].result = "error"
    /\ op[th].ct.intact
    /\ op[th].ct.key.root \in DecRoots

RecentDecrypts ==
    \A th \in Threads :
        Refused(th) =>
            2 * (PeriodOf(op[th].at) - op[th].ct.key.period) > Backtrack

(* The memory of the cache stays within the decryption keys times the      *)
(* periods the box may decrypt, the bound its documentation gives.         *)
CacheBounded ==
    Cardinality(DOMAIN cache) <= Cardinality(DecRoots) * (Backtrack + 1)

(* While the clock does not go back, every encryption uses the key derived *)
(* from the root encryption key for the period of that very second.        *)
SealedUnderCurrentPeriod ==
    sealed # <<>> => sealed[1] = Key(EncKey, PeriodOf(sealed[2]))

(* Whatever the clock does, no encryption is under the key of a period     *)
(* that is over at that second, nor under the zero key: a cached encryptor *)
(* that the clock has fallen behind stays in use, and is of a later        *)
(* period.  At the epoch's own second the zero key has not expired.        *)
NeverSealedUnderEarlier ==
    sealed # <<>> /\ sealed[2] > 0 =>
        /\ sealed[1].root = EncKey
        /\ sealed[1].period >= PeriodOf(sealed[2])

(* Every call of decrypt comes back, with a result or by unwinding: no     *)
(* thread is left waiting for the lock.                                    *)
DecryptReturns ==
    \A th \in Threads :
        op[th].pc = "try" ~> op[th].pc \in {"done", "panicked"}

(* What the documentation of the box says it decrypts: every period back   *)
(* to the limit given by Backtrack.                                        *)
DecryptsWithinBacktrack ==
    \A th \in Threads :
        Refused(th) => PeriodOf(op[th].at) - op[th].ct.key.period > Backtrack

----------------------------------------------------------------------------
(* The inductive invariant *)

(* The last period in which a cached key decrypts *)
LastPeriod(k) == PeriodOf(cache[k])

(* The decryption keys of a period come and go together, with one expiry. *)
RootsTogether ==
    \A k \in DOMAIN cache : \A r \in DecRoots :
        /\ Key(r, k.period) \in DOMAIN cache
        /\ cache[Key(r, k.period)] = cache[k]

(* Expiries are ends of periods, at most Backtrack past the key's own. *)
ExpiryInWindow ==
    \A k \in DOMAIN cache :
        /\ k.root \in DecRoots
        /\ cache[k] = InvalidAfter(LastPeriod(k))
        /\ LastPeriod(k) <= k.period + Backtrack

(* Under a clock that never goes back, no key is from the future, and the  *)
(* time a key was denied is twice its age when it was derived.             *)
ExpiryEarned ==
    \A k \in DOMAIN cache :
        /\ k.period <= PeriodOf(now)
        /\ 2 * k.period + Backtrack - PeriodOf(now) <= LastPeriod(k)

Recent(p) == 2 * (PeriodOf(now) - p) <= Backtrack

(* What justifies the early return of refresh_cache: below a cached period *)
(* there is no gap among the recent ones.                                  *)
RecentCached ==
    \A k \in DOMAIN cache : \A r \in DecRoots : \A p \in 0 .. k.period :
        Recent(p) => Key(r, p) \in DOMAIN cache

(* A call that has refreshed the cache finds the key of a recent ciphertext *)
(* when it retries.                                                         *)
CallReady ==
    \A th \in Threads :
        /\ op[th].pc \in {"try", "refresh", "drop", "retry"} =>
               op[th].ct.key.period <= PeriodOf(now)
        /\ op[th].pc \in {"drop", "retry"} =>
               (op[th].ct.key.root \in DecRoots /\ Recent(op[th].ct.key.period)
                   => op[th].ct.key \in DOMAIN cache)

(* The cached keys are of Backtrack + 1 periods in a row: those of the     *)
(* refresh that came last.                                                 *)
CacheInWindow ==
    \E c \in 0 .. PeriodOf(now) :
        \A k \in DOMAIN cache : k.period <= c /\ c <= k.period + Backtrack

(* What holds whatever the clock does *)
BoxInv ==
    TypeOK /\ CacheIndexed /\ RootsTogether /\ ExpiryInWindow /\ NeverPastBacktrack

(* What holds as well when the clock never goes back: the reason recent    *)
(* ciphertexts decrypt.                                                    *)
MonotoneInv ==
    BoxInv /\ ExpiryEarned /\ RecentCached /\ CallReady /\ RecentDecrypts
=============================================================================
