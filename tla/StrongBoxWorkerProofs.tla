----------------------- MODULE StrongBoxWorkerProofs -----------------------
(***************************************************************************)
(* Proofs about StrongBoxWorker, for any callers, requests, failures,      *)
(* capacities and lifetimes: the plaintext cache holds what decryption     *)
(* gives, every pending request has one thing under way that will settle   *)
(* it, and client, worker and cache together implement StrongBoxBridge.    *)
(***************************************************************************)
EXTENDS StrongBoxWorker, SequenceTheorems, FiniteSetTheorems, TLAPS

----------------------------------------------------------------------------
(* The plaintext cache *)

Entries == [key : Requests, value : {Value(req) : req \in Requests}, expires : Int]

(* Removing one element moves those behind it up by one. *)
LEMMA RemoveAtProperties ==
    ASSUME NEW S, NEW s \in Seq(S), NEW k \in 1 .. Len(s)
    PROVE  /\ RemoveAt(s, k) \in Seq(S)
           /\ Len(RemoveAt(s, k)) = Len(s) - 1
           /\ \A i \in 1 .. Len(s) - 1 : RemoveAt(s, k)[i] = s[IF i < k THEN i ELSE i + 1]
  <1> DEFINE front == SubSeq(s, 1, k - 1)
             back  == SubSeq(s, k + 1, Len(s))
  <1>1. Len(s) \in Nat /\ k \in Int /\ \A i \in 1 .. Len(s) : s[i] \in S
    BY ElementOfSeq
  <1>2. /\ front \in Seq(S) /\ Len(front) = k - 1
        /\ \A i \in 1 .. k - 1 : front[i] = s[i]
    <2>1. \A i \in 1 .. k - 1 : s[i] \in S /\ 1 + i - 1 = i
      BY <1>1
    <2>2. /\ front \in Seq(S) /\ Len(front) = IF 1 <= k - 1 THEN k - 1 - 1 + 1 ELSE 0
          /\ \A i \in 1 .. k - 1 - 1 + 1 : front[i] = s[1 + i - 1]
      <3> HIDE DEF front
      <3> QED BY <1>1, <2>1, SubSeqProperties DEF front
    <2> HIDE DEF front
    <2> QED BY <1>1, <2>1, <2>2
  <1>3. /\ back \in Seq(S) /\ Len(back) = Len(s) - k
        /\ \A i \in 1 .. Len(s) - k : back[i] = s[k + i]
    <2>1. \A i \in k + 1 .. Len(s) : s[i] \in S
      BY <1>1
    <2>2. /\ back \in Seq(S) /\ Len(back) = IF k + 1 <= Len(s) THEN Len(s) - (k + 1) + 1 ELSE 0
          /\ \A i \in 1 .. Len(s) - (k + 1) + 1 : back[i] = s[(k + 1) + i - 1]
      BY <1>1, <2>1, SubSeqProperties
    <2> HIDE DEF back
    <2>3. \A i \in 1 .. Len(s) - k : (k + 1) + i - 1 = k + i
      BY <1>1
    <2> QED BY <1>1, <2>2, <2>3
  <1> HIDE DEF front, back
  <1>4. /\ front \o back \in Seq(S) /\ Len(front \o back) = Len(s) - 1
        /\ \A i \in 1 .. Len(s) - 1 :
              (front \o back)[i] = IF i <= k - 1 THEN front[i] ELSE back[i - (k - 1)]
    <2>1. /\ front \o back \in Seq(S) /\ Len(front \o back) = Len(front) + Len(back)
          /\ \A i \in 1 .. Len(front) + Len(back) :
                (front \o back)[i] = IF i <= Len(front) THEN front[i] ELSE back[i - Len(front)]
      BY <1>2, <1>3, ConcatProperties
    <2>2. Len(front) = k - 1 /\ Len(front) + Len(back) = Len(s) - 1
      BY <1>1, <1>2, <1>3
    <2> QED BY ONLY <2>1, <2>2
  <1>5. \A i \in 1 .. Len(s) - 1 : /\ i < k => i <= k - 1 /\ i \in 1 .. k - 1
                                  /\ ~ (i < k) => /\ ~ (i <= k - 1)
                                                  /\ i - (k - 1) \in 1 .. Len(s) - k
                                                  /\ k + (i - (k - 1)) = i + 1
    BY <1>1
  <1>6. ASSUME NEW i \in 1 .. Len(s) - 1
        PROVE  (front \o back)[i] = s[IF i < k THEN i ELSE i + 1]
    <2>1. CASE i < k
      BY <2>1, <1>2, <1>4, <1>5
    <2>2. CASE ~ (i < k)
      BY <2>2, <1>3, <1>4, <1>5
    <2> QED BY <2>1, <2>2
  <1> QED BY <1>4, <1>6 DEF RemoveAt, front, back

(* What CacheSound says of the cache, of any sequence, and that no entry   *)
(* outlives one that is added now                                          *)
Sound(entries) ==
    /\ entries \in Seq(Entries)
    /\ \A i \in DOMAIN entries :
          /\ entries[i].value = Executed(entries[i].key) /\ entries[i].value # Rejected
          /\ entries[i].expires <= now + Ttl
    /\ \A i, j \in DOMAIN entries : entries[i].key = entries[j].key => i = j
    /\ \A i, j \in DOMAIN entries : i < j => entries[i].expires <= entries[j].expires

CacheInv == now \in Int /\ Sound(cache) /\ Len(cache) <= MaxEntries

Lacks(entries, key) == \A i \in DOMAIN entries : entries[i].key # key

(* Deleting a key leaves the other entries in their order. *)
LEMMA DeletedSound ==
    ASSUME NEW entries, Sound(entries), NEW key
    PROVE  /\ Sound(Deleted(entries, key))
           /\ Lacks(Deleted(entries, key), key)
           /\ Len(Deleted(entries, key)) <= Len(entries)
  <1>1. CASE Matches(entries, key) = {}
    <2>1. Deleted(entries, key) = entries
      BY <1>1 DEF Deleted
    <2>2. Lacks(entries, key)
      BY <1>1 DEF Matches, Lacks
    <2>3. Len(entries) \in Nat
      BY DEF Sound
    <2> QED BY <2>1, <2>2, <2>3
  <1>2. CASE Matches(entries, key) # {}
    <2> DEFINE k == CHOOSE i \in Matches(entries, key) : TRUE
               left == Deleted(entries, key)
    <2>1. k \in DOMAIN entries /\ entries[k].key = key
      BY <1>2 DEF Matches
    <2>2. entries \in Seq(Entries) /\ k \in 1 .. Len(entries) /\ Len(entries) \in Nat
      BY <2>1 DEF Sound
    <2>3. left = RemoveAt(entries, k)
      BY <1>2 DEF Deleted
    <2> HIDE DEF left, k
    <2>6. /\ left \in Seq(Entries)
          /\ Len(left) = Len(entries) - 1
          /\ \A i \in 1 .. Len(entries) - 1 : left[i] = entries[IF i < k THEN i ELSE i + 1]
      BY <2>2, <2>3, RemoveAtProperties
    <2>7. DOMAIN left = 1 .. Len(entries) - 1 /\ DOMAIN entries = 1 .. Len(entries)
      BY <2>2, <2>6
    <2>8. \A i \in DOMAIN left : /\ (IF i < k THEN i ELSE i + 1) \in DOMAIN entries \ {k}
                                 /\ left[i] = entries[IF i < k THEN i ELSE i + 1]
      BY <2>2, <2>6, <2>7
    <2>9. Lacks(left, key)
      BY <2>1, <2>8 DEF Lacks, Sound
    <2>10. \A i \in DOMAIN left :
             /\ left[i].value = Executed(left[i].key) /\ left[i].value # Rejected
             /\ left[i].expires <= now + Ttl
      BY <2>8 DEF Sound
    <2>11. \A i, j \in DOMAIN left : left[i].key = left[j].key => i = j
      <3> SUFFICES ASSUME NEW i \in DOMAIN left, NEW j \in DOMAIN left, left[i].key = left[j].key
                   PROVE  i = j
        OBVIOUS
      <3>1. (IF i < k THEN i ELSE i + 1) = (IF j < k THEN j ELSE j + 1)
        BY <2>8 DEF Sound
      <3> QED BY <3>1, <2>2, <2>7
    <2>12. \A i, j \in DOMAIN left : i < j => left[i].expires <= left[j].expires
      <3> SUFFICES ASSUME NEW i \in DOMAIN left, NEW j \in DOMAIN left, i < j
                   PROVE  left[i].expires <= left[j].expires
        OBVIOUS
      <3>1. (IF i < k THEN i ELSE i + 1) < (IF j < k THEN j ELSE j + 1)
        BY <2>2, <2>7
      <3> QED BY <3>1, <2>8 DEF Sound
    <2> QED BY <2>2, <2>6, <2>9, <2>10, <2>11, <2>12 DEF Sound, left
  <1> QED BY <1>1, <1>2

(* An entry that is added now goes to the end of those that lack its key.  *)
LEMMA AppendedSound ==
    ASSUME now \in Int, NEW entries, Sound(entries), NEW key \in Requests, Lacks(entries, key),
           NEW value, value = Executed(key), value # Rejected
    PROVE  /\ Sound(Append(entries, Entry(key, value)))
           /\ Len(Append(entries, Entry(key, value))) = Len(entries) + 1
  <1> DEFINE longer == Append(entries, Entry(key, value))
             n == Len(entries)
  <1>1. Entry(key, value) \in Entries
    BY CacheAssumption DEF Entry, Entries, Executed
  <1>2. entries \in Seq(Entries) /\ n \in Nat /\ DOMAIN entries = 1 .. n
    BY DEF Sound
  <1>3. /\ longer \in Seq(Entries) /\ Len(longer) = n + 1 /\ DOMAIN longer = 1 .. n + 1
        /\ longer[n + 1] = Entry(key, value)
        /\ \A i \in DOMAIN entries : longer[i] = entries[i]
    BY <1>1, <1>2
  <1> HIDE DEF longer, n
  <1>4. /\ longer[n + 1].key = key /\ longer[n + 1].value = value
        /\ longer[n + 1].expires = now + Ttl /\ now + Ttl \in Int
    BY <1>3, CacheAssumption DEF Entry
  <1>5. \A i \in DOMAIN longer : i \in DOMAIN entries \/ i = n + 1
    BY <1>2, <1>3
  <1>6. \A i \in DOMAIN longer :
           /\ longer[i].value = Executed(longer[i].key) /\ longer[i].value # Rejected
           /\ longer[i].expires <= now + Ttl
    BY <1>3, <1>4, <1>5 DEF Sound
  <1>7. \A i, j \in DOMAIN longer : longer[i].key = longer[j].key => i = j
    BY <1>3, <1>4, <1>5 DEF Sound, Lacks
  <1>8. \A i, j \in DOMAIN longer : i < j => longer[i].expires <= longer[j].expires
    <2> SUFFICES ASSUME NEW i \in DOMAIN longer, NEW j \in DOMAIN longer, i < j
                 PROVE  longer[i].expires <= longer[j].expires
      OBVIOUS
    <2>1. i \in DOMAIN entries
      BY <1>2, <1>3
    <2>2. CASE j = n + 1
      BY <2>1, <2>2, <1>3, <1>4 DEF Sound
    <2>3. CASE j \in DOMAIN entries
      BY <2>1, <2>3, <1>3 DEF Sound
    <2> QED BY <2>2, <2>3, <1>5
  <1> QED BY <1>3, <1>6, <1>7, <1>8 DEF Sound, longer, n

(* Evicting the first entry leaves the others in their order. *)
LEMMA EvictedSound ==
    ASSUME NEW entries, Sound(entries), Len(entries) > 0
    PROVE  Sound(Tail(entries)) /\ Len(Tail(entries)) = Len(entries) - 1
  <1>1. entries \in Seq(Entries) /\ Len(entries) \in Nat /\ entries # <<>>
        /\ DOMAIN entries = 1 .. Len(entries)
    BY DEF Sound
  <1>2. /\ Tail(entries) \in Seq(Entries) /\ Len(Tail(entries)) = Len(entries) - 1
        /\ DOMAIN Tail(entries) = 1 .. Len(entries) - 1
        /\ \A i \in 1 .. Len(entries) - 1 : Tail(entries)[i] = entries[i + 1]
    BY <1>1
  <1>3. \A i \in DOMAIN Tail(entries) :
           /\ i \in Int /\ i + 1 \in DOMAIN entries /\ Tail(entries)[i] = entries[i + 1]
    BY <1>1, <1>2
  <1>4. \A i, j \in DOMAIN Tail(entries) : (i + 1 = j + 1 => i = j) /\ (i < j => i + 1 < j + 1)
    BY <1>3
  <1> QED BY <1>2, <1>3, <1>4 DEF Sound

----------------------------------------------------------------------------
(* Requests and what is under way for them *)

Posted == [id : Nat, req : Requests]
Results == {Value(req) : req \in Requests} \cup {Rejected}
Messages == {[type |-> "ready"], [type |-> "init-error"]}
            \cup [type : {"response"}, id : Nat, answer : Results]

CallerTyped(record) ==
    \/ record = Idle
    \/ \E req \in Requests :
          \/ record = Awaiting(req)
          \/ \E id \in Nat : record = Waiting(req, id)
          \/ \E answer \in Results : record = Done(req, answer)

TypeOK ==
    /\ bridge \in {"none", "creating", "ready", "failed"}
    /\ nextId \in Nat
    /\ caller = [c \in Callers |-> caller[c]] /\ \A c \in Callers : CallerTyped(caller[c])
    /\ \A id \in DOMAIN pending : pending[id] \in Callers
    /\ toWorker \in Seq(Posted) /\ toPage \in Seq(Messages) /\ digesting \subseteq Posted

(* No bridge is rejected, nor does the worker say it has failed, unless    *)
(* something may fail.                                                     *)
FailureHasCause ==
    /\ bridge = "failed" => Failures # {}
    /\ \A i \in DOMAIN toPage : toPage[i].type = "init-error" => Failures # {}

(* Ids are counted up, and each is in at most one place.                   *)
AtMostOnce ==
    /\ \A id \in DOMAIN pending : id \in Nat /\ id < nextId
    /\ \A i \in DOMAIN toWorker : toWorker[i].id < nextId
    /\ \A msg \in digesting : msg.id < nextId
    /\ \A i \in DOMAIN toPage : toPage[i].type = "response" => toPage[i].id < nextId
    /\ \A i, j \in DOMAIN toWorker : toWorker[i].id = toWorker[j].id => i = j
    /\ \A msg, other \in digesting : msg.id = other.id => msg = other
    /\ \A i, j \in DOMAIN toPage :
          toPage[i].type = "response" /\ toPage[j].type = "response" /\ toPage[i].id = toPage[j].id
              => i = j
    /\ \A i \in DOMAIN toWorker, msg \in digesting : toWorker[i].id # msg.id
    /\ \A i \in DOMAIN toWorker, j \in DOMAIN toPage :
          toPage[j].type = "response" => toWorker[i].id # toPage[j].id
    /\ \A msg \in digesting, j \in DOMAIN toPage :
          toPage[j].type = "response" => msg.id # toPage[j].id

(* The callers that wait and the ids that are pending are the same.        *)
WaitersPending ==
    /\ \A c \in Callers : caller[c].pc = "waiting" =>
          caller[c].id \in DOMAIN pending /\ pending[caller[c].id] = c
    /\ \A id \in DOMAIN pending :
          caller[pending[id]].pc = "waiting" /\ caller[pending[id]].id = id

(* Something is under way for every pending request, and it is about it.   *)
UnderWay ==
    \A id \in DOMAIN pending :
        /\ Requested(id) # {} \/ Digested(id) # {} \/ Responded(id) # {}
        /\ \A i \in Requested(id) : toWorker[i].req = caller[pending[id]].req
        /\ \A msg \in Digested(id) : msg.req = caller[pending[id]].req
        /\ \A i \in Responded(id) : toPage[i].answer \in Bridge!Answers(caller[pending[id]].req)

WorkerInv ==
    /\ CacheInv /\ TypeOK /\ FailureHasCause /\ AtMostOnce /\ WaitersPending /\ UnderWay

----------------------------------------------------------------------------
(* Sequences of messages *)

(* A message that is appended stands behind all others. *)
LEMMA AppendedLast ==
    ASSUME NEW S, NEW s \in Seq(S), NEW e \in S, NEW t, t = Append(s, e)
    PROVE  /\ t \in Seq(S)
           /\ Len(s) + 1 \in DOMAIN t /\ t[Len(s) + 1] = e /\ Len(s) + 1 \notin DOMAIN s
           /\ \A i \in DOMAIN s : i \in DOMAIN t /\ t[i] = s[i]
           /\ \A i \in DOMAIN t : i \in DOMAIN s \/ i = Len(s) + 1
  OBVIOUS

(* When the first message is taken, the others move up. *)
LEMMA FirstTaken ==
    ASSUME NEW S, NEW s \in Seq(S), s # <<>>, NEW t, t = Tail(s)
    PROVE  /\ t \in Seq(S)
           /\ 1 \in DOMAIN s /\ Head(s) = s[1] /\ Head(s) \in S
           /\ \A i \in DOMAIN t : i + 1 \in DOMAIN s /\ i + 1 # 1 /\ t[i] = s[i + 1]
           /\ \A i \in DOMAIN s : i # 1 => i - 1 \in DOMAIN t /\ t[i - 1] = s[i]
           /\ \A i, j \in DOMAIN t : i + 1 = j + 1 => i = j
  OBVIOUS

(* A response has an id and an answer. *)
LEMMA MessageTyped ==
    ASSUME TypeOK, NEW i \in DOMAIN toPage
    PROVE  /\ toPage[i] \in Messages
           /\ toPage[i].type = "response" => toPage[i].id \in Nat /\ toPage[i].answer \in Results
  BY DEF TypeOK, Messages

----------------------------------------------------------------------------
(* The steps, one by one *)

LEMMA InitInv == Init => WorkerInv
  <1> SUFFICES ASSUME Init PROVE WorkerInv
    OBVIOUS
  <1> USE DEF Init
  <1>1. CacheInv
    BY CacheAssumption DEF CacheInv, Sound
  <1>2. TypeOK
    BY DEF TypeOK, CallerTyped
  <1>3. FailureHasCause /\ AtMostOnce /\ WaitersPending /\ UnderWay
    BY DEF FailureHasCause, AtMostOnce, WaitersPending, UnderWay, Idle
  <1> QED BY <1>1, <1>2, <1>3 DEF WorkerInv

(* A caller that waits for nothing goes on to wait for nothing. *)
LEMMA CallerInv ==
    ASSUME WorkerInv, NEW c \in Callers, caller[c].pc # "waiting",
           NEW record, CallerTyped(record), record.pc # "waiting", Become(c, record),
           bridge' \in {"none", "creating", "ready", "failed"}, bridge' = "failed" => Failures # {},
           UNCHANGED <<now, nextId, pending, toWorker, toPage, digesting, cache>>
    PROVE  WorkerInv'
  <1> USE DEF WorkerInv
  <1>1. /\ caller' = [d \in Callers |-> caller'[d]]
        /\ caller'[c] = record /\ \A d \in Callers : d # c => caller'[d] = caller[d]
    BY DEF TypeOK, Become
  <1>2. \A id \in DOMAIN pending : pending[id] # c /\ caller'[pending[id]] = caller[pending[id]]
    <2>1. \A id \in DOMAIN pending : pending[id] \in Callers /\ caller[pending[id]].pc = "waiting"
      BY DEF WaitersPending, TypeOK
    <2>2. \A id \in DOMAIN pending : pending[id] # c
      BY <2>1
    <2> QED BY <1>1, <2>1, <2>2
  <1>3. CacheInv'
    BY DEF CacheInv, Sound, Entries
  <1>4. TypeOK'
    BY <1>1 DEF TypeOK
  <1>5. FailureHasCause' /\ AtMostOnce'
    BY DEF FailureHasCause, AtMostOnce
  <1>6. WaitersPending'
    BY <1>1, <1>2 DEF WaitersPending
  <1>7. UnderWay'
    BY <1>2 DEF UnderWay, Requested, Digested, Responded
  <1> QED BY <1>3, <1>4, <1>5, <1>6, <1>7

(* What a caller does tells which request it is about. *)
LEMMA CallerOf ==
    ASSUME NEW record, CallerTyped(record)
    PROVE  /\ record.pc = "idle" => record = Idle
           /\ record.pc = "awaiting" => record.req \in Requests /\ record = Awaiting(record.req)
           /\ record.pc = "waiting" =>
                record.req \in Requests /\ record.id \in Nat /\ record = Waiting(record.req, record.id)
           /\ record.pc = "done" => record.req \in Requests /\ record.answer \in Results
                                    /\ record = Done(record.req, record.answer)
           /\ record.pc \in {"idle", "awaiting", "waiting", "done"}
  <1>1. CASE record = Idle
    BY <1>1 DEF Idle
  <1>2. ASSUME NEW req \in Requests, record = Awaiting(req) PROVE record.pc = "awaiting" /\ record.req = req
    BY <1>2 DEF Awaiting
  <1>3. ASSUME NEW req \in Requests, NEW id \in Nat, record = Waiting(req, id)
        PROVE  record.pc = "waiting" /\ record.req = req /\ record.id = id
    BY <1>3 DEF Waiting
  <1>4. ASSUME NEW req \in Requests, NEW answer \in Results, record = Done(req, answer)
        PROVE  record.pc = "done" /\ record.req = req /\ record.answer = answer
    BY <1>4 DEF Done
  <1> QED BY <1>1, <1>2, <1>3, <1>4 DEF CallerTyped

(* A new id stands for the request that is posted, and for nothing else. *)
LEMMA InvokeInv ==
    ASSUME WorkerInv, NEW c \in Callers, Invoke(c)
    PROVE  WorkerInv'
  <1> USE DEF WorkerInv
  <1> DEFINE req == caller[c].req
             posted == [id |-> nextId, req |-> req]
             n == Len(toWorker) + 1
  <1>1. nextId \in Nat /\ caller[c] = Awaiting(req) /\ req \in Requests /\ posted \in Posted
    <2>1. CallerTyped(caller[c]) /\ caller[c].pc = "awaiting" /\ nextId \in Nat
      BY DEF Invoke, TypeOK
    <2> QED BY <2>1, CallerOf DEF Posted
  <1>2. /\ caller' = [d \in Callers |-> caller'[d]]
        /\ caller'[c] = Waiting(req, nextId) /\ \A d \in Callers : d # c => caller'[d] = caller[d]
    BY DEF TypeOK, Invoke, Become
  <1>3. /\ DOMAIN pending' = DOMAIN pending \cup {nextId} /\ pending'[nextId] = c
        /\ \A id \in DOMAIN pending : id # nextId /\ pending'[id] = pending[id]
    BY <1>1 DEF Invoke, AtMostOnce
  <1>4. /\ toWorker' \in Seq(Posted) /\ n \in DOMAIN toWorker' /\ toWorker'[n] = posted
        /\ n \notin DOMAIN toWorker
        /\ \A i \in DOMAIN toWorker : i \in DOMAIN toWorker' /\ toWorker'[i] = toWorker[i]
        /\ \A i \in DOMAIN toWorker' : i \in DOMAIN toWorker \/ i = n
    <2>1. toWorker \in Seq(Posted) /\ toWorker' = Append(toWorker, posted)
      BY DEF TypeOK, Invoke
    <2> QED BY <1>1, <2>1, AppendedLast
  <1>5. /\ nextId' = nextId + 1 /\ nextId' \in Nat
        /\ UNCHANGED <<now, bridge, toPage, digesting, cache>>
    BY <1>1 DEF Invoke
  <1>6. \A id \in DOMAIN pending : pending[id] # c /\ caller'[pending[id]] = caller[pending[id]]
    <2>1. caller[c].pc # "waiting"
      BY DEF Invoke
    <2> QED BY <2>1, <1>2 DEF WaitersPending, TypeOK
  <1> HIDE DEF posted, n, req
  <1>7. CacheInv'
    BY <1>5 DEF CacheInv, Sound, Entries
  <1>8. TypeOK'
    BY <1>1, <1>2, <1>3, <1>4, <1>5 DEF TypeOK, CallerTyped
  <1>9. FailureHasCause'
    BY <1>5 DEF FailureHasCause
  <1>10. AtMostOnce'
    <2>1. /\ \A i \in DOMAIN toWorker : toWorker[i].id \in Nat
          /\ \A msg \in digesting : msg.id \in Nat
          /\ \A i \in DOMAIN toPage : toPage[i].type = "response" => toPage[i].id \in Nat
      <3>1. toWorker \in Seq(Posted) /\ digesting \subseteq Posted /\ TypeOK
        BY DEF TypeOK
      <3>2. \A i \in DOMAIN toWorker : toWorker[i] \in Posted
        BY <3>1
      <3> QED BY <3>1, <3>2, MessageTyped DEF Posted
    <2>2. posted.id = nextId
      BY DEF posted
    <2>3. \A i \in DOMAIN toWorker : toWorker'[i].id # nextId
      BY <1>1, <1>4, <2>1 DEF AtMostOnce
    <2>4. \A msg \in digesting : msg.id # nextId
      BY <1>1, <2>1 DEF AtMostOnce
    <2>5. \A i \in DOMAIN toPage : toPage[i].type = "response" => toPage[i].id # nextId
      BY <1>1, <2>1 DEF AtMostOnce
    <2>6. /\ \A id \in DOMAIN pending' : id \in Nat /\ id < nextId'
          /\ \A i \in DOMAIN toWorker' : toWorker'[i].id < nextId'
          /\ \A msg \in digesting' : msg.id < nextId'
          /\ \A i \in DOMAIN toPage' : toPage'[i].type = "response" => toPage'[i].id < nextId'
      BY <1>1, <1>3, <1>4, <1>5, <2>1, <2>2 DEF AtMostOnce
    <2>7. \A i, j \in DOMAIN toWorker' : toWorker'[i].id = toWorker'[j].id => i = j
      BY <1>4, <2>2, <2>3 DEF AtMostOnce
    <2> QED BY <1>4, <1>5, <2>2, <2>4, <2>5, <2>6, <2>7 DEF AtMostOnce
  <1>11. WaitersPending'
    <2>1. Waiting(req, nextId).pc = "waiting" /\ Waiting(req, nextId).id = nextId
      BY DEF Waiting
    <2> QED BY <1>2, <1>3, <1>6, <2>1 DEF WaitersPending
  <1>12. UnderWay'
    <2> SUFFICES ASSUME NEW id \in DOMAIN pending'
                 PROVE  /\ Requested(id)' # {} \/ Digested(id)' # {} \/ Responded(id)' # {}
                        /\ \A i \in Requested(id)' : toWorker'[i].req = caller'[pending'[id]].req
                        /\ \A msg \in Digested(id)' : msg.req = caller'[pending'[id]].req
                        /\ \A i \in Responded(id)' :
                              toPage'[i].answer \in Bridge!Answers(caller'[pending'[id]].req)
      BY <1>5 DEF UnderWay, Bridge!Answers
    <2>1. posted.id = nextId /\ posted.req = req /\ Waiting(req, nextId).req = req
      BY DEF posted, Waiting
    <2>2. CASE id \in DOMAIN pending
      <3>1. id # nextId /\ caller'[pending'[id]] = caller[pending[id]]
        BY <2>2, <1>3, <1>6
      <3>2. Requested(id)' = Requested(id) /\ \A i \in Requested(id) : toWorker'[i] = toWorker[i]
        BY <2>1, <3>1, <1>4 DEF Requested
      <3>3. Digested(id)' = Digested(id) /\ Responded(id)' = Responded(id)
        BY <1>5 DEF Digested, Responded
      <3> QED BY <2>2, <3>1, <3>2, <3>3, <1>5 DEF UnderWay
    <2>3. CASE id = nextId
      <3>1. Requested(id)' = {n}
        <4>1. \A i \in DOMAIN toWorker : toWorker[i].id # nextId
          BY <1>1 DEF AtMostOnce, TypeOK, Posted
        <4> QED BY <2>1, <2>3, <1>4, <4>1 DEF Requested
      <3>2. Digested(id)' = {} /\ Responded(id)' = {}
        <4>1. \A msg \in digesting : msg.id # nextId
          BY <1>1 DEF AtMostOnce, TypeOK, Posted
        <4>2. \A i \in DOMAIN toPage : toPage[i].type = "response" => toPage[i].id # nextId
          BY <1>1, MessageTyped DEF AtMostOnce
        <4> QED BY <2>3, <1>5, <4>1, <4>2 DEF Digested, Responded
      <3>3. caller'[pending'[id]].req = req
        BY <2>1, <2>3, <1>2, <1>3
      <3> QED BY <2>1, <3>1, <3>2, <3>3, <1>4
    <2> QED BY <2>2, <2>3, <1>3
  <1> QED BY <1>7, <1>8, <1>9, <1>10, <1>11, <1>12

(* A response that is posted takes the place of what was under way for its *)
(* request.                                                                *)
LEMMA RespondInv ==
    ASSUME WorkerInv, NEW msg \in Posted, NEW answer \in Bridge!Answers(msg.req),
           Respond(msg.id, answer),
           \/ msg \in digesting /\ digesting' = digesting \ {msg} /\ UNCHANGED toWorker
           \/ /\ toWorker # <<>> /\ msg = Head(toWorker) /\ toWorker' = Tail(toWorker)
              /\ UNCHANGED digesting,
           CacheInv', UNCHANGED page
    PROVE  WorkerInv'
  <1> USE DEF WorkerInv
  <1> DEFINE response == [type |-> "response", id |-> msg.id, answer |-> answer]
             n == Len(toPage) + 1
  <1>1. /\ response \in Messages /\ msg.id \in Nat
        /\ response.type = "response" /\ response.id = msg.id /\ response.answer = answer
    BY DEF Messages, Posted, Results, Bridge!Answers, Value, Rejected
  <1>2. /\ toPage' \in Seq(Messages) /\ n \in DOMAIN toPage' /\ toPage'[n] = response
        /\ n \notin DOMAIN toPage
        /\ \A i \in DOMAIN toPage : i \in DOMAIN toPage' /\ toPage'[i] = toPage[i]
        /\ \A i \in DOMAIN toPage' : i \in DOMAIN toPage \/ i = n
    <2>1. toPage \in Seq(Messages) /\ toPage' = Append(toPage, response)
      BY DEF TypeOK, Respond
    <2> QED BY <1>1, <2>1, AppendedLast
  <1>3. UNCHANGED <<bridge, nextId, pending, caller>>
    BY DEF page
  <1> HIDE DEF response, n
  <1>4. /\ msg.id < nextId
        /\ \A i \in DOMAIN toPage : toPage[i].type = "response" => toPage[i].id # msg.id
    <2>1. CASE msg \in digesting
      BY <2>1 DEF AtMostOnce
    <2>2. CASE toWorker # <<>> /\ msg = Head(toWorker)
      <3>1. 1 \in DOMAIN toWorker /\ msg = toWorker[1]
        BY <2>2, FirstTaken DEF TypeOK
      <3> QED BY <3>1 DEF AtMostOnce
    <2> QED BY <2>1, <2>2
  <1>5. /\ toWorker' \in Seq(Posted) /\ digesting' \subseteq digesting
        /\ \A m \in digesting' : m.id # msg.id
        /\ \A m \in digesting : m.id # msg.id => m \in digesting'
    <2>1. CASE msg \in digesting /\ digesting' = digesting \ {msg} /\ UNCHANGED toWorker
      BY <2>1 DEF AtMostOnce, TypeOK
    <2>2. CASE toWorker # <<>> /\ msg = Head(toWorker) /\ toWorker' = Tail(toWorker)
               /\ UNCHANGED digesting
      <3>1. 1 \in DOMAIN toWorker /\ msg = toWorker[1] /\ toWorker' \in Seq(Posted)
        BY <2>2, FirstTaken DEF TypeOK
      <3> QED BY <2>2, <3>1 DEF AtMostOnce
    <2> QED BY <2>1, <2>2
  <1>6. /\ \A i \in DOMAIN toWorker' : /\ toWorker'[i].id # msg.id
                                      /\ \E j \in DOMAIN toWorker : toWorker'[i] = toWorker[j]
        /\ \A j \in DOMAIN toWorker :
              toWorker[j].id # msg.id => \E i \in DOMAIN toWorker' : toWorker'[i] = toWorker[j]
        /\ \A i, j \in DOMAIN toWorker' : toWorker'[i].id = toWorker'[j].id => i = j
    <2>1. CASE msg \in digesting /\ UNCHANGED toWorker
      BY <2>1 DEF AtMostOnce
    <2>2. CASE toWorker # <<>> /\ msg = Head(toWorker) /\ toWorker' = Tail(toWorker)
      <3>1. /\ 1 \in DOMAIN toWorker /\ msg = toWorker[1]
            /\ \A i \in DOMAIN toWorker' :
                  i + 1 \in DOMAIN toWorker /\ i + 1 # 1 /\ toWorker'[i] = toWorker[i + 1]
            /\ \A i \in DOMAIN toWorker :
                  i # 1 => i - 1 \in DOMAIN toWorker' /\ toWorker'[i - 1] = toWorker[i]
            /\ \A i, j \in DOMAIN toWorker' : i + 1 = j + 1 => i = j
        BY <2>2, FirstTaken DEF TypeOK
      <3> QED BY <3>1 DEF AtMostOnce
    <2> QED BY <2>1, <2>2
  <1>7. TypeOK'
    BY <1>2, <1>3, <1>5 DEF TypeOK
  <1>8. FailureHasCause'
    BY <1>1, <1>2, <1>3 DEF FailureHasCause
  <1>9. AtMostOnce'
    <2>1. /\ \A id \in DOMAIN pending' : id \in Nat /\ id < nextId'
          /\ \A i \in DOMAIN toWorker' : toWorker'[i].id < nextId'
          /\ \A m \in digesting' : m.id < nextId'
          /\ \A i \in DOMAIN toPage' : toPage'[i].type = "response" => toPage'[i].id < nextId'
      BY <1>1, <1>2, <1>3, <1>4, <1>5, <1>6 DEF AtMostOnce
    <2>2. \A i, j \in DOMAIN toPage' :
             toPage'[i].type = "response" /\ toPage'[j].type = "response" /\ toPage'[i].id = toPage'[j].id
                => i = j
      BY <1>1, <1>2, <1>4 DEF AtMostOnce
    <2>3. /\ \A m, other \in digesting' : m.id = other.id => m = other
          /\ \A i \in DOMAIN toWorker', m \in digesting' : toWorker'[i].id # m.id
      BY <1>5, <1>6 DEF AtMostOnce
    <2>4. /\ \A i \in DOMAIN toWorker', j \in DOMAIN toPage' :
                toPage'[j].type = "response" => toWorker'[i].id # toPage'[j].id
          /\ \A m \in digesting', j \in DOMAIN toPage' :
                toPage'[j].type = "response" => m.id # toPage'[j].id
      BY <1>1, <1>2, <1>5, <1>6 DEF AtMostOnce
    <2> QED BY <1>6, <2>1, <2>2, <2>3, <2>4 DEF AtMostOnce
  <1>10. WaitersPending'
    BY <1>3 DEF WaitersPending
  <1>11. UnderWay'
    <2> SUFFICES ASSUME NEW id \in DOMAIN pending
                 PROVE  /\ Requested(id)' # {} \/ Digested(id)' # {} \/ Responded(id)' # {}
                        /\ \A i \in Requested(id)' : toWorker'[i].req = caller[pending[id]].req
                        /\ \A m \in Digested(id)' : m.req = caller[pending[id]].req
                        /\ \A i \in Responded(id)' :
                              toPage'[i].answer \in Bridge!Answers(caller[pending[id]].req)
      BY <1>3 DEF UnderWay, Bridge!Answers
    <2>1. /\ \A i \in Requested(id)' : toWorker'[i].req = caller[pending[id]].req
          /\ \A m \in Digested(id)' : m.req = caller[pending[id]].req
      BY <1>5, <1>6 DEF UnderWay, Requested, Digested
    <2>2. CASE id = msg.id
      <3>1. Responded(id)' = {n}
        BY <2>2, <1>1, <1>2, <1>4 DEF Responded
      <3>2. msg.req = caller[pending[id]].req
        <4>1. CASE msg \in digesting
          BY <2>2, <4>1 DEF UnderWay, Digested
        <4>2. CASE toWorker # <<>> /\ msg = Head(toWorker)
          <5>1. 1 \in DOMAIN toWorker /\ msg = toWorker[1]
            BY <4>2, FirstTaken DEF TypeOK
          <5> QED BY <2>2, <5>1 DEF UnderWay, Requested
        <4> QED BY <4>1, <4>2
      <3> QED BY <2>1, <3>1, <3>2, <1>1, <1>2
    <2>3. CASE id # msg.id
      <3>1. Responded(id)' = Responded(id) /\ \A i \in Responded(id) : toPage'[i] = toPage[i]
        BY <2>3, <1>1, <1>2 DEF Responded
      <3>2. Requested(id) # {} => Requested(id)' # {}
        BY <2>3, <1>6 DEF Requested
      <3>3. Digested(id) # {} => Digested(id)' # {}
        BY <2>3, <1>5 DEF Digested
      <3> QED BY <2>1, <3>1, <3>2, <3>3 DEF UnderWay
    <2> QED BY <2>2, <2>3
  <1> QED BY <1>7, <1>8, <1>9, <1>10, <1>11

(* What follows once the first message to the page is taken, with the      *)
(* requests that are then still pending                                    *)
LEMMA TakenInv ==
    ASSUME WorkerInv, toPage # <<>>, toPage' = Tail(toPage),
           DOMAIN pending' \subseteq DOMAIN pending,
           \A id \in DOMAIN pending' :
              /\ pending'[id] = pending[id] /\ caller'[pending[id]] = caller[pending[id]]
              /\ Head(toPage).type = "response" => Head(toPage).id # id,
           WaitersPending', caller' = [c \in Callers |-> caller'[c]],
           \A c \in Callers : CallerTyped(caller'[c]),
           bridge' \in {"none", "creating", "ready", "failed"}, bridge' = "failed" => Failures # {},
           UNCHANGED <<now, nextId, toWorker, digesting, cache>>
    PROVE  WorkerInv'
  <1> USE DEF WorkerInv
  <1>1. /\ toPage' \in Seq(Messages) /\ 1 \in DOMAIN toPage /\ Head(toPage) = toPage[1]
        /\ \A i \in DOMAIN toPage' : i + 1 \in DOMAIN toPage /\ i + 1 # 1 /\ toPage'[i] = toPage[i + 1]
        /\ \A i \in DOMAIN toPage : i # 1 => i - 1 \in DOMAIN toPage' /\ toPage'[i - 1] = toPage[i]
        /\ \A i, j \in DOMAIN toPage' : i + 1 = j + 1 => i = j
    BY FirstTaken DEF TypeOK
  <1>2. CacheInv'
    BY DEF CacheInv, Sound, Entries
  <1>3. TypeOK'
    BY <1>1 DEF TypeOK
  <1>4. FailureHasCause'
    BY <1>1 DEF FailureHasCause
  <1>5. AtMostOnce'
    BY <1>1 DEF AtMostOnce
  <1>6. UnderWay'
    <2> SUFFICES ASSUME NEW id \in DOMAIN pending'
                 PROVE  /\ Requested(id)' # {} \/ Digested(id)' # {} \/ Responded(id)' # {}
                        /\ \A i \in Requested(id)' : toWorker'[i].req = caller'[pending'[id]].req
                        /\ \A msg \in Digested(id)' : msg.req = caller'[pending'[id]].req
                        /\ \A i \in Responded(id)' :
                              toPage'[i].answer \in Bridge!Answers(caller'[pending'[id]].req)
      BY DEF UnderWay, Bridge!Answers
    <2>5. caller'[pending'[id]] = caller[pending[id]]
      OBVIOUS
    <2>1. id \in DOMAIN pending /\ (toPage[1].type = "response" => toPage[1].id # id)
      BY <1>1
    <2>2. Requested(id)' = Requested(id) /\ Digested(id)' = Digested(id)
      BY DEF Requested, Digested
    <2>3. \A i \in Responded(id)' : i + 1 \in Responded(id) /\ toPage'[i] = toPage[i + 1]
      BY <1>1 DEF Responded
    <2>4. \A i \in Responded(id) : i - 1 \in Responded(id)'
      BY <1>1, <2>1 DEF Responded
    <2>6. /\ Requested(id)' # {} \/ Digested(id)' # {} \/ Responded(id)' # {}
          /\ \A i \in Requested(id)' : toWorker'[i].req = caller[pending[id]].req
          /\ \A msg \in Digested(id)' : msg.req = caller[pending[id]].req
      BY <2>1, <2>2, <2>4 DEF UnderWay
    <2>7. \A i \in Responded(id)' : toPage'[i].answer \in Bridge!Answers(caller[pending[id]].req)
      BY <2>1, <2>3 DEF UnderWay
    <2> QED BY <2>5, <2>6, <2>7
  <1> QED BY <1>2, <1>3, <1>4, <1>5, <1>6

LEMMA DeliverInv == ASSUME WorkerInv, Deliver PROVE WorkerInv'
  <1> USE DEF WorkerInv
  <1> DEFINE msg == Head(toPage)
  <1>1. /\ toPage # <<>> /\ toPage' = Tail(toPage) /\ 1 \in DOMAIN toPage /\ msg = toPage[1]
        /\ UNCHANGED <<now, nextId, toWorker, digesting, cache>>
    BY FirstTaken DEF Deliver, TypeOK
  <1>2. CASE /\ msg.type \in {"ready", "init-error"}
             /\ bridge' = IF bridge # "creating" THEN bridge
                          ELSE IF msg.type = "ready" THEN "ready" ELSE "failed"
             /\ UNCHANGED <<pending, caller>>
    <2>1. bridge' \in {"none", "creating", "ready", "failed"} /\ (bridge' = "failed" => Failures # {})
      BY <1>1, <1>2 DEF TypeOK, FailureHasCause
    <2>2. WaitersPending' /\ caller' = [c \in Callers |-> caller'[c]]
          /\ \A c \in Callers : CallerTyped(caller'[c])
      BY <1>2 DEF WaitersPending, TypeOK
    <2> QED BY <1>1, <1>2, <2>1, <2>2, TakenInv
  <1>3. CASE msg.type = "response" /\ msg.id \notin DOMAIN pending /\ UNCHANGED <<bridge, pending, caller>>
    <2>1. bridge' \in {"none", "creating", "ready", "failed"} /\ (bridge' = "failed" => Failures # {})
      BY <1>3 DEF TypeOK, FailureHasCause
    <2>2. WaitersPending' /\ caller' = [c \in Callers |-> caller'[c]]
          /\ \A c \in Callers : CallerTyped(caller'[c])
      BY <1>3 DEF WaitersPending, TypeOK
    <2> QED BY <1>1, <1>3, <2>1, <2>2, TakenInv
  <1>4. CASE /\ msg.type = "response" /\ msg.id \in DOMAIN pending
             /\ pending' = [id \in DOMAIN pending \ {msg.id} |-> pending[id]]
             /\ Become(pending[msg.id], Done(caller[pending[msg.id]].req, msg.answer))
             /\ UNCHANGED bridge
    <2> DEFINE c == pending[msg.id]
               answered == Done(caller[c].req, msg.answer)
    <2>1. c \in Callers /\ caller[c].pc = "waiting" /\ caller[c].id = msg.id
      BY <1>4 DEF WaitersPending, TypeOK
    <2>2. caller[c].req \in Requests /\ msg.answer \in Results
      BY <1>1, <1>4, <2>1, CallerOf, MessageTyped DEF TypeOK
    <2>3. CallerTyped(answered) /\ answered.pc = "done"
      BY <2>2 DEF CallerTyped, Done
    <2>4. /\ caller' = [d \in Callers |-> caller'[d]]
          /\ caller'[c] = answered /\ \A d \in Callers : d # c => caller'[d] = caller[d]
      BY <1>4, <2>1 DEF TypeOK, Become
    <2>5. /\ DOMAIN pending' = DOMAIN pending \ {msg.id}
          /\ \A id \in DOMAIN pending' : pending'[id] = pending[id]
      BY <1>4
    <2> HIDE DEF answered
    <2>6. \A id \in DOMAIN pending' : pending[id] \in Callers /\ pending[id] # c
      BY <2>1, <2>5 DEF WaitersPending, TypeOK
    <2>7. WaitersPending'
      BY <2>1, <2>3, <2>4, <2>5, <2>6 DEF WaitersPending
    <2>8. \A d \in Callers : CallerTyped(caller'[d])
      BY <2>3, <2>4 DEF TypeOK
    <2>9. bridge' \in {"none", "creating", "ready", "failed"} /\ (bridge' = "failed" => Failures # {})
      BY <1>4 DEF TypeOK, FailureHasCause
    <2> HIDE DEF c
    <2> QED BY <1>1, <2>4, <2>5, <2>6, <2>7, <2>8, <2>9, TakenInv
  <1> QED BY <1>2, <1>3, <1>4 DEF Deliver

(* Nothing is pending afterwards, and nobody waits. *)
LEMMA ErrorEventInv == ASSUME WorkerInv, ErrorEvent PROVE WorkerInv'
  <1> USE DEF WorkerInv
  <1>1. /\ "error" \in Failures /\ DOMAIN pending' = {}
        /\ bridge' = IF bridge = "creating" THEN "failed" ELSE bridge
        /\ UNCHANGED <<now, nextId, toWorker, toPage, digesting, cache>>
    BY DEF ErrorEvent
  <1>2. \A c \in Callers :
           /\ caller[c].pc = "waiting" => caller'[c] = Done(caller[c].req, Rejected)
           /\ caller[c].pc # "waiting" => caller'[c] = caller[c]
    BY DEF ErrorEvent, WaitersPending
  <1>3. \A c \in Callers : CallerTyped(caller'[c]) /\ caller'[c].pc # "waiting"
    <2> SUFFICES ASSUME NEW c \in Callers PROVE CallerTyped(caller'[c]) /\ caller'[c].pc # "waiting"
      OBVIOUS
    <2>1. CASE caller[c].pc = "waiting"
      <3>1. caller[c].req \in Requests
        BY <2>1, CallerOf DEF TypeOK
      <3>2. CallerTyped(Done(caller[c].req, Rejected)) /\ Done(caller[c].req, Rejected).pc = "done"
        <4>1. Rejected \in Results
          BY DEF Results
        <4> QED BY <3>1, <4>1 DEF CallerTyped, Done
      <3> QED BY <1>2, <2>1, <3>2
    <2>2. CASE caller[c].pc # "waiting"
      BY <1>2, <2>2 DEF TypeOK
    <2> QED BY <2>1, <2>2
  <1>4. TypeOK'
    BY <1>1, <1>3 DEF TypeOK, ErrorEvent
  <1>5. CacheInv'
    BY <1>1 DEF CacheInv, Sound, Entries
  <1>6. FailureHasCause' /\ AtMostOnce'
    BY <1>1 DEF FailureHasCause, AtMostOnce
  <1>7. WaitersPending' /\ UnderWay'
    BY <1>1, <1>3 DEF WaitersPending, UnderWay
  <1> QED BY <1>4, <1>5, <1>6, <1>7

LEMMA ReloadInv == ASSUME WorkerInv, Reload PROVE WorkerInv'
  <1> USE DEF Reload
  <1>1. CacheInv'
    BY CacheAssumption DEF WorkerInv, CacheInv, Sound
  <1>2. TypeOK'
    BY DEF TypeOK, CallerTyped
  <1>3. FailureHasCause' /\ AtMostOnce' /\ WaitersPending' /\ UnderWay'
    BY DEF FailureHasCause, AtMostOnce, WaitersPending, UnderWay, Idle
  <1> QED BY <1>1, <1>2, <1>3 DEF WorkerInv

(* The message of the worker that it is there, or is not, answers nobody.  *)
LEMMA LoadInv == ASSUME WorkerInv, Load PROVE WorkerInv'
  <1> USE DEF WorkerInv
  <1> DEFINE n == Len(toPage) + 1
  <1>1. PICK msg \in {[type |-> "ready"], [type |-> "init-error"]} :
           /\ msg.type = "init-error" => Failures # {}
           /\ toPage' = Append(toPage, msg)
    BY DEF Load
  <1>2. msg \in Messages /\ msg.type # "response"
    BY DEF Messages
  <1>3. /\ toPage' \in Seq(Messages) /\ n \in DOMAIN toPage' /\ toPage'[n] = msg
        /\ n \notin DOMAIN toPage
        /\ \A i \in DOMAIN toPage : i \in DOMAIN toPage' /\ toPage'[i] = toPage[i]
        /\ \A i \in DOMAIN toPage' : i \in DOMAIN toPage \/ i = n
    BY <1>1, <1>2, AppendedLast DEF TypeOK
  <1> HIDE DEF n
  <1>4. UNCHANGED <<now, bridge, nextId, pending, caller, toWorker, digesting, cache>>
    BY DEF Load, page
  <1>5. CacheInv' /\ TypeOK'
    BY <1>3, <1>4 DEF CacheInv, Sound, Entries, TypeOK
  <1>6. FailureHasCause'
    BY <1>1, <1>3, <1>4 DEF FailureHasCause
  <1>7. AtMostOnce'
    BY <1>2, <1>3, <1>4 DEF AtMostOnce
  <1>8. WaitersPending'
    BY <1>4 DEF WaitersPending
  <1>9. UnderWay'
    <2>1. \A id : /\ Responded(id)' = Responded(id)
                  /\ \A i \in Responded(id) : toPage'[i] = toPage[i]
      BY <1>2, <1>3 DEF Responded
    <2>2. \A id : Requested(id)' = Requested(id) /\ Digested(id)' = Digested(id)
      BY <1>4 DEF Requested, Digested
    <2> QED BY <1>4, <2>1, <2>2 DEF UnderWay, Bridge!Answers
  <1> QED BY <1>5, <1>6, <1>7, <1>8, <1>9

(* A decryption goes from the messages to the digests. *)
LEMMA DigestInv ==
    ASSUME WorkerInv, toWorker # <<>>, toWorker' = Tail(toWorker),
           digesting' = digesting \cup {Head(toWorker)},
           UNCHANGED <<now, page, toPage, cache>>
    PROVE  WorkerInv'
  <1> USE DEF WorkerInv
  <1> DEFINE msg == Head(toWorker)
  <1>1. /\ toWorker' \in Seq(Posted) /\ 1 \in DOMAIN toWorker /\ msg = toWorker[1] /\ msg \in Posted
        /\ \A i \in DOMAIN toWorker' : i + 1 \in DOMAIN toWorker /\ i + 1 # 1 /\ toWorker'[i] = toWorker[i + 1]
        /\ \A i \in DOMAIN toWorker : i # 1 => i - 1 \in DOMAIN toWorker' /\ toWorker'[i - 1] = toWorker[i]
        /\ \A i, j \in DOMAIN toWorker' : i + 1 = j + 1 => i = j
    BY FirstTaken DEF TypeOK
  <1>2. UNCHANGED <<now, bridge, nextId, pending, caller, toPage, cache>>
    BY DEF page
  <1>3. CacheInv' /\ TypeOK' /\ FailureHasCause' /\ WaitersPending'
    BY <1>1, <1>2 DEF CacheInv, Sound, Entries, TypeOK, FailureHasCause, WaitersPending
  <1> HIDE DEF msg
  <1>4. digesting' = digesting \cup {msg}
    BY DEF msg
  <1>5. AtMostOnce'
    <2>1. \A i \in DOMAIN toWorker' : toWorker'[i].id # msg.id
      BY <1>1 DEF AtMostOnce
    <2>2. \A m \in digesting : m.id # msg.id
      BY <1>1 DEF AtMostOnce
    <2>3. /\ \A id \in DOMAIN pending' : id \in Nat /\ id < nextId'
          /\ \A i \in DOMAIN toWorker' : toWorker'[i].id < nextId'
          /\ \A m \in digesting' : m.id < nextId'
          /\ \A i \in DOMAIN toPage' : toPage'[i].type = "response" => toPage'[i].id < nextId'
      BY <1>1, <1>2, <1>4 DEF AtMostOnce
    <2>4. /\ \A i, j \in DOMAIN toWorker' : toWorker'[i].id = toWorker'[j].id => i = j
          /\ \A m, other \in digesting' : m.id = other.id => m = other
          /\ \A i \in DOMAIN toWorker', m \in digesting' : toWorker'[i].id # m.id
      BY <1>1, <1>4, <2>1, <2>2 DEF AtMostOnce
    <2>5. /\ \A i \in DOMAIN toWorker', j \in DOMAIN toPage' :
                toPage'[j].type = "response" => toWorker'[i].id # toPage'[j].id
          /\ \A m \in digesting', j \in DOMAIN toPage' :
                toPage'[j].type = "response" => m.id # toPage'[j].id
          /\ \A i, j \in DOMAIN toPage' :
                toPage'[i].type = "response" /\ toPage'[j].type = "response" /\ toPage'[i].id = toPage'[j].id
                   => i = j
      BY <1>1, <1>2, <1>4 DEF AtMostOnce
    <2> QED BY <2>3, <2>4, <2>5 DEF AtMostOnce
  <1>6. UnderWay'
    <2> SUFFICES ASSUME NEW id \in DOMAIN pending
                 PROVE  /\ Requested(id)' # {} \/ Digested(id)' # {} \/ Responded(id)' # {}
                        /\ \A i \in Requested(id)' : toWorker'[i].req = caller[pending[id]].req
                        /\ \A m \in Digested(id)' : m.req = caller[pending[id]].req
                        /\ \A i \in Responded(id)' :
                              toPage'[i].answer \in Bridge!Answers(caller[pending[id]].req)
      BY <1>2 DEF UnderWay, Bridge!Answers
    <2>1. \A i \in Requested(id)' : i + 1 \in Requested(id) /\ toWorker'[i] = toWorker[i + 1]
      BY <1>1 DEF Requested
    <2>2. \A i \in Requested(id) : i - 1 \in Requested(id)' \/ (i = 1 /\ msg \in Digested(id)')
      BY <1>1, <1>4 DEF Requested, Digested
    <2>3. /\ Digested(id) \subseteq Digested(id)' /\ Responded(id)' = Responded(id)
          /\ \A m \in Digested(id)' : m \in Digested(id) \/ (m = msg /\ 1 \in Requested(id))
      BY <1>1, <1>2, <1>4 DEF Digested, Requested, Responded
    <2>4. Requested(id)' # {} \/ Digested(id)' # {} \/ Responded(id)' # {}
      BY <2>2, <2>3 DEF UnderWay
    <2>5. \A i \in Requested(id)' : toWorker'[i].req = caller[pending[id]].req
      BY <2>1 DEF UnderWay
    <2>6. \A m \in Digested(id)' : m.req = caller[pending[id]].req
      BY <1>1, <2>3 DEF UnderWay
    <2>7. \A i \in Responded(id)' : toPage'[i].answer \in Bridge!Answers(caller[pending[id]].req)
      BY <1>2, <2>3 DEF UnderWay
    <2> QED BY <2>4, <2>5, <2>6, <2>7
  <1> QED BY <1>3, <1>5, <1>6

(* What the WASM answers is an answer of the bridge. *)
LEMMA ExecutedAnswers == ASSUME NEW req PROVE Executed(req) \in Bridge!Answers(req)
  BY DEF Executed, Value, Rejected, Bridge!Answers

LEMMA ReceiveInv == ASSUME WorkerInv, Receive PROVE WorkerInv'
  <1> DEFINE msg == Head(toWorker)
  <1>1. toWorker # <<>> /\ toWorker' = Tail(toWorker) /\ UNCHANGED <<now, page, cache>>
    BY DEF Receive
  <1>2. msg \in Posted
    BY <1>1, FirstTaken DEF WorkerInv, TypeOK
  <1>3. CacheInv'
    BY <1>1 DEF WorkerInv, CacheInv, Sound, Entries
  <1>4. CASE digesting' = digesting \cup {msg} /\ UNCHANGED toPage
    BY <1>1, <1>4, DigestInv
  <1>5. CASE Respond(msg.id, Executed(msg.req)) /\ UNCHANGED digesting
    <2>1. Executed(msg.req) \in Bridge!Answers(msg.req)
      BY ExecutedAnswers
    <2> HIDE DEF msg
    <2>2. msg = Head(toWorker)
      BY DEF msg
    <2> QED BY <1>1, <1>2, <1>3, <1>5, <2>1, <2>2, RespondInv
  <1> QED BY <1>4, <1>5 DEF Receive

(* A hit is the one entry of its key, and what decryption gave. *)
LEMMA HitSound ==
    ASSUME CacheInv, NEW key, Hit(key)
    PROVE  CachedValue(key) = Executed(key) /\ CachedValue(key) # Rejected
  <1> DEFINE i == CHOOSE i \in Live(key) : TRUE
  <1>1. i \in DOMAIN cache /\ cache[i].key = key /\ CachedValue(key) = cache[i].value
    BY DEF Hit, Live, Matches, CachedValue
  <1> QED BY <1>1 DEF CacheInv, Sound

(* A decryption leaves the cache sound, and gives an answer of the bridge, *)
(* from the cache or not.                                                  *)
LEMMA DecryptInv == ASSUME WorkerInv, NEW msg, Decrypt(msg) PROVE WorkerInv'
  <1>1. /\ msg \in digesting /\ digesting' = digesting \ {msg} /\ UNCHANGED <<now, page, toWorker>>
        /\ msg \in Posted
    BY DEF Decrypt, WorkerInv, TypeOK
  <1> DEFINE key == msg.req
             left == Deleted(cache, key)
  <1>2. key \in Requests
    BY <1>1 DEF Posted
  <1>3. now \in Int /\ Sound(cache) /\ Len(cache) <= MaxEntries /\ Len(cache) \in Nat /\ MaxEntries \in Nat
    BY CacheAssumption DEF WorkerInv, CacheInv, Sound
  <1>4. Sound(left) /\ Lacks(left, key) /\ Len(left) <= Len(cache) /\ Len(left) \in Nat
    <2>1. Sound(left) /\ Lacks(left, key) /\ Len(left) <= Len(cache)
      BY <1>3, DeletedSound
    <2> QED BY <2>1 DEF Sound
  <1>5. CASE /\ Hit(key) /\ cache' = Touched(key) /\ Respond(msg.id, CachedValue(key))
    <2> DEFINE value == CachedValue(key)
    <2>1. value = Executed(key) /\ value # Rejected
      BY <1>5, HitSound DEF WorkerInv
    <2>2. cache' = Append(left, Entry(key, value))
      BY <1>5 DEF Touched
    <2>3. Len(left) + 1 <= MaxEntries
      <3>1. PICK i \in DOMAIN cache : cache[i].key = key
        BY <1>5 DEF Hit, Live, Matches
      <3>2. Len(left) = Len(cache) - 1
        BY <1>3, <3>1, RemoveAtProperties DEF Deleted, Matches, Sound
      <3> QED BY <1>3, <3>2
    <2> HIDE DEF value, left, key
    <2>4. Sound(cache') /\ Len(cache') = Len(left) + 1
      BY <1>2, <1>3, <1>4, <2>1, <2>2, AppendedSound
    <2>5. CacheInv'
      BY <1>1, <1>3, <1>4, <2>3, <2>4 DEF CacheInv, Sound, Entries
    <2>6. value \in Bridge!Answers(msg.req)
      BY <2>1, ExecutedAnswers DEF key
    <2> QED BY <1>1, <1>5, <2>5, <2>6, RespondInv DEF value, key
  <1>6. CASE /\ cache' = IF Executed(key) = Rejected THEN left ELSE Added(left, key, Executed(key))
             /\ Respond(msg.id, Executed(key))
    <2>1. Sound(cache') /\ Len(cache') <= MaxEntries
      <3>1. CASE Executed(key) = Rejected
        BY <1>3, <1>4, <1>6, <3>1
      <3>2. CASE Executed(key) # Rejected
        <4> DEFINE again == Deleted(left, key)
                   longer == Append(again, Entry(key, Executed(key)))
        <4>1. cache' = IF Len(longer) > MaxEntries THEN Tail(longer) ELSE longer
          BY <1>6, <3>2 DEF Added
        <4>2. Sound(again) /\ Lacks(again, key) /\ Len(again) <= Len(left) /\ Len(again) \in Nat
          <5> HIDE DEF left, key
          <5>1. Sound(again) /\ Lacks(again, key) /\ Len(again) <= Len(left)
            BY <1>4, DeletedSound
          <5> QED BY <5>1 DEF Sound
        <4>3. Sound(longer) /\ Len(longer) = Len(again) + 1
          <5> HIDE DEF again, key
          <5> QED BY <1>2, <1>3, <3>2, <4>2, AppendedSound
        <4> HIDE DEF longer, again, left, key
        <4>4. Len(longer) <= MaxEntries + 1 /\ Len(longer) \in Nat /\ Len(longer) > 0
          BY <1>3, <1>4, <4>2, <4>3
        <4>5. CASE Len(longer) > MaxEntries
          <5>1. Sound(Tail(longer)) /\ Len(Tail(longer)) = Len(longer) - 1
            BY <4>3, <4>4, EvictedSound
          <5> QED BY <1>3, <4>1, <4>4, <4>5, <5>1
        <4>6. CASE ~ (Len(longer) > MaxEntries)
          BY <1>3, <4>1, <4>3, <4>4, <4>6
        <4> QED BY <4>5, <4>6
      <3> QED BY <3>1, <3>2
    <2>2. CacheInv'
      BY <1>1, <1>3, <2>1 DEF CacheInv, Sound, Entries
    <2>3. Executed(msg.req) \in Bridge!Answers(msg.req)
      BY ExecutedAnswers
    <2> QED BY <1>1, <1>6, <2>2, <2>3, RespondInv
  <1> QED BY <1>5, <1>6 DEF Decrypt

LEMMA DigestFailsInv == ASSUME WorkerInv, NEW msg, DigestFails(msg) PROVE WorkerInv'
  <1>1. /\ msg \in digesting /\ digesting' = digesting \ {msg} /\ UNCHANGED <<now, page, toWorker, cache>>
        /\ msg \in Posted /\ Failures # {} /\ Respond(msg.id, Rejected)
    BY DEF DigestFails, WorkerInv, TypeOK
  <1>2. Rejected \in Bridge!Answers(msg.req)
    BY <1>1 DEF Rejected, Bridge!Answers
  <1>3. CacheInv'
    BY <1>1 DEF WorkerInv, CacheInv, Sound, Entries
  <1> QED BY <1>1, <1>2, <1>3, RespondInv

LEMMA TickInv == ASSUME WorkerInv, Tick PROVE WorkerInv'
  <1>1. /\ now' = now + 1
        /\ UNCHANGED <<bridge, nextId, pending, caller, toWorker, toPage, digesting, cache>>
    BY DEF Tick, page
  <1>2. CacheInv'
    <2>1. now \in Int /\ Sound(cache) /\ Ttl \in Int
      BY CacheAssumption DEF WorkerInv, CacheInv
    <2>2. \A i \in DOMAIN cache : cache[i].expires \in Int /\ cache[i].expires <= now + Ttl
      <3>1. \A i \in DOMAIN cache : cache[i] \in Entries
        BY <2>1 DEF Sound
      <3> QED BY <2>1, <3>1 DEF Sound, Entries
    <2>3. \A i \in DOMAIN cache : cache[i].expires <= now' + Ttl
      BY <1>1, <2>1, <2>2
    <2> QED BY <1>1, <2>1, <2>3 DEF WorkerInv, CacheInv, Sound, Entries
  <1>3. TypeOK'
    BY <1>1 DEF WorkerInv, TypeOK
  <1>4. FailureHasCause' /\ WaitersPending'
    BY <1>1 DEF WorkerInv, FailureHasCause, WaitersPending
  <1>5. AtMostOnce'
    BY <1>1 DEF WorkerInv, AtMostOnce
  <1>6. UnderWay'
    BY <1>1 DEF WorkerInv, UnderWay, Requested, Digested, Responded, Bridge!Answers
  <1> QED BY <1>2, <1>3, <1>4, <1>5, <1>6 DEF WorkerInv

LEMMA CallInv == ASSUME WorkerInv, NEW c \in Callers, Call(c) PROVE WorkerInv'
  <1>1. PICK req \in Requests : Become(c, Awaiting(req))
    BY DEF Call
  <1>2. CallerTyped(Awaiting(req)) /\ Awaiting(req).pc = "awaiting" /\ caller[c].pc = "idle"
    BY DEF Call, CallerTyped, Awaiting, Idle
  <1>3. bridge' \in {"none", "creating", "ready", "failed"} /\ (bridge' = "failed" => Failures # {})
    BY DEF Call, WorkerInv, TypeOK, FailureHasCause
  <1>4. UNCHANGED <<now, nextId, pending, toWorker, toPage, digesting, cache>>
    BY DEF Call
  <1> QED BY <1>1, <1>2, <1>3, <1>4, CallerInv

LEMMA NoBridgeInv == ASSUME WorkerInv, NEW c \in Callers, NoBridge(c) PROVE WorkerInv'
  <1> DEFINE rejection == Done(caller[c].req, Rejected)
  <1>1. caller[c].req \in Requests
    BY CallerOf DEF NoBridge, WorkerInv, TypeOK
  <1>2. CallerTyped(rejection) /\ rejection.pc = "done"
    <2>1. Rejected \in Results
      BY DEF Results
    <2> QED BY <1>1, <2>1 DEF CallerTyped, Done
  <1>3. bridge' \in {"none", "creating", "ready", "failed"} /\ (bridge' = "failed" => Failures # {})
    BY DEF NoBridge, WorkerInv, TypeOK, FailureHasCause
  <1>4. /\ caller[c].pc # "waiting" /\ Become(c, rejection)
        /\ UNCHANGED <<now, nextId, pending, toWorker, toPage, digesting, cache>>
    BY DEF NoBridge
  <1> QED BY <1>2, <1>3, <1>4, CallerInv

LEMMA ReturnInv == ASSUME WorkerInv, NEW c \in Callers, Return(c) PROVE WorkerInv'
  <1>1. CallerTyped(Idle) /\ Idle.pc = "idle"
    BY DEF CallerTyped, Idle
  <1>2. bridge' \in {"none", "creating", "ready", "failed"} /\ (bridge' = "failed" => Failures # {})
    BY DEF Return, WorkerInv, TypeOK, FailureHasCause
  <1>3. /\ caller[c].pc # "waiting" /\ Become(c, Idle)
        /\ UNCHANGED <<now, nextId, pending, toWorker, toPage, digesting, cache>>
    BY DEF Return
  <1> QED BY <1>1, <1>2, <1>3, CallerInv

LEMMA NextInv == WorkerInv /\ [Next]_vars => WorkerInv'
  <1> SUFFICES ASSUME WorkerInv, [Next]_vars PROVE WorkerInv'
    OBVIOUS
  <1>1. CASE PageStep
    BY <1>1, DeliverInv, InvokeInv, NoBridgeInv DEF PageStep
  <1>2. CASE WorkerStep
    BY <1>2, LoadInv, ReceiveInv, DecryptInv, DigestFailsInv DEF WorkerStep
  <1>3. CASE \E c \in Callers : Call(c) \/ Return(c)
    BY <1>3, CallInv, ReturnInv
  <1>4. CASE ErrorEvent \/ Reload \/ Tick
    BY <1>4, ErrorEventInv, ReloadInv, TickInv
  <1>5. CASE UNCHANGED vars
    <2>1. UNCHANGED <<now, bridge, nextId, pending, caller, toWorker, toPage, digesting, cache>>
      BY <1>5 DEF vars
    <2>2. CacheInv'
      BY <2>1 DEF WorkerInv, CacheInv, Sound, Entries
    <2>3. TypeOK' /\ FailureHasCause'
      BY <2>1 DEF WorkerInv, TypeOK, FailureHasCause
    <2>4. AtMostOnce' /\ WaitersPending'
      BY <2>1 DEF WorkerInv, AtMostOnce, WaitersPending
    <2>5. UnderWay'
      BY <2>1 DEF WorkerInv, UnderWay, Requested, Digested, Responded, Bridge!Answers
    <2> QED BY <2>2, <2>3, <2>4, <2>5 DEF WorkerInv
  <1> QED BY <1>1, <1>2, <1>3, <1>4, <1>5 DEF Next

(* The cache, the messages and the callers fit together, in every state.   *)
THEOREM WorkerInvariant == Spec => []WorkerInv
  BY InitInv, NextInv, PTL DEF Spec

----------------------------------------------------------------------------
(* What follows from the invariant *)

(* The plaintext cache never answers with anything but what decryption     *)
(* gives, keeps its capacity, and evicts what was not used for longest.    *)
THEOREM CacheCorrect == Spec => []CacheSound
  <1>1. WorkerInv => CacheSound
    BY DEF WorkerInv, CacheInv, Sound, CacheSound
  <1> QED BY <1>1, WorkerInvariant, PTL

(* A set whose elements are all the same has at most one. *)
LEMMA AtMostOneElement ==
    ASSUME NEW S, \A x, y \in S : x = y
    PROVE  Cardinality(S) = IF S = {} THEN 0 ELSE 1
  <1>1. CASE S = {}
    BY <1>1, FS_EmptySet
  <1>2. ASSUME NEW x \in S PROVE Cardinality(S) = 1
    <2>1. S = {x}
      OBVIOUS
    <2> QED BY <2>1, FS_Singleton
  <1> QED BY <1>1, <1>2

(* Exactly one thing is under way for every pending request, whatever      *)
(* overtakes what, and whatever fails.                                     *)
THEOREM RequestsAccounted == Spec => []RequestsOnTheirWay
  <1> SUFFICES WorkerInv => RequestsOnTheirWay
    BY WorkerInvariant, PTL
  <1> SUFFICES ASSUME WorkerInv PROVE RequestsOnTheirWay
    OBVIOUS
  <1> USE DEF WorkerInv
  <1>1. ASSUME NEW id \in DOMAIN pending
        PROVE  Cardinality(Requested(id)) + Cardinality(Digested(id)) + Cardinality(Responded(id)) = 1
    <2>1. Cardinality(Requested(id)) = IF Requested(id) = {} THEN 0 ELSE 1
      <3>1. \A i, j \in Requested(id) : i = j
        BY DEF AtMostOnce, Requested
      <3> QED BY <3>1, AtMostOneElement
    <2>2. Cardinality(Digested(id)) = IF Digested(id) = {} THEN 0 ELSE 1
      <3>1. \A m, n \in Digested(id) : m = n
        BY DEF AtMostOnce, Digested
      <3> QED BY <3>1, AtMostOneElement
    <2>3. Cardinality(Responded(id)) = IF Responded(id) = {} THEN 0 ELSE 1
      <3>1. \A i, j \in Responded(id) : i = j
        BY DEF AtMostOnce, Responded
      <3> QED BY <3>1, AtMostOneElement
    <2>4. /\ Requested(id) = {} \/ Digested(id) = {}
          /\ Requested(id) = {} \/ Responded(id) = {}
          /\ Digested(id) = {} \/ Responded(id) = {}
      BY DEF AtMostOnce, Requested, Digested, Responded
    <2>5. Requested(id) # {} \/ Digested(id) # {} \/ Responded(id) # {}
      BY DEF UnderWay
    <2> QED BY <2>1, <2>2, <2>3, <2>4, <2>5
  <1>2. ASSUME NEW id \in nextId .. MaxRequests
        PROVE  Requested(id) = {} /\ Digested(id) = {} /\ Responded(id) = {}
    <2>1. nextId \in Nat /\ id \in Int /\ ~ (id < nextId)
      BY BoundsAssumption DEF TypeOK
    <2> QED BY <2>1 DEF AtMostOnce, Requested, Digested, Responded
  <1>3. \A c \in Callers : caller[c].pc = "waiting" =>
           caller[c].id \in DOMAIN pending /\ pending[caller[c].id] = c
    BY DEF WaitersPending
  <1>4. \A id \in DOMAIN pending : caller[pending[id]].pc = "waiting" /\ caller[pending[id]].id = id
    BY DEF WaitersPending
  <1>5. \A id \in DOMAIN pending :
           /\ id < nextId
           /\ \A i \in Requested(id) : toWorker[i].req = caller[pending[id]].req
           /\ \A msg \in Digested(id) : msg.req = caller[pending[id]].req
    BY DEF AtMostOnce, UnderWay
  <1> QED BY <1>1, <1>2, <1>3, <1>4, <1>5 DEF RequestsOnTheirWay

----------------------------------------------------------------------------
(* The refinement *)

(* What the bridge sees of the callers *)
SeenOf(record) ==
    IF record.pc \in {"awaiting", "waiting"} THEN Bridge!Asking(record.req) ELSE record

Seen == [c \in Callers |-> IF caller[c].pc \in {"awaiting", "waiting"}
                           THEN [pc |-> "asking", req |-> caller[c].req] ELSE caller[c]]

LEMMA SeenSame ==
    ASSUME UNCHANGED caller PROVE UNCHANGED Seen
  BY DEF Seen

LEMMA SeenOne ==
    ASSUME TypeOK, NEW c \in Callers, NEW record, Become(c, record)
    PROVE  Seen' = [Seen EXCEPT ![c] = SeenOf(record)]
  BY DEF Seen, SeenOf, Become, TypeOK, Bridge!Asking

(* The answer of one caller is a step of the bridge. *)
LEMMA AnswerOne ==
    ASSUME TypeOK, NEW c \in Callers, caller[c].pc \in {"awaiting", "waiting"},
           NEW answer \in Bridge!Answers(caller[c].req), Become(c, Done(caller[c].req, answer))
    PROVE  Bridge!Answer
  <1> DEFINE req == caller[c].req
  <1>1. req \in Requests
    BY CallerOf DEF TypeOK
  <1>2. Seen[c] = Bridge!Asking(req) /\ Bridge!Asking(req).req = req
    BY DEF Seen, Bridge!Asking
  <1>3. Seen' = [d \in Callers |-> IF d \in {c} THEN Bridge!Done(Seen[d].req, [e \in {c} |-> answer][d]) ELSE Seen[d]]
    <2>1. Seen' = [Seen EXCEPT ![c] = Done(req, answer)]
      BY SeenOne DEF SeenOf, Done
    <2> QED BY <1>2, <2>1 DEF Seen, Done, Bridge!Done
  <1>4. [e \in {c} |-> answer] \in [{c} -> UNION {Bridge!Answers(r) : r \in Requests}]
    BY <1>1
  <1>5. {c} \in (SUBSET Callers) \ {{}}
    OBVIOUS
  <1>6. \A d \in {c} : [e \in {c} |-> answer][d] \in Bridge!Answers(Seen[d].req)
    BY <1>2
  <1>7. \A d \in {c} : \E r \in Requests : Seen[d] = Bridge!Asking(r)
    BY <1>1, <1>2
  <1> QED BY <1>3, <1>4, <1>5, <1>6, <1>7 DEF Bridge!Answer, Seen

(* All that are pending are rejected together, in one step of the bridge.  *)
LEMMA RejectAll ==
    ASSUME WorkerInv, ErrorEvent
    PROVE  Bridge!Answer \/ UNCHANGED Seen
  <1> USE DEF WorkerInv
  <1> DEFINE who == {c \in Callers : caller[c].pc = "waiting"}
             answer == [c \in who |-> Rejected]
  <1>1. /\ Failures # {}
        /\ \A c \in Callers : caller'[c] = IF c \in who THEN Done(caller[c].req, Rejected) ELSE caller[c]
        /\ caller' = [c \in Callers |-> caller'[c]]
    BY DEF ErrorEvent, WaitersPending
  <1>2. CASE who = {}
    BY <1>1, <1>2 DEF Seen
  <1>3. CASE who # {}
    <2>1. \A c \in who : /\ caller[c].req \in Requests /\ c \in Callers
                         /\ Seen[c] = Bridge!Asking(caller[c].req)
                         /\ Seen[c].req = caller[c].req
      BY CallerOf DEF TypeOK, Seen, Bridge!Asking
    <2>2. \A req : Rejected \in Bridge!Answers(req)
      BY <1>1 DEF Rejected, Bridge!Answers
    <2>3. answer \in [who -> UNION {Bridge!Answers(req) : req \in Requests}]
      BY <2>1, <2>2
    <2>4. \A c \in Callers : Seen'[c] = IF c \in who THEN Bridge!Done(Seen[c].req, answer[c]) ELSE Seen[c]
      <3> SUFFICES ASSUME NEW c \in Callers
                   PROVE  Seen'[c] = IF c \in who THEN Bridge!Done(Seen[c].req, answer[c]) ELSE Seen[c]
        OBVIOUS
      <3>1. CASE c \in who
        BY <1>1, <2>1, <3>1 DEF Seen, Done, Bridge!Done
      <3>2. CASE c \notin who
        BY <1>1, <3>2 DEF Seen
      <3> QED BY <3>1, <3>2
    <2>5. Seen' = [c \in Callers |-> IF c \in who THEN Bridge!Done(Seen[c].req, answer[c]) ELSE Seen[c]]
      BY <2>4 DEF Seen
    <2>6. who \in (SUBSET Callers) \ {{}}
      BY <1>3
    <2>7. \A c \in who : \E req \in Requests : Seen[c] = Bridge!Asking(req)
      BY <2>1
    <2>8. \A c \in who : answer[c] \in Bridge!Answers(Seen[c].req)
      BY <2>2
    <2> QED BY <2>3, <2>5, <2>6, <2>7, <2>8 DEF Bridge!Answer, Seen
  <1> QED BY <1>2, <1>3

(* A delivered response is the answer of the caller that waits for it, and *)
(* any other message is nothing to the bridge.                             *)
LEMMA DeliverSimulates ==
    ASSUME WorkerInv, Deliver
    PROVE  Bridge!Answer \/ UNCHANGED Seen
  <1> USE DEF WorkerInv
  <1> DEFINE msg == Head(toPage)
  <1>1. CASE UNCHANGED caller
    BY <1>1, SeenSame
  <1>2. CASE /\ msg.type = "response" /\ msg.id \in DOMAIN pending
             /\ Become(pending[msg.id], Done(caller[pending[msg.id]].req, msg.answer))
    <2>1. toPage # <<>> /\ 1 \in DOMAIN toPage /\ msg = toPage[1]
      BY FirstTaken DEF Deliver, TypeOK
    <2>2. msg.answer \in Bridge!Answers(caller[pending[msg.id]].req)
      BY <1>2, <2>1 DEF UnderWay, Responded
    <2>3. pending[msg.id] \in Callers /\ caller[pending[msg.id]].pc \in {"awaiting", "waiting"}
      BY <1>2 DEF WaitersPending, TypeOK
    <2> QED BY <1>2, <2>2, <2>3, AnswerOne
  <1> QED BY <1>1, <1>2 DEF Deliver

LEMMA InitSimulates == Init => Bridge!Init
  BY DEF Init, Bridge!Init, Idle, Bridge!Idle

LEMMA StepSimulates == WorkerInv /\ [Next]_vars => Bridge!Next \/ UNCHANGED Seen
  <1> SUFFICES ASSUME WorkerInv, [Next]_vars PROVE Bridge!Next \/ UNCHANGED Seen
    OBVIOUS
  <1>1. TypeOK /\ \A c \in Callers : CallerTyped(caller[c])
    BY DEF WorkerInv, TypeOK
  <1>2. CASE UNCHANGED caller
    BY <1>2, SeenSame
  <1>3. CASE Deliver
    BY <1>3, DeliverSimulates DEF Bridge!Next
  <1>4. CASE ErrorEvent
    BY <1>4, RejectAll DEF Bridge!Next
  <1>5. ASSUME NEW c \in Callers, Invoke(c) PROVE UNCHANGED Seen
    <2>1. PICK id : caller[c].pc = "awaiting" /\ Become(c, Waiting(caller[c].req, id))
      BY <1>5 DEF Invoke
    <2>2. SeenOf(Waiting(caller[c].req, id)) = Seen[c]
      BY <2>1 DEF Seen, SeenOf, Waiting, Bridge!Asking
    <2>3. Seen' = [Seen EXCEPT ![c] = Seen[c]]
      BY <1>1, <2>1, <2>2, SeenOne
    <2> QED BY <2>3 DEF Seen
  <1>6. ASSUME NEW c \in Callers, NoBridge(c) PROVE Bridge!Next
    <2>1. caller[c].pc = "awaiting" /\ Become(c, Done(caller[c].req, Rejected)) /\ Failures # {}
      BY <1>6 DEF NoBridge, WorkerInv, FailureHasCause
    <2>2. Rejected \in Bridge!Answers(caller[c].req)
      BY <2>1 DEF Rejected, Bridge!Answers
    <2> QED BY <1>1, <2>1, <2>2, AnswerOne DEF Bridge!Next
  <1>7. ASSUME NEW c \in Callers, Call(c) PROVE Bridge!Next
    <2>1. PICK req \in Requests : caller[c] = Idle /\ Become(c, Awaiting(req))
      BY <1>7 DEF Call
    <2>2. Seen' = [Seen EXCEPT ![c] = Bridge!Asking(req)]
      <3>1. SeenOf(Awaiting(req)) = Bridge!Asking(req)
        BY DEF SeenOf, Awaiting, Bridge!Asking
      <3> QED BY <1>1, <2>1, <3>1, SeenOne
    <2>3. Seen[c] = Bridge!Idle
      BY <2>1 DEF Seen, Idle, Bridge!Idle
    <2> QED BY <2>2, <2>3 DEF Bridge!Next, Bridge!Ask, Seen
  <1>8. ASSUME NEW c \in Callers, Return(c) PROVE Bridge!Next
    <2>1. caller[c].pc = "done" /\ Become(c, Idle)
      BY <1>8 DEF Return
    <2>2. Seen' = [Seen EXCEPT ![c] = Bridge!Idle]
      <3>1. SeenOf(Idle) = Bridge!Idle
        BY DEF SeenOf, Idle, Bridge!Idle
      <3> QED BY <1>1, <2>1, <3>1, SeenOne
    <2>3. Seen[c].pc = "done"
      BY <2>1 DEF Seen
    <2> QED BY <2>2, <2>3 DEF Bridge!Next, Bridge!Return, Seen
  <1>9. CASE Reload
    <2>1. Seen' = [c \in Callers |-> Bridge!Idle]
      BY <1>9 DEF Reload, Seen, Idle, Bridge!Idle
    <2> QED BY <2>1 DEF Bridge!Next, Bridge!Leave, Seen
  <1>10. CASE WorkerStep \/ Tick \/ UNCHANGED vars
    <2>1. UNCHANGED caller
      BY <1>10 DEF WorkerStep, Load, Receive, Decrypt, DigestFails, Tick, vars, page
    <2> QED BY <1>2, <2>1
  <1> QED BY <1>3, <1>4, <1>5, <1>6, <1>7, <1>8, <1>9, <1>10 DEF Next, PageStep

(* Client, worker, digests and cache together keep the promise of the      *)
(* bridge: every answer is that of the caller's own request, and every     *)
(* rejection has a cause.                                                  *)
THEOREM WorkerKeepsBridge == Spec => BridgeKept
  <1>1. WorkerInv /\ [Next]_vars => [Bridge!Next]_Seen
    BY StepSimulates
  <1>2. []WorkerInv /\ [][Next]_vars => [][Bridge!Next]_Seen
    BY <1>1, PTL
  <1>3. Spec => Bridge!Init /\ [][Bridge!Next]_Seen
    BY <1>2, InitSimulates, WorkerInvariant, PTL DEF Spec
  <1> QED BY <1>3, PTL DEF BridgeKept, Bridge!Spec, Seen
=============================================================================
