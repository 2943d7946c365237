-------------------------- MODULE StrongBoxWorker --------------------------
(***************************************************************************)
(* The StrongBox worker of crypto-web: a page whose callers share one      *)
(* memoised bridge, the client that numbers their requests and posts them  *)
(* to a Web Worker, and the worker, which runs the WASM and keeps an LRU   *)
(* cache of decrypted plaintexts.                                          *)
(*                                                                         *)
(* Messages arrive in the order they were posted.  The digest that names a *)
(* cache entry is awaited, so decryptions overtake each other and are      *)
(* overtaken.  Everything between two awaits is one step.                  *)
(*                                                                         *)
(* A request stands for its operation, key, context and payload, hence for *)
(* its cache key; its result, for it.                                      *)
(***************************************************************************)
EXTENDS Integers, SequencesExt

CONSTANTS
    Callers,      \* functions of the page that await the bridge, one call at a time
    Requests,     \* what they may ask: records with the operation in field op
    Bad,          \* the requests that the WASM refuses with an error code
    Failures,     \* what may fail: "support", "load", "error", "digest"
    MaxEntries,   \* capacity of the plaintext cache
    Ttl,          \* lifetime of a cache entry after its last use
    MaxRequests,  \* bound of the model: ids used by one page
    MaxTime       \* bound of the model: the clock stops here

Ops == {"encrypt", "decrypt", "hpke_encap", "hpke_decap"}

ASSUME RequestsAssumption == Bad \subseteq Requests /\ \A req \in Requests : req.op \in Ops
ASSUME FailuresAssumption == Failures \subseteq {"support", "load", "error", "digest"}
ASSUME CacheAssumption == MaxEntries \in Nat \ {0} /\ Ttl \in Nat \ {0}
ASSUME BoundsAssumption == MaxRequests \in Nat /\ MaxTime \in Nat

VARIABLES
    now,       \* Date.now()
    bridge,    \* bridgePromise: "none", "creating", "ready" or "failed"
    nextId,
    pending,   \* requests posted and not settled: id -> the caller to settle
    caller,    \* what every caller is doing
    worker,    \* "absent", "loading", "ready" or "broken"
    toWorker,  \* messages posted to the worker and not yet delivered
    toPage,    \* messages posted to the page and not yet delivered
    digesting, \* the decrypt requests whose cache key is being computed
    cache      \* the entries of the plaintext cache in insertion order

page == <<bridge, nextId, pending, caller>>
vars == <<now, bridge, nextId, pending, caller, worker, toWorker, toPage, digesting, cache>>

Value(req) == [result |-> "value", of |-> req]
Rejected == [result |-> "rejected"]
Executed(req) == IF req \in Bad THEN Rejected ELSE Value(req)

----------------------------------------------------------------------------
(* PlaintextCache *)

MatchesAny(entries, key) == DOMAIN entries  \* mutant: the key leaves out the payload
Matches(entries, key) == {i \in DOMAIN entries : entries[i].key = key}

(* Map.delete: the others keep their order. *)
Deleted(entries, key) ==
    IF Matches(entries, key) = {} THEN entries
    ELSE RemoveAt(entries, CHOOSE i \in Matches(entries, key) : TRUE)

Entry(key, value) == [key |-> key, value |-> value, expires |-> now + Ttl]

(* get: a hit is a live entry; an expired one is dropped *)
Live(key) == {i \in Matches(cache, key) : cache[i].expires > now}
Hit(key) == Live(key) # {}
CachedValue(key) == cache[CHOOSE i \in Live(key) : TRUE].value

TouchedInPlace(key) ==  \* mutant: a hit is renewed where it stands
    [i \in DOMAIN cache |-> IF cache[i].key = key THEN Entry(key, CachedValue(key))
                                                  ELSE cache[i]]

(* A hit moves to the end, with its lifetime renewed. *)
Touched(key) == Append(Deleted(cache, key), Entry(key, CachedValue(key)))

(* set, which evicts the first entry when there is one too many *)
Added(entries, key, value) ==
    LET longer == Append(Deleted(entries, key), Entry(key, value))
    IN  IF Len(longer) > MaxEntries THEN Tail(longer) ELSE longer

----------------------------------------------------------------------------
(* The page: getStrongBoxBridge, StrongBoxWorkerClient *)

Idle == [pc |-> "idle"]
Awaiting(req) == [pc |-> "awaiting", req |-> req]
Waiting(req, id) == [pc |-> "waiting", req |-> req, id |-> id]
Done(req, answer) == [pc |-> "done", req |-> req, answer |-> answer]

Init ==
    /\ now = 0
    /\ bridge = "none"
    /\ nextId = 0
    /\ pending = <<>>
    /\ caller = [c \in Callers |-> Idle]
    /\ worker = "absent"
    /\ toWorker = <<>>
    /\ toPage = <<>>
    /\ digesting = {}
    /\ cache = <<>>

Become(c, record) == caller' = [caller EXCEPT ![c] = record]

(* A caller asks for the bridge; the first one creates it. *)
Call(c) ==
    /\ caller[c] = Idle
    /\ nextId + Cardinality({d \in Callers : caller[d].pc = "awaiting"}) < MaxRequests
    /\ \E req \in Requests : Become(c, Awaiting(req))
    /\ \/ bridge # "none" /\ UNCHANGED <<bridge, worker>>
       \/ bridge = "none" /\ bridge' = "creating" /\ worker' = "loading"
       \/ bridge = "none" /\ "support" \in Failures /\ bridge' = "failed" /\ UNCHANGED worker
    /\ UNCHANGED <<now, nextId, pending, toWorker, toPage, digesting, cache>>

(* invoke, invokeHpke: once the bridge is there *)
Invoke(c) ==
    /\ caller[c].pc = "awaiting"
    /\ bridge = "ready"
    /\ LET req == caller[c].req IN
          /\ toWorker' = Append(toWorker, [id |-> nextId, req |-> req])
          /\ pending' = [id \in DOMAIN pending \cup {nextId} |->
                            IF id = nextId THEN c ELSE pending[id]]
          /\ Become(c, Waiting(req, nextId))
    /\ nextId' = nextId + 1
    /\ UNCHANGED <<now, bridge, worker, toPage, digesting, cache>>

(* The memoised promise is rejected, for this caller and every later one. *)
NoBridge(c) ==
    /\ caller[c].pc = "awaiting"
    /\ bridge = "failed"
    /\ Become(c, Done(caller[c].req, Rejected))
    /\ UNCHANGED <<now, bridge, nextId, pending, worker, toWorker, toPage, digesting, cache>>

DeliverKept ==  \* mutant: a settled request stays in the map
    /\ toPage # <<>>
    /\ toPage' = Tail(toPage)
    /\ LET msg == Head(toPage) IN
          \/ /\ msg.type \in {"ready", "init-error"}
             /\ bridge' = IF bridge # "creating" THEN bridge
                          ELSE IF msg.type = "ready" THEN "ready" ELSE "failed"
             /\ UNCHANGED caller
          \/ /\ msg.type = "response"
             /\ msg.id \in DOMAIN pending
             /\ Become(pending[msg.id], Done(caller[pending[msg.id]].req, msg.answer))
             /\ UNCHANGED bridge
    /\ UNCHANGED <<now, nextId, pending, worker, toWorker, digesting, cache>>

(* A message of the worker is delivered.  The readiness message counts for *)
(* the one who waits for it, and a response for the request it answers.    *)
Deliver ==
    /\ toPage # <<>>
    /\ toPage' = Tail(toPage)
    /\ LET msg == Head(toPage) IN
          \/ /\ msg.type \in {"ready", "init-error"}
             /\ bridge' = IF bridge # "creating" THEN bridge
                          ELSE IF msg.type = "ready" THEN "ready" ELSE "failed"
             /\ UNCHANGED <<pending, caller>>
          \/ /\ msg.type = "response"
             /\ msg.id \in DOMAIN pending
             /\ pending' = [id \in DOMAIN pending \ {msg.id} |-> pending[id]]
             /\ Become(pending[msg.id], Done(caller[pending[msg.id]].req, msg.answer))
             /\ UNCHANGED bridge
          \/ /\ msg.type = "response"
             /\ msg.id \notin DOMAIN pending
             /\ UNCHANGED <<bridge, pending, caller>>
    /\ UNCHANGED <<now, nextId, worker, toWorker, digesting, cache>>

ErrorEventForgets ==  \* mutant: the map is cleared and nobody is told
    /\ "error" \in Failures
    /\ worker # "absent"
    /\ bridge' = IF bridge = "creating" THEN "failed" ELSE bridge
    /\ pending' = <<>>
    /\ UNCHANGED <<now, nextId, caller, worker, toWorker, toPage, digesting, cache>>

(* The browser reports an error of the worker, which carries on: the client *)
(* rejects all that is pending, and a bridge being created fails.           *)
ErrorEvent ==
    /\ "error" \in Failures
    /\ worker # "absent"
    /\ bridge' = IF bridge = "creating" THEN "failed" ELSE bridge
    /\ pending' = <<>>
    /\ caller' = [c \in Callers |-> IF \E id \in DOMAIN pending : pending[id] = c
                                    THEN Done(caller[c].req, Rejected) ELSE caller[c]]
    /\ UNCHANGED <<now, nextId, worker, toWorker, toPage, digesting, cache>>

Return(c) ==
    /\ caller[c].pc = "done"
    /\ Become(c, Idle)
    /\ UNCHANGED <<now, bridge, nextId, pending, worker, toWorker, toPage, digesting, cache>>

(* The page is reloaded: everything but the time starts again. *)
Reload ==
    /\ bridge' = "none" /\ nextId' = 0 /\ pending' = <<>>
    /\ caller' = [c \in Callers |-> Idle]
    /\ worker' = "absent" /\ toWorker' = <<>> /\ toPage' = <<>>
    /\ digesting' = {} /\ cache' = <<>>
    /\ UNCHANGED now

----------------------------------------------------------------------------
(* The worker *)

(* initWasm *)
Load ==
    /\ worker = "loading"
    /\ \/ worker' = "ready" /\ toPage' = Append(toPage, [type |-> "ready"])
       \/ /\ "load" \in Failures
          /\ worker' = "broken"
          /\ toPage' = Append(toPage, [type |-> "init-error"])
    /\ UNCHANGED <<now, page, toWorker, digesting, cache>>

Respond(id, answer) ==
    toPage' = Append(toPage, [type |-> "response", id |-> id, answer |-> answer])

(* handleRequest up to its first await: all of it, but for a decryption *)
Receive ==
    /\ worker = "ready"
    /\ toWorker # <<>>
    /\ toWorker' = Tail(toWorker)
    /\ LET msg == Head(toWorker) IN
          \/ /\ msg.req.op = "decrypt"
             /\ digesting' = digesting \cup {msg}
             /\ UNCHANGED toPage
          \/ /\ msg.req.op # "decrypt"
             /\ Respond(msg.id, Executed(msg.req))
             /\ UNCHANGED digesting
    /\ UNCHANGED <<now, page, worker, cache>>

(* The rest of a decryption, from the cache or by the WASM.  The cached    *)
(* value and the posted one are copies: posting hands the buffer over.     *)
Decrypt(msg) ==
    /\ msg \in digesting
    /\ digesting' = digesting \ {msg}
    /\ \/ /\ Hit(msg.req)
          /\ cache' = Touched(msg.req)
          /\ Respond(msg.id, CachedValue(msg.req))
       \/ /\ ~Hit(msg.req)
          /\ LET result == Executed(msg.req)
                 left   == Deleted(cache, msg.req)
             IN  /\ cache' = IF result = Rejected THEN left ELSE Added(left, msg.req, result)
                 /\ Respond(msg.id, result)
    /\ UNCHANGED <<now, page, worker, toWorker>>

(* The digest is rejected, and the request with it. *)
DigestFails(msg) ==
    /\ "digest" \in Failures
    /\ msg \in digesting
    /\ digesting' = digesting \ {msg}
    /\ Respond(msg.id, Rejected)
    /\ UNCHANGED <<now, page, worker, toWorker, cache>>

Tick ==
    /\ now < MaxTime
    /\ now' = now + 1
    /\ UNCHANGED <<page, worker, toWorker, toPage, digesting, cache>>

PageStep == Deliver \/ \E c \in Callers : Invoke(c) \/ NoBridge(c)
WorkerStep == Load \/ Receive \/ \E msg \in digesting : Decrypt(msg) \/ DigestFails(msg)

Next ==
    \/ PageStep \/ WorkerStep
    \/ \E c \in Callers : Call(c) \/ Return(c)
    \/ ErrorEvent \/ Reload \/ Tick

Spec == Init /\ [][Next]_vars

(* Event loops run, and every digest that was started is settled. *)
FairSpec ==
    /\ Spec
    /\ WF_vars(Deliver)
    /\ \A c \in Callers : WF_vars(Invoke(c) \/ NoBridge(c))
    /\ WF_vars(Load) /\ WF_vars(Receive)
    /\ \A id \in 0 .. MaxRequests - 1 :
          WF_vars(\E msg \in digesting : msg.id = id /\ (Decrypt(msg) \/ DigestFails(msg)))

----------------------------------------------------------------------------
(* Correctness *)

Requested(id) == {i \in DOMAIN toWorker : toWorker[i].id = id}
Digested(id) == {msg \in digesting : msg.id = id}
Responded(id) ==
    {i \in DOMAIN toPage : toPage[i].type = "response" /\ toPage[i].id = id}

(* The caller that waits for a request is the one its id will settle, and  *)
(* no id is left in the map of the client without one that waits for it.   *)
(* Exactly one thing stands for every pending request: the request on its  *)
(* way to the worker, its digest, or its response on its way back; it is   *)
(* for the request that was made, and no id is ever used again.            *)
RequestsOnTheirWay ==
    /\ \A c \in Callers : caller[c].pc = "waiting" =>
          caller[c].id \in DOMAIN pending /\ pending[caller[c].id] = c
    /\ \A id \in DOMAIN pending :
          caller[pending[id]].pc = "waiting" /\ caller[pending[id]].id = id
    /\ \A id \in DOMAIN pending :
          /\ id < nextId
          /\ Cardinality(Requested(id)) + Cardinality(Digested(id))
                + Cardinality(Responded(id)) = 1
          /\ \A i \in Requested(id) : toWorker[i].req = caller[pending[id]].req
          /\ \A msg \in Digested(id) : msg.req = caller[pending[id]].req
    /\ \A id \in nextId .. MaxRequests :
          Requested(id) = {} /\ Digested(id) = {} /\ Responded(id) = {}

(* The cache holds what decryption gave, once each, within its capacity:   *)
(* no refusal is ever cached.  Entries stand in the order of their last    *)
(* use, so the one that set evicts is the least recently used, and none    *)
(* expires before one ahead of it.                                         *)
CacheSound ==
    /\ Len(cache) <= MaxEntries
    /\ \A i \in DOMAIN cache :
          cache[i].value = Executed(cache[i].key) /\ cache[i].value # Rejected
    /\ \A i, j \in DOMAIN cache : cache[i].key = cache[j].key => i = j
    /\ \A i, j \in DOMAIN cache : i < j => cache[i].expires <= cache[j].expires

(* The page, the client, the worker and the cache together keep what the   *)
(* interface promises.                                                     *)
Bridge == INSTANCE StrongBoxBridge WITH
    Fallible <- Failures # {},
    caller   <- [c \in Callers |->
                    IF caller[c].pc \in {"awaiting", "waiting"}
                    THEN [pc |-> "asking", req |-> caller[c].req] ELSE caller[c]]

BridgeKept == Bridge!Spec

(* Every caller of the bridge hears of its request, whatever has failed,   *)
(* unless the page is left.                                                *)
CallSettles ==
    \A c \in Callers :
        caller[c].pc \in {"awaiting", "waiting"} ~> caller[c].pc \in {"done", "idle"}
=============================================================================
