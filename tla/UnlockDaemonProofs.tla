------------------------- MODULE UnlockDaemonProofs -------------------------
(***************************************************************************)
(* Proofs about UnlockDaemon, for every number of clients and daemons,     *)
(* every set of sessions and lifetimes, and whatever is killed.            *)
(***************************************************************************)
EXTENDS UnlockDaemon, SequenceTheorems, TLAPS

WaitLabels == {"probing", "polling", "requesting"}

(* What TtlHonoured and typing ask of one client *)
ClientOK(r) ==
    /\ r \in {Idle} \cup Active \cup Done
    /\ r.pc = "done" /\ r.result = "key" =>
          r.at < r.expires /\ \E ttl \in TTLs : r.expires <= r.at + ttl

----------------------------------------------------------------------------
(* Clients, connections and stores one by one *)

(* The control state of a client tells which kind of record it is. *)
LEMMA ClientCases ==
    ASSUME DaemonInv, NEW c \in Clients
    PROVE  /\ ClientOK(client[c])
           /\ client[c].pc \in Labels => client[c] \in Active
           /\ client[c].pc = "done" => client[c] \in Done
           /\ client[c].pc = "idle" => client[c] = Idle
  <1>1. client[c] \in {Idle} \cup Active \cup Done
    BY DEF DaemonInv, TypeOK
  <1>2. client[c] \in Active => client[c].pc \in Labels
    BY DEF Active
  <1>3. client[c] \in Done => client[c].pc = "done"
    BY DEF Done
  <1>4. Idle.pc = "idle"
    BY DEF Idle
  <1> QED BY <1>1, <1>2, <1>3, <1>4 DEF DaemonInv, TtlHonoured, ClientOK, Labels

(* A client that was in the middle of a call ends it with a typed result. *)
LEMMA EndedTyped ==
    ASSUME NEW c \in Clients, client[c] \in Active,
           NEW result \in {"ok", "error", "none"}
    PROVE  /\ Ended(c, result) \in Done
           /\ Ended(c, result).pc = "done"
           /\ ClientOK(Ended(c, result))
  BY DEF Ended, Active, Done, ClientOK

(* Moving on within a call keeps the call. *)
LEMMA AtTyped ==
    ASSUME NEW c \in Clients, client[c] \in Active, NEW label \in Labels
    PROVE  /\ At(c, label) \in Active
           /\ At(c, label).pc = label
           /\ ClientOK(At(c, label))
  <1>1. At(c, label) \in Active /\ At(c, label).pc = label
    BY DEF At, Active
  <1> QED BY <1>1 DEF ClientOK, Labels

(* A queue is a finite sequence of connections. *)
LEMMA QueueTyped ==
    ASSUME DaemonInv, NEW d \in Daemons
    PROVE  /\ queue[d] \in Seq(Connections)
           /\ Len(queue[d]) \in Nat
           /\ DOMAIN queue[d] = 1 .. Len(queue[d])
           /\ \A i \in 1 .. Len(queue[d]) :
                 /\ queue[d][i] \in Connections
                 /\ queue[d][i].client \in Clients \cup {Gone}
                 /\ queue[d][i].req \in Requests
  <1>1. queue[d] \in Seq(Connections)
    BY DEF DaemonInv, TypeOK
  <1>2. /\ Len(queue[d]) \in Nat /\ DOMAIN queue[d] = 1 .. Len(queue[d])
        /\ queue[d] \in [1 .. Len(queue[d]) -> Connections]
    BY <1>1, LenProperties
  <1> QED BY <1>1, <1>2 DEF Connections

(* Handling a request keeps the sessions typed and their expiries within   *)
(* the longest lifetime.                                                   *)
LEMMA HandledWithin ==
    ASSUME DaemonInv, NEW d \in Daemons, NEW req \in Requests,
           req.kind = "put" => Within(req.expires)
    PROVE  /\ IsStore(Handled(store[d], req))
           /\ \A s \in DOMAIN Handled(store[d], req) : Within(Handled(store[d], req)[s])
  <1> DEFINE st == store[d]
  <1>1. IsStore(st) /\ \A s \in DOMAIN st : Within(st[s])
    BY DEF DaemonInv, TypeOK, ExpiriesWithinTtl
  <1>2. IsStore(Pruned(st)) /\ \A s \in DOMAIN Pruned(st) : Within(Pruned(st)[s])
    BY <1>1 DEF Pruned, Unexpired, IsStore
  <1>3. ASSUME NEW s, NEW t, IsStore(t), \A x \in DOMAIN t : Within(t[x])
        PROVE  IsStore(Without(t, s)) /\ \A x \in DOMAIN Without(t, s) : Within(Without(t, s)[x])
    BY <1>3 DEF Without, IsStore
  <1>4. req.kind \in {"status", "shutdown", "get", "delete", "put"}
    BY DEF Requests
  <1>5. CASE req.kind = "put"
    <2>1. req.session \in Sessions /\ req.expires \in Nat
      BY <1>5 DEF Requests
    <2>2. Handled(st, req) = With(st, req.session, req.expires)
      BY <1>5 DEF Handled
    <2> HIDE DEF st
    <2>3. IsStore(With(st, req.session, req.expires))
      BY <1>1, <2>1 DEF With, IsStore
    <2>4. \A x \in DOMAIN With(st, req.session, req.expires) :
              Within(With(st, req.session, req.expires)[x])
      BY <1>1, <1>5 DEF With
    <2> QED BY <2>2, <2>3, <2>4 DEF st
  <1>6. CASE req.kind \in {"get", "status"}
    BY <1>2, <1>6 DEF Handled
  <1>7. CASE req.kind = "delete"
    BY <1>2, <1>3, <1>7 DEF Handled
  <1>8. CASE req.kind = "shutdown"
    BY <1>1, <1>8 DEF Handled
  <1> QED BY <1>4, <1>5, <1>6, <1>7, <1>8

----------------------------------------------------------------------------
(* What the steps have in common *)

(* A step that changes only what one client is doing, outside a request    *)
LEMMA ClientMoves ==
    ASSUME DaemonInv, NEW c \in Clients, NEW r, ClientOK(r),
           ~Waiting(c), r.pc \notin WaitLabels,
           Become(c, r), UNCHANGED <<now, path, store, queue>>,
           daemon' \in [Daemons -> {"unborn", "starting", "removing", "binding",
                                    "securing", "serving", "stopping", "dead", "killed"}],
           Listening' = Listening
    PROVE  DaemonInv'
  <1>1. client' = [client EXCEPT ![c] = r] /\ client \in [Clients -> {Idle} \cup Active \cup Done]
    BY DEF Become, DaemonInv, TypeOK
  <1>2. \A x \in Clients : client'[x] = IF x = c THEN r ELSE client[x]
    BY <1>1
  <1>3. \A x \in Clients : Waiting(x)' <=> Waiting(x)
    BY <1>2 DEF Waiting, WaitLabels
  <1>4. \A d \in Daemons : Connected(d)' = Connected(d)
    BY DEF Connected
  <1>5. TypeOK'
    BY <1>1 DEF DaemonInv, TypeOK, ClientOK, IsStore
  <1>6. AwaitedDaemonLives'
    BY <1>3, <1>4 DEF DaemonInv, AwaitedDaemonLives, Listening
  <1>7. OnlyListenersQueue'
    BY DEF DaemonInv, OnlyListenersQueue
  <1>8. ExpiriesWithinTtl'
    BY DEF DaemonInv, ExpiriesWithinTtl, Within
  <1>9. TtlHonoured'
    BY <1>2 DEF DaemonInv, TtlHonoured, ClientOK
  <1> QED BY <1>5, <1>6, <1>7, <1>8, <1>9 DEF DaemonInv

(* Connecting: the client starts to wait and its connection is queued, at  *)
(* a daemon that listens.                                                  *)
LEMMA ConnectKeeps ==
    ASSUME DaemonInv, NEW c \in Clients, client[c] \in Active, ~Waiting(c),
           NEW req \in Requests, req.kind = "put" => Within(req.expires),
           NEW label \in WaitLabels, Connect(c, req, label)
    PROVE  DaemonInv'
  <1> DEFINE conn == [client |-> c, req |-> req]
  <1>1. path \in Daemons /\ path \in Listening
    BY DEF Connect, Reachable, Listening
  <1>2. conn \in Connections
    BY DEF Connections
  <1>3. /\ queue[path] \in Seq(Connections)
        /\ Len(queue[path]) \in Nat
        /\ DOMAIN queue[path] = 1 .. Len(queue[path])
    BY <1>1, QueueTyped
  <1> DEFINE longer == Append(queue[path], conn)
  <1>4. /\ longer \in Seq(Connections)
        /\ Len(longer) = Len(queue[path]) + 1
        /\ DOMAIN longer = 1 .. Len(queue[path]) + 1
        /\ \A i \in 1 .. Len(queue[path]) : longer[i] = queue[path][i]
        /\ longer[Len(queue[path]) + 1] = conn
    <2>1. longer \in Seq(Connections)
      BY <1>2, <1>3, AppendProperties
    <2>2. DOMAIN longer = 1 .. Len(longer)
      BY <2>1, LenProperties
    <2> QED BY <1>2, <1>3, <2>1, <2>2, AppendProperties
  <1>5. queue' = [queue EXCEPT ![path] = longer]
    BY DEF Connect
  <1> HIDE DEF longer
  <1>6. queue \in [Daemons -> Seq(Connections)]
    BY DEF DaemonInv, TypeOK
  <1>7. \A e \in Daemons : queue'[e] = IF e = path THEN longer ELSE queue[e]
    BY <1>5, <1>6
  <1>8. /\ \A x \in Clients : client'[x] = IF x = c THEN At(c, label) ELSE client[x]
        /\ client' \in [Clients -> {Idle} \cup Active \cup Done]
        /\ At(c, label).pc = label
        /\ ClientOK(At(c, label))
    <2>1. label \in Labels
      BY DEF WaitLabels, Labels
    <2> QED BY <2>1, AtTyped DEF Connect, Become, DaemonInv, TypeOK
  <1>9. Listening' = Listening
    BY DEF Connect, Listening
  <1>10. \A x \in Clients : Waiting(x)' <=> Waiting(x) \/ x = c
    BY <1>8 DEF Waiting, WaitLabels
  <1>11. \A e \in Daemons :
            Connected(e)' = Connected(e) \cup (IF e = path THEN {c} ELSE {})
    <2> SUFFICES ASSUME NEW e \in Daemons
                 PROVE  Connected(e)' = Connected(e) \cup (IF e = path THEN {c} ELSE {})
      OBVIOUS
    <2>1. CASE e # path
      BY <1>7, <2>1 DEF Connected
    <2>2. CASE e = path
      <3>1. Connected(e)' = {longer[i].client : i \in 1 .. Len(queue[path]) + 1}
        BY <1>4, <1>7, <2>2 DEF Connected
      <3>2. Connected(e) = {queue[path][i].client : i \in 1 .. Len(queue[path])}
        BY <1>3, <2>2 DEF Connected
      <3>3. longer[Len(queue[path]) + 1].client = c
        BY <1>4
      <3>4. \A i \in 1 .. Len(queue[path]) : longer[i].client = queue[path][i].client
        BY <1>4
      <3>5. 1 .. Len(queue[path]) + 1 = 1 .. Len(queue[path]) \cup {Len(queue[path]) + 1}
        BY <1>3
      <3> HIDE DEF conn
      <3>6. ASSUME NEW x \in Connected(e)' PROVE x \in Connected(e) \cup {c}
        <4>1. PICK i \in 1 .. Len(queue[path]) + 1 : x = longer[i].client
          BY <3>1, <3>6
        <4>2. CASE i = Len(queue[path]) + 1
          BY <3>3, <4>1, <4>2
        <4>3. CASE i \in 1 .. Len(queue[path])
          BY <3>2, <3>4, <4>1, <4>3
        <4> QED BY <3>5, <4>1, <4>2, <4>3
      <3>7. ASSUME NEW x \in Connected(e) PROVE x \in Connected(e)'
        <4>1. PICK i \in 1 .. Len(queue[path]) : x = queue[path][i].client
          BY <3>2, <3>7
        <4>2. i \in 1 .. Len(queue[path]) + 1 /\ x = longer[i].client
          BY <3>4, <3>5, <4>1
        <4> QED BY <3>1, <4>2
      <3>8. c \in Connected(e)'
        <4>1. Len(queue[path]) + 1 \in 1 .. Len(queue[path]) + 1
          BY <3>5
        <4> QED BY <3>1, <3>3, <4>1
      <3> QED BY <2>2, <3>6, <3>7, <3>8
    <2> QED BY <2>1, <2>2
  <1>12. TypeOK'
    <2>1. queue' \in [Daemons -> Seq(Connections)]
      BY <1>4, <1>5, <1>6
    <2> QED BY <1>8, <2>1 DEF DaemonInv, TypeOK, Connect, IsStore
  <1>13. AwaitedDaemonLives'
    <2>1. \A x \in Clients : Waiting(x)' <=> \E e \in Listening' : x \in Connected(e)'
      BY <1>1, <1>9, <1>10, <1>11 DEF DaemonInv, AwaitedDaemonLives, Listening
    <2>2. \A e \in Daemons : \A i \in DOMAIN queue[e] : queue[e][i].client # c
      <3>1. \A e \in Daemons : queue[e] # <<>> => e \in Listening
        BY DEF DaemonInv, OnlyListenersQueue
      <3>2. \A e \in Listening : c \notin Connected(e)
        BY DEF DaemonInv, AwaitedDaemonLives
      <3>3. ASSUME NEW e \in Daemons, NEW i \in DOMAIN queue[e] PROVE queue[e] # <<>>
        BY <3>3, QueueTyped, EmptySeq
      <3> QED BY <3>1, <3>2, <3>3 DEF Connected
    <2>3. ASSUME NEW d \in Daemons, NEW e \in Daemons,
                 NEW i \in DOMAIN queue'[d], NEW j \in DOMAIN queue'[e],
                 queue'[d][i].client = queue'[e][j].client, queue'[d][i].client # Gone
          PROVE  d = e /\ i = j
      <3> DEFINE New(f, k) == f = path /\ k = Len(queue[path]) + 1
      <3>1. ASSUME NEW f \in Daemons, NEW k \in DOMAIN queue'[f]
            PROVE  \/ New(f, k) /\ queue'[f][k].client = c
                   \/ ~New(f, k) /\ k \in DOMAIN queue[f] /\ queue'[f][k] = queue[f][k]
        <4>1. CASE f # path
          BY <1>7, <3>1, <4>1
        <4>2. CASE f = path /\ k = Len(queue[path]) + 1
          BY <1>4, <1>7, <4>2
        <4>3. CASE f = path /\ k # Len(queue[path]) + 1
          <5>1. queue'[f] = longer /\ k \in 1 .. Len(queue[path]) + 1
            BY <1>4, <1>7, <3>1, <4>3
          <5>2. k \in 1 .. Len(queue[path])
            BY <1>3, <4>3, <5>1
          <5>3. queue'[f][k] = queue[f][k] /\ k \in DOMAIN queue[f]
            BY <1>3, <1>4, <4>3, <5>1, <5>2
          <5> QED BY <4>3, <5>3
        <4> QED BY <4>1, <4>2, <4>3
      <3>2. New(d, i) /\ New(e, j) => d = e /\ i = j
        OBVIOUS
      <3> HIDE DEF New
      <3>3. CASE New(d, i) \/ New(e, j)
        BY <2>2, <2>3, <3>1, <3>2, <3>3
      <3>4. CASE ~New(d, i) /\ ~New(e, j)
        <4>1. /\ i \in DOMAIN queue[d] /\ queue'[d][i] = queue[d][i]
              /\ j \in DOMAIN queue[e] /\ queue'[e][j] = queue[e][j]
          BY <3>1, <3>4
        <4> QED BY <2>3, <4>1 DEF DaemonInv, AwaitedDaemonLives
      <3> QED BY <3>3, <3>4
    <2> QED BY <2>1, <2>3 DEF AwaitedDaemonLives
  <1>14. OnlyListenersQueue'
    BY <1>1, <1>7, <1>9 DEF DaemonInv, OnlyListenersQueue
  <1>15. ExpiriesWithinTtl'
    <2>1. now' = now /\ store' = store
      BY DEF Connect
    <2>2. ASSUME NEW e \in Daemons, NEW i \in DOMAIN queue'[e], queue'[e][i].req.kind = "put"
          PROVE  Within(queue'[e][i].req.expires)
      <3>1. CASE e # path
        BY <1>7, <2>2, <3>1 DEF DaemonInv, ExpiriesWithinTtl
      <3>2. CASE e = path /\ i \in 1 .. Len(queue[path])
        <4>1. queue'[e][i] = queue[path][i] /\ i \in DOMAIN queue[path]
          BY <1>3, <1>4, <1>7, <3>2
        <4> QED BY <1>1, <2>2, <4>1 DEF DaemonInv, ExpiriesWithinTtl
      <3>3. CASE e = path /\ i = Len(queue[path]) + 1
        <4>1. queue'[e][i].req = req
          BY <1>4, <1>7, <3>3
        <4> QED BY <2>2, <4>1
      <3> QED BY <1>3, <1>4, <1>7, <3>1, <3>2, <3>3
    <2> QED BY <2>1, <2>2 DEF DaemonInv, ExpiriesWithinTtl, Within
  <1>16. TtlHonoured'
    BY <1>8 DEF DaemonInv, TtlHonoured, ClientOK
  <1> QED BY <1>12, <1>13, <1>14, <1>15, <1>16 DEF DaemonInv

(* Who is connected where: the clients of a queue wait, and nowhere else. *)
LEMMA ConnectedWait ==
    ASSUME DaemonInv, NEW d \in Daemons
    PROVE  /\ queue[d] # <<>> => d \in Listening
           /\ \A x \in Clients : x \in Connected(d) =>
                 /\ d \in Listening
                 /\ Waiting(x)
                 /\ client[x] \in Active
                 /\ \A e \in Daemons : x \in Connected(e) => e = d
  <1>1. queue[d] # <<>> => d \in Listening
    BY DEF DaemonInv, OnlyListenersQueue
  <1> SUFFICES ASSUME NEW x \in Clients, x \in Connected(d)
               PROVE  /\ d \in Listening
                      /\ Waiting(x)
                      /\ client[x] \in Active
                      /\ \A e \in Daemons : x \in Connected(e) => e = d
    BY <1>1
  <1>2. PICK i \in DOMAIN queue[d] : queue[d][i].client = x
    BY DEF Connected
  <1>3. d \in Listening
    <2>1. queue[d] # <<>>
      BY <1>2, QueueTyped, EmptySeq
    <2> QED BY <1>1, <2>1
  <1>4. Waiting(x)
    BY <1>3 DEF DaemonInv, AwaitedDaemonLives
  <1>5. client[x] \in Active
    BY <1>4, ClientCases DEF Waiting, Labels
  <1>6. ASSUME NEW e \in Daemons, x \in Connected(e) PROVE e = d
    <2>1. PICK j \in DOMAIN queue[e] : queue[e][j].client = x
      BY <1>6 DEF Connected
    <2> QED BY <1>2, <2>1, ProcessAssumption DEF DaemonInv, AwaitedDaemonLives
  <1> QED BY <1>3, <1>4, <1>5, <1>6

(* A daemon that moves on, and keeps listening if it did *)
LEMMA ProceedKeeps ==
    ASSUME DaemonInv, NEW d \in Daemons,
           NEW label \in {"removing", "binding", "securing", "serving"},
           d \in Listening => label \in {"securing", "serving"},
           Proceed(d, label), path' \in Daemons \cup {NoFile}
    PROVE  DaemonInv'
  <1>1. daemon \in [Daemons -> {"unborn", "starting", "removing", "binding",
                                "securing", "serving", "stopping", "dead", "killed"}]
    BY DEF DaemonInv, TypeOK
  <1>2. \A e \in Daemons : daemon'[e] = IF e = d THEN label ELSE daemon[e]
    BY <1>1 DEF Proceed
  <1>3. \A e \in Daemons : e \in Listening => e \in Listening'
    BY <1>2 DEF Listening
  <1>4. \A e \in Daemons : Connected(e)' = Connected(e)
    BY DEF Proceed, Connected
  <1>5. TypeOK'
    BY <1>1 DEF Proceed, DaemonInv, TypeOK, IsStore
  <1>6. AwaitedDaemonLives'
    <2>1. \A x \in Clients : Waiting(x)' <=> Waiting(x)
      BY DEF Proceed, Waiting
    <2>2. \A x \in Clients : Waiting(x)' <=> \E e \in Listening' : x \in Connected(e)'
      <3>1. \A x \in Clients : \A e \in Daemons : x \in Connected(e) => e \in Listening
        BY ConnectedWait
      <3>2. Listening' \subseteq Daemons /\ Listening \subseteq Daemons
        BY DEF Listening
      <3> QED BY <1>3, <1>4, <2>1, <3>1, <3>2 DEF DaemonInv, AwaitedDaemonLives
    <2> QED BY <2>2 DEF Proceed, DaemonInv, AwaitedDaemonLives
  <1>7. OnlyListenersQueue'
    BY <1>3 DEF Proceed, DaemonInv, OnlyListenersQueue
  <1>8. ExpiriesWithinTtl'
    BY DEF Proceed, DaemonInv, ExpiriesWithinTtl, Within
  <1>9. TtlHonoured'
    BY DEF Proceed, DaemonInv, TtlHonoured
  <1> QED BY <1>5, <1>6, <1>7, <1>8, <1>9 DEF DaemonInv

(* A daemon that ends: the clients connected to it are cut off, no other. *)
LEMMA EndKeeps ==
    ASSUME DaemonInv, NEW d \in Daemons, NEW label \in {"dead", "killed"}, Ends(d, label),
           path' \in Daemons \cup {NoFile}
    PROVE  DaemonInv'
  <1>1. /\ daemon \in [Daemons -> {"unborn", "starting", "removing", "binding",
                                   "securing", "serving", "stopping", "dead", "killed"}]
        /\ queue \in [Daemons -> Seq(Connections)]
        /\ client \in [Clients -> {Idle} \cup Active \cup Done]
        /\ store = [e \in Daemons |-> store[e]]
    BY DEF DaemonInv, TypeOK
  <1>2. /\ \A e \in Daemons : daemon'[e] = IF e = d THEN label ELSE daemon[e]
        /\ \A e \in Daemons : queue'[e] = IF e = d THEN <<>> ELSE queue[e]
        /\ \A e \in Daemons : store'[e] = IF e = d THEN NoSessions ELSE store[e]
        /\ store' = [e \in Daemons |-> store'[e]]
        /\ \A x \in Clients : client'[x] = IF x \in Connected(d) THEN CutOff(x) ELSE client[x]
        /\ now' = now
    BY <1>1 DEF Ends
  <1>3. Listening' = Listening \ {d}
    BY <1>2 DEF Listening
  <1>4. \A e \in Daemons : Connected(e)' = IF e = d THEN {} ELSE Connected(e)
    BY <1>2 DEF Connected
  <1>5. ASSUME NEW x \in Clients, x \in Connected(d)
        PROVE  ClientOK(CutOff(x)) /\ CutOff(x).pc \notin WaitLabels
    <2>1. client[x] \in Active
      BY <1>5, ConnectedWait
    <2>2. ClientOK(At(x, "poll")) /\ At(x, "poll").pc = "poll"
      BY <2>1, AtTyped DEF Labels
    <2>3. ClientOK(Ended(x, "error")) /\ Ended(x, "error").pc = "done"
      BY <2>1, EndedTyped
    <2> QED BY <2>2, <2>3 DEF CutOff, WaitLabels
  <1>6. \A x \in Clients : ClientOK(client'[x])
    BY <1>2, <1>5, ClientCases
  <1>7. TypeOK'
    <2>1. daemon' \in [Daemons -> {"unborn", "starting", "removing", "binding",
                                   "securing", "serving", "stopping", "dead", "killed"}]
      BY <1>1 DEF Ends
    <2>2. queue' \in [Daemons -> Seq(Connections)]
      BY <1>1, EmptySeq DEF Ends
    <2>3. client' \in [Clients -> {Idle} \cup Active \cup Done]
      BY <1>6 DEF Ends, ClientOK
    <2>4. IsStore(NoSessions)
      BY DEF IsStore, NoSessions
    <2>5. \A e \in Daemons : IsStore(store[e])
      BY DEF DaemonInv, TypeOK
    <2>6. \A e \in Daemons : IsStore(store'[e])
      <3> HIDE DEF NoSessions
      <3> QED BY <1>2, <2>4, <2>5
    <2> QED BY <1>2, <2>1, <2>2, <2>3, <2>6 DEF DaemonInv, TypeOK
  <1>8. AwaitedDaemonLives'
    <2>1. ASSUME NEW x \in Clients
          PROVE  Waiting(x)' <=> \E e \in Listening' : x \in Connected(e)'
      <3>1. CASE x \in Connected(d)
        <4>1. ~Waiting(x)'
          BY <1>2, <1>5, <3>1 DEF Waiting, WaitLabels
        <4>2. \A e \in Daemons : x \in Connected(e) => e = d
          BY <3>1, ConnectedWait
        <4> QED BY <1>3, <1>4, <4>1, <4>2 DEF Listening
      <3>2. CASE x \notin Connected(d)
        <4>1. Waiting(x)' <=> Waiting(x)
          BY <1>2, <3>2 DEF Waiting
        <4> QED BY <1>3, <1>4, <3>2, <4>1 DEF DaemonInv, AwaitedDaemonLives, Listening
      <3> QED BY <3>1, <3>2
    <2>2. ASSUME NEW e \in Daemons, NEW i \in DOMAIN queue'[e]
          PROVE  e # d /\ queue'[e] = queue[e]
      BY <1>2, <2>2
    <2> QED BY <2>1, <2>2 DEF DaemonInv, AwaitedDaemonLives
  <1>9. OnlyListenersQueue'
    BY <1>2, <1>3 DEF DaemonInv, OnlyListenersQueue
  <1>10. ExpiriesWithinTtl'
    BY <1>2 DEF DaemonInv, ExpiriesWithinTtl, Within, NoSessions
  <1>11. TtlHonoured'
    BY <1>6 DEF TtlHonoured, ClientOK
  <1> QED BY <1>7, <1>8, <1>9, <1>10, <1>11 DEF DaemonInv

----------------------------------------------------------------------------
(* The steps that have an argument of their own *)

(* The reply moves a waiting client on, and what it hands out is unexpired. *)
LEMMA RepliedTyped ==
    ASSUME DaemonInv, NEW d \in Daemons, NEW c \in Clients, client[c] \in Active,
           NEW req \in Requests
    PROVE  ClientOK(Replied(d, c, req)) /\ Replied(d, c, req).pc \notin WaitLabels
  <1>1. IsStore(store[d]) /\ now \in Nat
    BY DEF DaemonInv, TypeOK
  <1>2. ClientOK(At(c, "request")) /\ At(c, "request").pc = "request"
    BY AtTyped DEF Labels
  <1>3. \A result \in {"ok", "error", "none"} :
            ClientOK(Ended(c, result)) /\ Ended(c, result).pc = "done"
    BY EndedTyped
  <1>4. ASSUME NEW s \in Unexpired(store[d])
        PROVE  ClientOK(Fetched(c, store[d][s])) /\ Fetched(c, store[d][s]).pc = "done"
    <2> DEFINE expires == store[d][s]
               r == Fetched(c, expires)
    <2>1. expires \in Nat /\ expires > now /\ Within(expires)
      BY <1>1 DEF Unexpired, IsStore, DaemonInv, ExpiriesWithinTtl
    <2> HIDE DEF expires
    <2>2. /\ Fetched(c, expires) \in Done
          /\ Fetched(c, expires).pc = "done"
          /\ Fetched(c, expires).expires = expires
          /\ Fetched(c, expires).at = now
      BY <1>1, <2>1 DEF Fetched, Ended, Done, Active
    <2> HIDE DEF r
    <2>3. ClientOK(Fetched(c, expires))
      BY <1>1, <2>1, <2>2 DEF ClientOK, Within
    <2> QED BY <2>2, <2>3 DEF expires
  <1>5. CASE client[c].pc \in {"probing", "polling"}
    BY <1>2, <1>5 DEF Replied, WaitLabels
  <1>6. CASE client[c].pc \notin {"probing", "polling"} /\ req.kind = "get"
    <2>1. Replied(d, c, req) = IF req.session \in Unexpired(store[d])
                               THEN Fetched(c, store[d][req.session])
                               ELSE Ended(c, "none")
      BY <1>6 DEF Replied
    <2> QED BY <1>3, <1>4, <2>1 DEF WaitLabels
  <1>7. CASE client[c].pc \notin {"probing", "polling"} /\ req.kind # "get"
    <2>1. Replied(d, c, req) = Ended(c, "ok")
      BY <1>7 DEF Replied
    <2> QED BY <1>3, <2>1 DEF WaitLabels
  <1> QED BY <1>5, <1>6, <1>7

(* Serving the first connection of a queue *)
LEMMA ServeKeeps ==
    ASSUME DaemonInv, NEW d \in Daemons, Serve(d)
    PROVE  DaemonInv'
  <1> DEFINE conn == queue[d][1]
             c == conn.client
             req == conn.req
             rest == Tail(queue[d])
             reply == Replied(d, c, req)
  <1>1. /\ queue[d] \in Seq(Connections) /\ queue[d] # <<>>
        /\ Len(queue[d]) \in Nat \ {0}
        /\ DOMAIN queue[d] = 1 .. Len(queue[d])
        /\ Head(queue[d]) = conn
    <2>1. queue[d] # <<>>
      BY DEF Serve
    <2> QED BY <2>1, QueueTyped, EmptySeq
  <1>2. /\ rest \in Seq(Connections)
        /\ DOMAIN rest = 1 .. Len(queue[d]) - 1
        /\ \A i \in 1 .. Len(queue[d]) - 1 : rest[i] = queue[d][i + 1]
    <2>1. /\ rest \in Seq(Connections) /\ Len(rest) = Len(queue[d]) - 1
          /\ \A i \in 1 .. Len(rest) : rest[i] = queue[d][i + 1]
      BY <1>1, HeadTailProperties
    <2>2. DOMAIN rest = 1 .. Len(rest)
      BY <2>1, LenProperties
    <2> QED BY <2>1, <2>2
  <1>3. c \in Clients /\ req \in Requests
    <2>1. 1 \in 1 .. Len(queue[d])
      BY <1>1
    <2>2. c \in Clients \cup {Gone} /\ req \in Requests
      BY <2>1, QueueTyped
    <2> QED BY <1>1, <2>2 DEF Serve
  <1>4. c \in Connected(d)
    <2>1. 1 \in DOMAIN queue[d]
      BY <1>1
    <2> QED BY <2>1 DEF Connected
  <1>5. client[c] \in Active
    BY <1>3, <1>4, ConnectedWait
  <1>6. ClientOK(reply) /\ reply.pc \notin WaitLabels
    BY <1>3, <1>5, RepliedTyped
  <1>7. /\ daemon[d] = "serving"
        /\ store' = [store EXCEPT ![d] = Handled(@, req)]
        /\ daemon' = IF req.kind = "shutdown"
                     THEN [daemon EXCEPT ![d] = "stopping"] ELSE daemon
        /\ client' = [client EXCEPT ![c] = reply]
        /\ queue' = [queue EXCEPT ![d] = rest]
        /\ now' = now /\ path' = path
    BY <1>1 DEF Serve, Become
  <1> HIDE DEF c, req, reply, rest
  <1>8. /\ daemon \in [Daemons -> {"unborn", "starting", "removing", "binding",
                                   "securing", "serving", "stopping", "dead", "killed"}]
        /\ queue \in [Daemons -> Seq(Connections)]
        /\ client \in [Clients -> {Idle} \cup Active \cup Done]
        /\ store = [e \in Daemons |-> store[e]]
    BY DEF DaemonInv, TypeOK
  <1>9. /\ \A e \in Daemons : queue'[e] = IF e = d THEN rest ELSE queue[e]
        /\ \A x \in Clients : client'[x] = IF x = c THEN reply ELSE client[x]
        /\ \A e \in Daemons :
              store'[e] = IF e = d THEN Handled(store[d], req) ELSE store[e]
        /\ store' = [e \in Daemons |-> store'[e]]
    BY <1>3, <1>7, <1>8
  <1>10. Listening' = Listening
    <2>1. \A e \in Daemons : daemon'[e] = daemon[e]
                              \/ (e = d /\ daemon'[e] = "stopping")
      BY <1>7, <1>8
    <2> QED BY <1>7, <2>1 DEF Listening
  <1>11. \A x \in Clients : ClientOK(client'[x])
    BY <1>6, <1>9, ClientCases
  <1>12. \A e \in Daemons : \A x \in Clients :
            x \in Connected(e)' <=> x \in Connected(e) /\ x # c
    <2>1. ASSUME NEW e \in Daemons, NEW x \in Clients, e # d
          PROVE  x \in Connected(e)' <=> x \in Connected(e) /\ x # c
      <3>1. Connected(e)' = Connected(e)
        BY <1>9, <2>1 DEF Connected
      <3>2. c \notin Connected(e)
        BY <1>3, <1>4, <2>1, ConnectedWait
      <3> QED BY <3>1, <3>2
    <2>2. ASSUME NEW x \in Clients
          PROVE  x \in Connected(d)' <=> x \in Connected(d) /\ x # c
      <3>1. Connected(d)' = {rest[i].client : i \in 1 .. Len(queue[d]) - 1}
        BY <1>2, <1>9 DEF Connected
      <3>2. ASSUME x \in Connected(d)' PROVE x \in Connected(d) /\ x # c
        <4>1. PICK i \in 1 .. Len(queue[d]) - 1 : rest[i].client = x
          BY <3>1, <3>2
        <4>2. /\ queue[d][i + 1].client = x /\ i + 1 \in DOMAIN queue[d] /\ i + 1 # 1
              /\ 1 \in DOMAIN queue[d]
          BY <1>1, <1>2, <4>1
        <4>3. x # c
          BY <1>3, <4>2, ProcessAssumption DEF c, DaemonInv, AwaitedDaemonLives
        <4> QED BY <4>2, <4>3 DEF Connected
      <3>3. ASSUME x \in Connected(d), x # c PROVE x \in Connected(d)'
        <4>1. PICK j \in DOMAIN queue[d] : queue[d][j].client = x
          BY <3>3 DEF Connected
        <4>2. j # 1
          BY <3>3, <4>1 DEF c
        <4>3. j - 1 \in 1 .. Len(queue[d]) - 1 /\ rest[j - 1] = queue[d][j]
          BY <1>1, <1>2, <4>2
        <4> QED BY <3>1, <4>1, <4>3
      <3> QED BY <3>2, <3>3
    <2> QED BY <2>1, <2>2
  <1>13. TypeOK'
    <2>1. daemon' \in [Daemons -> {"unborn", "starting", "removing", "binding",
                                   "securing", "serving", "stopping", "dead", "killed"}]
      BY <1>7, <1>8
    <2>2. queue' \in [Daemons -> Seq(Connections)]
      BY <1>2, <1>7, <1>8
    <2>3. client' \in [Clients -> {Idle} \cup Active \cup Done]
      BY <1>6, <1>7, <1>8 DEF ClientOK
    <2>4. \A e \in Daemons : IsStore(store'[e])
      <3>1. req.kind = "put" => Within(req.expires)
        BY <1>1 DEF req, DaemonInv, ExpiriesWithinTtl
      <3> QED BY <1>3, <1>9, <3>1, HandledWithin DEF DaemonInv, TypeOK
    <2> QED BY <1>7, <1>9, <2>1, <2>2, <2>3, <2>4 DEF DaemonInv, TypeOK
  <1>14. AwaitedDaemonLives'
    <2>1. \A x \in Clients : Waiting(x)' <=> Waiting(x) /\ x # c
      BY <1>6, <1>9 DEF Waiting, WaitLabels
    <2>2. \A x \in Clients : Waiting(x)' <=> \E e \in Listening' : x \in Connected(e)'
      BY <1>10, <1>12, <2>1 DEF DaemonInv, AwaitedDaemonLives, Listening
    <2>3. ASSUME NEW e \in Daemons, NEW i \in DOMAIN queue'[e]
          PROVE  \/ e # d /\ i \in DOMAIN queue[e] /\ queue'[e][i] = queue[e][i]
                 \/ e = d /\ i \in Nat /\ i + 1 \in DOMAIN queue[e]
                    /\ queue'[e][i] = queue[e][i + 1]
      BY <1>1, <1>2, <1>9, <2>3
    <2>4. ASSUME NEW e \in Daemons, NEW f \in Daemons,
                 NEW i \in DOMAIN queue'[e], NEW j \in DOMAIN queue'[f],
                 queue'[e][i].client = queue'[f][j].client, queue'[e][i].client # Gone
          PROVE  e = f /\ i = j
      <3> DEFINE Old(g, k) == IF g = d THEN k + 1 ELSE k
      <3>1. /\ Old(e, i) \in DOMAIN queue[e] /\ queue'[e][i] = queue[e][Old(e, i)]
            /\ Old(f, j) \in DOMAIN queue[f] /\ queue'[f][j] = queue[f][Old(f, j)]
        BY <2>3
      <3>2. e = f /\ Old(e, i) = Old(f, j)
        BY <2>4, <3>1 DEF DaemonInv, AwaitedDaemonLives
      <3> QED BY <2>3, <3>2
    <2> QED BY <2>2, <2>4 DEF AwaitedDaemonLives
  <1>15. OnlyListenersQueue'
    <2>1. d \in Listening
      BY <1>7 DEF Listening
    <2> QED BY <1>9, <1>10, <2>1 DEF DaemonInv, OnlyListenersQueue
  <1>16. ExpiriesWithinTtl'
    <2>1. req.kind = "put" => Within(req.expires)
      BY <1>1 DEF req, DaemonInv, ExpiriesWithinTtl
    <2>2. \A e \in Daemons : \A s \in DOMAIN store'[e] : Within(store'[e][s])
      BY <1>3, <1>9, <2>1, HandledWithin DEF DaemonInv, ExpiriesWithinTtl
    <2>3. ASSUME NEW e \in Daemons, NEW i \in DOMAIN queue'[e], queue'[e][i].req.kind = "put"
          PROVE  Within(queue'[e][i].req.expires)
      <3>1. CASE e # d
        BY <1>9, <2>3, <3>1 DEF DaemonInv, ExpiriesWithinTtl
      <3>2. CASE e = d
        <4>1. i + 1 \in DOMAIN queue[d] /\ queue'[e][i] = queue[d][i + 1]
          BY <1>1, <1>2, <1>9, <3>2
        <4> QED BY <2>3, <4>1 DEF DaemonInv, ExpiriesWithinTtl
      <3> QED BY <3>1, <3>2
    <2> QED BY <1>7, <2>2, <2>3 DEF ExpiriesWithinTtl, Within
  <1>17. TtlHonoured'
    BY <1>11 DEF TtlHonoured, ClientOK
  <1> QED BY <1>13, <1>14, <1>15, <1>16, <1>17 DEF DaemonInv

(* A killed client waits no more, and its connection is nobody's. *)
LEMMA KillClientKeeps ==
    ASSUME DaemonInv, NEW c \in Clients, KillClient(c)
    PROVE  DaemonInv'
  <1> DEFINE Hung(d, i) == IF queue[d][i].client = c
                           THEN [client |-> Gone, req |-> Status] ELSE queue[d][i]
  <1>1. /\ client' = [client EXCEPT ![c] = Idle]
        /\ queue' = [d \in Daemons |-> [i \in DOMAIN queue[d] |-> Hung(d, i)]]
        /\ now' = now /\ path' = path /\ daemon' = daemon /\ store' = store
    BY DEF KillClient, Become
  <1>2. [client |-> Gone, req |-> Status] \in Connections
    BY DEF Connections, Requests, Status
  <1>3. /\ client \in [Clients -> {Idle} \cup Active \cup Done]
        /\ queue \in [Daemons -> Seq(Connections)]
    BY DEF DaemonInv, TypeOK
  <1>4. \A d \in Daemons : \A i \in DOMAIN queue[d] : Hung(d, i) \in Connections
    BY <1>2, QueueTyped
  <1>5. /\ \A d \in Daemons : DOMAIN queue'[d] = DOMAIN queue[d]
        /\ \A d \in Daemons : \A i \in DOMAIN queue[d] : queue'[d][i] = Hung(d, i)
        /\ \A x \in Clients : client'[x] = IF x = c THEN Idle ELSE client[x]
        /\ Idle.pc = "idle"
    BY <1>1, <1>3 DEF Idle
  <1>6. \A d \in Daemons : queue'[d] \in Seq(Connections)
    <2> SUFFICES ASSUME NEW d \in Daemons PROVE queue'[d] \in Seq(Connections)
      OBVIOUS
    <2>1. /\ Len(queue[d]) \in Nat
          /\ queue'[d] = [i \in 1 .. Len(queue[d]) |-> Hung(d, i)]
      BY <1>1, QueueTyped
    <2>2. \A i \in 1 .. Len(queue[d]) : Hung(d, i) \in Connections
      BY <1>4, QueueTyped
    <2> HIDE DEF Hung
    <2>3. queue'[d] \in [1 .. Len(queue[d]) -> Connections]
      BY <2>1, <2>2
    <2> QED BY <2>1, <2>3, SeqDef
  <1>7. \A d \in Daemons : \A i \in DOMAIN queue[d] :
            /\ queue'[d][i].client = IF queue[d][i].client = c THEN Gone ELSE queue[d][i].client
            /\ queue'[d][i].req = IF queue[d][i].client = c THEN Status ELSE queue[d][i].req
    BY <1>5
  <1> HIDE DEF Hung
  <1>8. TypeOK'
    <2>1. client' \in [Clients -> {Idle} \cup Active \cup Done]
      BY <1>1, <1>3
    <2>2. queue' \in [Daemons -> Seq(Connections)]
      BY <1>1, <1>6
    <2> QED BY <1>1, <2>1, <2>2 DEF DaemonInv, TypeOK, IsStore
  <1>9. AwaitedDaemonLives'
    <2>1. \A x \in Clients : Waiting(x)' <=> Waiting(x) /\ x # c
      BY <1>5 DEF Waiting
    <2>2. \A d \in Daemons : \A x \in Clients :
              x \in Connected(d)' <=> x \in Connected(d) /\ x # c
      BY <1>5, <1>7, ProcessAssumption DEF Connected
    <2>3. \A x \in Clients : Waiting(x)' <=> \E d \in Listening' : x \in Connected(d)'
      BY <1>1, <2>1, <2>2 DEF DaemonInv, AwaitedDaemonLives, Listening
    <2>4. ASSUME NEW d \in Daemons, NEW e \in Daemons,
                 NEW i \in DOMAIN queue'[d], NEW j \in DOMAIN queue'[e],
                 queue'[d][i].client = queue'[e][j].client, queue'[d][i].client # Gone
          PROVE  d = e /\ i = j
      BY <1>5, <1>7, <2>4 DEF DaemonInv, AwaitedDaemonLives
    <2> QED BY <2>3, <2>4 DEF AwaitedDaemonLives
  <1>10. OnlyListenersQueue'
    <2>1. ASSUME NEW d \in Daemons, queue[d] = <<>> PROVE queue'[d] = <<>>
      BY <1>5, <1>6, <2>1, LenProperties, EmptySeq
    <2> QED BY <1>1, <2>1 DEF DaemonInv, OnlyListenersQueue, Listening
  <1>11. ExpiriesWithinTtl'
    <2>1. Status.kind = "status"
      BY DEF Status
    <2>2. ASSUME NEW d \in Daemons, NEW i \in DOMAIN queue'[d], queue'[d][i].req.kind = "put"
          PROVE  Within(queue'[d][i].req.expires)
      <3>1. i \in DOMAIN queue[d]
        BY <1>5, <2>2
      <3>2. queue'[d][i].req = queue[d][i].req
        BY <1>7, <2>1, <2>2, <3>1
      <3> QED BY <2>2, <3>1, <3>2 DEF DaemonInv, ExpiriesWithinTtl
    <2>3. \A d \in Daemons : \A s \in DOMAIN store[d] : Within(store[d][s])
      BY DEF DaemonInv, ExpiriesWithinTtl
    <2> QED BY <1>1, <2>2, <2>3 DEF ExpiriesWithinTtl, Within
  <1>12. TtlHonoured'
    BY <1>5 DEF DaemonInv, TtlHonoured
  <1> QED BY <1>8, <1>9, <1>10, <1>11, <1>12 DEF DaemonInv

(* As time passes, what was within a lifetime of now stays so. *)
LEMMA TickKeeps ==
    ASSUME DaemonInv, Tick
    PROVE  DaemonInv'
  <1>1. now \in Nat /\ now' = now + 1
    BY DEF Tick, DaemonInv, TypeOK
  <1>2. ASSUME NEW expires \in Nat, Within(expires) PROVE Within(expires)'
    BY <1>1, <1>2, TimeAssumption DEF Within
  <1>3. TypeOK'
    BY <1>1 DEF Tick, DaemonInv, TypeOK, IsStore
  <1>4. AwaitedDaemonLives' /\ OnlyListenersQueue' /\ TtlHonoured'
    BY DEF Tick, DaemonInv, AwaitedDaemonLives, OnlyListenersQueue, TtlHonoured,
           Waiting, Connected, Listening
  <1>5. ExpiriesWithinTtl'
    <2>1. ASSUME NEW d \in Daemons, NEW s \in DOMAIN store'[d]
          PROVE  Within(store[d][s])'
      <3>1. store' = store
        BY DEF Tick
      <3>2. store[d][s] \in Nat /\ Within(store[d][s])
        BY <2>1, <3>1 DEF DaemonInv, TypeOK, IsStore, ExpiriesWithinTtl
      <3> QED BY <1>1, <3>1, <3>2, TimeAssumption DEF Within
    <2>2. ASSUME NEW d \in Daemons, NEW i \in DOMAIN queue'[d],
                 queue'[d][i].req.kind = "put"
          PROVE  Within(queue[d][i].req.expires)'
      <3>1. queue' = queue
        BY DEF Tick
      <3>2. queue[d][i].req \in Requests
        BY <2>2, <3>1, QueueTyped
      <3>3. queue[d][i].req.expires \in Nat /\ Within(queue[d][i].req.expires)
        BY <2>2, <3>1, <3>2 DEF Requests, DaemonInv, ExpiriesWithinTtl
      <3> QED BY <1>1, <3>1, <3>3, TimeAssumption DEF Within
    <2> QED BY <2>1, <2>2 DEF ExpiriesWithinTtl
  <1> QED BY <1>3, <1>4, <1>5 DEF DaemonInv

----------------------------------------------------------------------------
(* The invariant, action by action *)

(* Before anything is spawned, nobody waits and nothing is stored. *)
LEMMA InitDaemonInv == Init => DaemonInv
  <1> SUFFICES ASSUME Init PROVE DaemonInv
    OBVIOUS
  <1>1. \A d \in Daemons : queue[d] = <<>> /\ store[d] = NoSessions /\ daemon[d] = "unborn"
    BY DEF Init
  <1>2. \A c \in Clients : client[c] = Idle /\ client[c].pc = "idle"
    BY DEF Init, Idle
  <1>3. TypeOK
    BY EmptySeq, ProcessAssumption DEF Init, TypeOK, IsStore, NoSessions
  <1>4. Listening = {} /\ \A c \in Clients : ~Waiting(c)
    BY <1>1, <1>2 DEF Listening, Waiting
  <1>5. AwaitedDaemonLives
    BY <1>1, <1>4 DEF AwaitedDaemonLives
  <1>6. OnlyListenersQueue /\ ExpiriesWithinTtl
    BY <1>1 DEF OnlyListenersQueue, ExpiriesWithinTtl, NoSessions
  <1>7. TtlHonoured
    BY <1>2 DEF TtlHonoured
  <1> QED BY <1>3, <1>5, <1>6, <1>7 DEF DaemonInv

(* Steps of a client's own command *)
LEMMA ClientStepKeeps ==
    ASSUME DaemonInv, NEW c \in Clients, Call(c) \/ ClientStep(c) \/ Return(c)
    PROVE  DaemonInv'
  <1>1. daemon \in [Daemons -> {"unborn", "starting", "removing", "binding",
                                "securing", "serving", "stopping", "dead", "killed"}]
    BY DEF DaemonInv, TypeOK
  <1>2. UNCHANGED daemon => Listening' = Listening
    BY DEF Listening
  <1>3. CASE Call(c)
    <2>1. PICK call \in {"unlock", "fetch", "status", "lock", "clear"}, s \in Sessions :
              Become(c, [pc |-> IF call = "unlock" THEN "probe" ELSE "request",
                         call |-> call, session |-> s,
                         before |-> IF call = "lock" THEN Holding ELSE {}])
      BY <1>3 DEF Call
    <2> DEFINE r == [pc |-> IF call = "unlock" THEN "probe" ELSE "request",
                     call |-> call, session |-> s,
                     before |-> IF call = "lock" THEN Holding ELSE {}]
    <2>2. r \in Active /\ r.pc \in {"probe", "request"}
      BY DEF Active, Labels, Calls, Holding, Alive
    <2>3. client[c].pc = "idle"
      BY <1>3 DEF Call, Idle
    <2> HIDE DEF r
    <2>4. ClientOK(r) /\ r.pc \notin WaitLabels /\ ~Waiting(c)
      BY <2>2, <2>3 DEF ClientOK, WaitLabels, Waiting
    <2> QED BY <1>1, <1>2, <1>3, <2>1, <2>4, ClientMoves DEF Call, r
  <1>4. CASE Probe(c)
    <2>1. client[c].pc = "probe" /\ client[c] \in Active /\ ~Waiting(c)
      BY <1>4, ClientCases DEF Probe, Labels, Waiting
    <2>2. CASE Connect(c, Status, "probing")
      <3>1. Status \in Requests /\ Status.kind # "put"
        BY DEF Status, Requests
      <3> QED BY <2>1, <2>2, <3>1, ConnectKeeps DEF WaitLabels
    <2>3. CASE Become(c, At(c, "spawn")) /\ UNCHANGED <<now, path, daemon, store, queue>>
      <3>1. ClientOK(At(c, "spawn")) /\ At(c, "spawn").pc = "spawn"
        BY <2>1, AtTyped DEF Labels
      <3> QED BY <1>1, <1>2, <2>1, <2>3, <3>1, ClientMoves DEF WaitLabels
    <2> QED BY <1>4, <2>2, <2>3 DEF Probe
  <1>5. CASE Spawn(c)
    <2>1. client[c].pc = "spawn" /\ client[c] \in Active /\ ~Waiting(c)
      BY <1>5, ClientCases DEF Spawn, Labels, Waiting
    <2>2. UNCHANGED <<now, path, store, queue>>
      BY <1>5 DEF Spawn
    <2>3. CASE \E d \in Daemons :
                   /\ daemon[d] = "unborn"
                   /\ daemon' = [daemon EXCEPT ![d] = "starting"]
                   /\ Become(c, At(c, "poll"))
      <3>1. PICK d \in Daemons : /\ daemon[d] = "unborn"
                                 /\ daemon' = [daemon EXCEPT ![d] = "starting"]
                                 /\ Become(c, At(c, "poll"))
        BY <2>3
      <3>2. ClientOK(At(c, "poll")) /\ At(c, "poll").pc = "poll"
        BY <2>1, AtTyped DEF Labels
      <3>3. Listening' = Listening
        BY <1>1, <3>1 DEF Listening
      <3> QED BY <1>1, <2>1, <2>2, <3>1, <3>2, <3>3, ClientMoves DEF WaitLabels
    <2>4. CASE Become(c, Ended(c, "error")) /\ UNCHANGED daemon
      <3>1. ClientOK(Ended(c, "error")) /\ Ended(c, "error").pc = "done"
        BY <2>1, EndedTyped
      <3> QED BY <1>1, <1>2, <2>1, <2>2, <2>4, <3>1, ClientMoves DEF WaitLabels
    <2> QED BY <1>5, <2>3, <2>4 DEF Spawn
  <1>6. CASE Poll(c)
    <2>1. client[c] \in Active /\ ~Waiting(c)
      BY <1>6, ClientCases DEF Poll, Labels, Waiting
    <2>2. Status \in Requests /\ Status.kind # "put"
      BY DEF Status, Requests
    <2> QED BY <1>6, <2>1, <2>2, ConnectKeeps DEF Poll, WaitLabels
  <1>7. CASE PollTimeout(c)
    <2>1. client[c] \in Active /\ ~Waiting(c)
      BY <1>7, ClientCases DEF PollTimeout, Labels, Waiting
    <2>2. ClientOK(Ended(c, "error")) /\ Ended(c, "error").pc = "done"
      BY <2>1, EndedTyped
    <2> QED BY <1>1, <1>2, <1>7, <2>1, <2>2, ClientMoves DEF PollTimeout, WaitLabels
  <1>8. CASE Request(c)
    <2>1. client[c] \in Active /\ ~Waiting(c)
      BY <1>8, ClientCases DEF Request, Labels, Waiting
    <2>2. client[c].call \in Calls /\ client[c].session \in Sessions
      BY <2>1 DEF Active
    <2>3. ASSUME NEW ttl \in TTLs,
                 Connect(c, RequestOf(client[c].call, client[c].session, now + ttl),
                         "requesting")
          PROVE  DaemonInv'
      <3> DEFINE req == RequestOf(client[c].call, client[c].session, now + ttl)
      <3>1. now + ttl \in Nat /\ Within(now + ttl)
        BY TimeAssumption DEF DaemonInv, TypeOK, Within
      <3>2. req \in Requests /\ (req.kind = "put" => Within(req.expires))
        <4>1. CASE client[c].call = "unlock"
          BY <2>2, <3>1, <4>1 DEF RequestOf, Requests
        <4>2. CASE client[c].call = "fetch"
          BY <2>2, <4>2 DEF RequestOf, Requests
        <4>3. CASE client[c].call = "clear"
          BY <2>2, <4>3 DEF RequestOf, Requests
        <4>4. CASE client[c].call = "lock"
          BY <2>2, <4>4 DEF RequestOf, Requests
        <4>5. CASE client[c].call = "status"
          BY <2>2, <4>5 DEF RequestOf, Requests, Status
        <4> QED BY <2>2, <4>1, <4>2, <4>3, <4>4, <4>5 DEF Calls
      <3> HIDE DEF req
      <3>3. Connect(c, req, "requesting")
        BY <2>3 DEF req
      <3> QED BY <2>1, <3>2, <3>3, ConnectKeeps DEF WaitLabels
    <2>4. CASE /\ Become(c, Ended(c, Unavailable[client[c].call]))
               /\ UNCHANGED <<now, path, daemon, store, queue>>
      <3>1. Unavailable[client[c].call] \in {"ok", "error", "none"}
        BY <2>2 DEF Unavailable, Calls
      <3>2. /\ ClientOK(Ended(c, Unavailable[client[c].call]))
            /\ Ended(c, Unavailable[client[c].call]).pc = "done"
        BY <2>1, <3>1, EndedTyped
      <3> QED BY <1>1, <1>2, <2>1, <2>4, <3>2, ClientMoves DEF WaitLabels
    <2> QED BY <1>8, <2>3, <2>4 DEF Request
  <1>9. CASE Return(c)
    <2>1. ~Waiting(c) /\ ClientOK(Idle) /\ Idle.pc = "idle"
      BY <1>9 DEF Return, Waiting, ClientOK, Idle
    <2> QED BY <1>1, <1>2, <1>9, <2>1, ClientMoves DEF Return, WaitLabels
  <1> QED BY <1>3, <1>4, <1>5, <1>6, <1>7, <1>8, <1>9 DEF ClientStep

(* Steps of a daemon, its death included *)
LEMMA DaemonStepKeeps ==
    ASSUME DaemonInv, NEW d \in Daemons, DaemonStep(d) \/ KillDaemon(d)
    PROVE  DaemonInv'
  <1>1. path \in Daemons \cup {NoFile}
    BY DEF DaemonInv, TypeOK
  <1>2. CASE ServeCheck(d)
    <2>1. d \notin Listening
      BY <1>2 DEF ServeCheck, Listening
    <2> QED BY <1>1, <1>2, <2>1, ProceedKeeps DEF ServeCheck
  <1>3. CASE ServeRemove(d)
    <2>1. d \notin Listening
      BY <1>3 DEF ServeRemove, Listening
    <2> QED BY <1>1, <1>3, <2>1, ProceedKeeps, EndKeeps DEF ServeRemove, Die
  <1>4. CASE ServeBind(d)
    <2>1. d \notin Listening
      BY <1>4 DEF ServeBind, Listening
    <2> QED BY <1>1, <1>4, <2>1, ProceedKeeps, EndKeeps DEF ServeBind, Die
  <1>5. CASE ServeSecure(d)
    BY <1>1, <1>5, ProceedKeeps, EndKeeps DEF ServeSecure, Die
  <1>6. CASE Serve(d)
    BY <1>6, ServeKeeps
  <1>7. CASE ServeGone(d)
    BY <1>1, <1>7, EndKeeps DEF ServeGone, Die
  <1>8. CASE ServeStop(d)
    BY <1>8, EndKeeps DEF ServeStop, Die
  <1>9. CASE KillDaemon(d)
    BY <1>1, <1>9, EndKeeps DEF KillDaemon, Die
  <1> QED BY <1>2, <1>3, <1>4, <1>5, <1>6, <1>7, <1>8, <1>9 DEF DaemonStep

(* Every step keeps the invariant. *)
LEMMA DaemonInvStep == DaemonInv /\ [Next]_vars => DaemonInv'
  <1> SUFFICES ASSUME DaemonInv, [Next]_vars PROVE DaemonInv'
    OBVIOUS
  <1>1. CASE UNCHANGED vars
    BY <1>1 DEF vars, DaemonInv, TypeOK, AwaitedDaemonLives, OnlyListenersQueue,
                ExpiriesWithinTtl, TtlHonoured, Waiting, Connected, Listening, Within, IsStore
  <1>2. CASE \E c \in Clients : Call(c) \/ ClientStep(c) \/ Return(c) \/ KillClient(c)
    BY <1>2, ClientStepKeeps, KillClientKeeps
  <1>3. CASE \E d \in Daemons : DaemonStep(d) \/ KillDaemon(d)
    BY <1>3, DaemonStepKeeps
  <1>4. CASE Tick
    BY <1>4, TickKeeps
  <1> QED BY <1>1, <1>2, <1>3, <1>4 DEF Next

(* The inductive invariant holds throughout, for any instance. *)
THEOREM DaemonInvariant == Spec => []DaemonInv
  <1> QED BY InitDaemonInv, DaemonInvStep, PTL DEF Spec

(* Type correctness of daemons, clients and the connections between them *)
THEOREM TypeCorrect == Spec => []TypeOK
  <1>1. DaemonInv => TypeOK
    BY DEF DaemonInv
  <1> QED BY <1>1, DaemonInvariant, PTL

(* Whatever daemons are spawned, orphaned and killed, no fetch hands out a *)
(* key past the lifetime it was unlocked for (UnlockStore::get prunes).    *)
THEOREM LifetimesHonoured == Spec => []TtlHonoured
  <1>1. DaemonInv => TtlHonoured
    BY DEF DaemonInv
  <1> QED BY <1>1, DaemonInvariant, PTL

(* No client ever blocks on a reply that nobody is left to give: it waits  *)
(* exactly while one live daemon holds its connection.                     *)
THEOREM NobodyWaitsForTheDead == Spec => []AwaitedDaemonLives
  <1>1. DaemonInv => AwaitedDaemonLives
    BY DEF DaemonInv
  <1> QED BY <1>1, DaemonInvariant, PTL

----------------------------------------------------------------------------
(* One command at a time: which daemon lock reaches *)

(* What LockInv adds to DaemonInv *)
LockPart == OneDaemon /\ BornBefore /\ LockAsksShutdown /\ LockEndsSessions

OneCommand == \A b, c \in Clients : b = c

(* A daemon that lives and is not starting can be reached; a client that   *)
(* is not polling finds no daemon starting.                                *)
LEMMA NobodyReachable ==
    ASSUME LockInv, NEW c \in Clients, client[c].pc # "poll"
    PROVE  /\ Starting = {}
           /\ ~Reachable => Alive = {}
  <1>1. \A d \in Starting : d \in Alive
    BY DEF Starting, Alive
  <1>2. Starting = {}
    BY <1>1 DEF LockInv, OneDaemon
  <1>3. ASSUME NEW d \in Alive PROVE d = path /\ d \in Listening
    <2>1. d \in Daemons /\ d \notin Starting /\ d = path
      BY <1>2 DEF Alive, LockInv, OneDaemon
    <2>2. daemon[d] \in {"unborn", "starting", "removing", "binding",
                         "securing", "serving", "stopping", "dead", "killed"}
      BY <2>1 DEF LockInv, DaemonInv, TypeOK
    <2> QED BY <2>1, <2>2 DEF Alive, Starting, Listening
  <1> QED BY <1>2, <1>3 DEF Reachable

(* The client moves on without a connection, and no daemon changes. *)
LEMMA ClientMovesLock ==
    ASSUME LockInv, OneCommand, NEW c \in Clients, NEW r,
           Become(c, r), UNCHANGED <<path, daemon, queue>>,
           r.pc # "requesting",
           r.pc = "spawn" => Alive = {},
           Starting = {},
           r.pc # "idle" => \A d \in r.before : daemon[d] # "unborn",
           r.pc = "done" /\ r.call = "lock" /\ r.result = "ok" =>
               \A d \in r.before : daemon[d] \in {"stopping", "dead", "killed"}
    PROVE  LockPart'
  <1>1. client'[c] = r /\ \A x \in Clients : x = c
    BY DEF Become, LockInv, DaemonInv, TypeOK, OneCommand
  <1>2. Alive' = Alive /\ Starting' = {}
    BY DEF Alive, Starting
  <1>3. OneDaemon'
    BY <1>1, <1>2 DEF LockInv, OneDaemon
  <1>4. BornBefore'
    BY <1>1 DEF BornBefore
  <1>5. LockAsksShutdown'
    <2>1. \A d \in Daemons : \A i \in DOMAIN queue[d] : queue[d][i].client \in Clients \cup {Gone}
      BY QueueTyped DEF LockInv
    <2> QED BY <1>1, <2>1 DEF LockAsksShutdown
  <1>6. LockEndsSessions'
    BY <1>1 DEF LockEndsSessions
  <1> QED BY <1>3, <1>4, <1>5, <1>6 DEF LockPart

(* A connection of lock asks for the shutdown of the one living daemon. *)
LEMMA ConnectKeepsLock ==
    ASSUME LockInv, OneCommand, NEW c \in Clients, client[c] \in Active, ~Waiting(c),
           NEW req, NEW label \in WaitLabels, Connect(c, req, label),
           label = "requesting" /\ client[c].call = "lock" => req.kind = "shutdown"
    PROVE  LockPart'
  <1>1. path \in Listening /\ path \in Daemons /\ path \in Alive /\ path \notin Starting
    BY DEF Connect, Reachable, Listening, Alive, Starting
  <1>2. \A x \in Clients : x = c
    BY DEF OneCommand
  <1>3. client'[c] = At(c, label)
    BY DEF Connect, Become, LockInv, DaemonInv, TypeOK
  <1>4. /\ client'[c].pc = label
        /\ client'[c].call = client[c].call
        /\ client'[c].before = client[c].before
        /\ client[c].pc # "idle"
    BY <1>3 DEF At, Active, Labels
  <1>5. label \notin {"spawn", "done", "poll", "idle"}
    BY DEF WaitLabels
  <1>6. daemon' = daemon /\ path' = path /\ Alive' = Alive /\ Starting' = Starting
    BY DEF Connect, Alive, Starting
  <1>7. Starting = {}
    <2>1. \A d \in Starting : d \in Alive
      BY DEF Starting, Alive
    <2> QED BY <1>1, <2>1 DEF LockInv, OneDaemon
  <1>8. OneDaemon'
    BY <1>2, <1>4, <1>5, <1>6, <1>7 DEF LockInv, OneDaemon
  <1>9. BornBefore'
    BY <1>2, <1>4, <1>6 DEF LockInv, BornBefore
  <1>10. LockAsksShutdown'
    <2> SUFFICES ASSUME NEW d \in Daemons, NEW i \in DOMAIN queue'[d],
                        queue'[d][i].client # Gone,
                        queue'[d][i].client = c,
                        client'[c].pc = "requesting", client'[c].call = "lock"
                 PROVE  queue'[d][i].req.kind = "shutdown"
      <3>1. \A d \in Daemons : \A i \in DOMAIN queue'[d] :
                queue'[d][i].client # Gone => queue'[d][i].client = c
        <4>1. DaemonInv => \A d \in Daemons : \A i \in DOMAIN queue[d] :
                  queue[d][i].client # Gone => queue[d][i].client = c
          BY <1>2, QueueTyped
        <4> QED BY <1>1, <1>2, <4>1, QueueTyped, AppendProperties DEF Connect, LockInv, DaemonInv, TypeOK
      <3> QED BY <3>1 DEF LockAsksShutdown
    <2>1. req.kind = "shutdown"
      BY <1>4
    <2>2. \A e \in Daemons : \A j \in DOMAIN queue[e] : queue[e][j].client # c
      BY ConnectedWait DEF Connected, LockInv
    <2>3. CASE d = path /\ i = Len(queue[path]) + 1
      BY <1>1, <2>1, <2>3, QueueTyped, AppendProperties DEF Connect, LockInv, DaemonInv, TypeOK
    <2>4. CASE d # path
      BY <1>1, <2>2, <2>4 DEF Connect, LockInv, DaemonInv, TypeOK
    <2>5. CASE d = path /\ i # Len(queue[path]) + 1
      BY <1>1, <2>2, <2>5, QueueTyped, AppendProperties DEF Connect, LockInv, DaemonInv, TypeOK
    <2> QED BY <2>3, <2>4, <2>5
  <1>11. LockEndsSessions'
    BY <1>2, <1>4, <1>5 DEF LockEndsSessions
  <1> QED BY <1>8, <1>9, <1>10, <1>11 DEF LockPart

(* The one living daemon dies: none is left. *)
LEMMA EndKeepsLock ==
    ASSUME LockInv, OneCommand, NEW d \in Alive, NEW label \in {"dead", "killed"}, Ends(d, label)
    PROVE  LockPart'
  <1>1. d \in Daemons /\ daemon' = [daemon EXCEPT ![d] = label]
    BY DEF Alive, Ends
  <1>2. \A e \in Daemons : daemon'[e] = IF e = d THEN label ELSE daemon[e]
    BY <1>1 DEF LockInv, DaemonInv, TypeOK
  <1>3. Alive' = {}
    BY <1>2 DEF Alive, LockInv, OneDaemon
  <1>4. \A c \in Clients : client'[c] = IF c \in Connected(d) THEN CutOff(c) ELSE client[c]
    BY DEF Ends
  <1>5. ASSUME NEW c \in Clients
        PROVE  /\ client'[c].pc # "idle" => /\ client[c].pc # "idle"
                                            /\ client'[c].before = client[c].before
               /\ client'[c].pc = "requesting" => client'[c] = client[c]
    <2>1. CASE c \in Connected(d)
      <3>1. client[c] \in Active /\ client[c].pc # "idle"
        BY <1>1, <2>1, ConnectedWait DEF LockInv, Active, Labels
      <3>2. CASE client[c].pc = "polling"
        BY <1>4, <2>1, <3>1, <3>2 DEF CutOff, At, Active
      <3>3. CASE client[c].pc # "polling"
        <4>1. client'[c] = Ended(c, "error")
          BY <1>4, <2>1, <3>3 DEF CutOff
        <4>2. client'[c].pc = "done" /\ client'[c].before = client[c].before
          BY <4>1 DEF Ended
        <4> QED BY <3>1, <4>2
      <3> QED BY <3>2, <3>3
    <2>2. CASE c \notin Connected(d)
      BY <1>4, <2>2
    <2> QED BY <2>1, <2>2
  <1>6. OneDaemon'
    BY <1>3 DEF OneDaemon
  <1>7. BornBefore'
    <2>1. \A c \in Clients : client'[c].pc # "idle" =>
              \A e \in client[c].before : daemon[e] # "unborn"
      BY <1>5 DEF LockInv, BornBefore
    <2>2. \A e : daemon[e] # "unborn" => daemon'[e] # "unborn"
      BY <1>1 DEF LockInv, DaemonInv, TypeOK
    <2> QED BY <1>5, <2>1, <2>2 DEF BornBefore
  <1>8. LockAsksShutdown'
    <2>1. \A e \in Daemons : queue'[e] = IF e = d THEN <<>> ELSE queue[e]
      BY DEF Ends, LockInv, DaemonInv, TypeOK
    <2>2. \A e \in Daemons : \A i \in DOMAIN queue[e] : queue[e][i].client \in Clients \cup {Gone}
      BY QueueTyped DEF LockInv
    <2>3. \A e \in Daemons : \A i \in DOMAIN queue'[e] : e # d
      BY <2>1
    <2> QED BY <1>5, <2>1, <2>2, <2>3 DEF LockInv, LockAsksShutdown
  <1>9. LockEndsSessions'
    <2>1. \A c \in Clients : client[c].pc # "idle" => client[c].before \subseteq Daemons
      BY ClientCases DEF LockInv, DaemonInv, TypeOK, Active, Done, Idle
    <2>2. \A c \in Clients : client'[c].pc = "done" => client'[c].before \subseteq Daemons
      BY <1>5, <2>1
    <2> QED BY <1>3, <1>7, <2>2 DEF LockEndsSessions, BornBefore, Alive
  <1> QED BY <1>6, <1>7, <1>8, <1>9 DEF LockPart

(* The living daemon moves on in serve(): the socket file is its own when  *)
(* it listens.                                                             *)
LEMMA ProceedKeepsLock ==
    ASSUME LockInv, NEW d \in Alive, daemon[d] # "stopping",
           NEW label \in {"removing", "binding", "securing", "serving"},
           Proceed(d, label),
           label \in {"removing", "binding"} => d \in Starting,
           label \in {"securing", "serving"} => path' = d
    PROVE  LockPart'
  <1>1. d \in Daemons /\ daemon[d] \notin {"unborn", "dead", "killed", "stopping"}
    BY DEF Alive
  <1>2. /\ client' = client /\ queue' = queue
        /\ \A e \in Daemons : daemon'[e] = IF e = d THEN label ELSE daemon[e]
    BY <1>1 DEF Proceed, LockInv, DaemonInv, TypeOK
  <1>3. Alive' = Alive /\ \A e \in Alive : e = d
    BY <1>1, <1>2 DEF Alive, LockInv, OneDaemon
  <1>4. d \in Starting' => d \in Starting
    BY <1>1, <1>2 DEF Starting
  <1>5. d \notin Starting' => path' = d
    BY <1>1, <1>2 DEF Starting
  <1>6. OneDaemon'
    BY <1>2, <1>3, <1>4, <1>5 DEF LockInv, OneDaemon
  <1>7. BornBefore'
    BY <1>2, <1>1 DEF LockInv, DaemonInv, TypeOK, BornBefore, Proceed
  <1>8. LockAsksShutdown'
    BY <1>2 DEF LockInv, LockAsksShutdown
  <1>9. LockEndsSessions'
    BY <1>1, <1>2 DEF LockInv, DaemonInv, TypeOK, LockEndsSessions, Proceed
  <1> QED BY <1>6, <1>7, <1>8, <1>9 DEF LockPart

(* The daemon that answers a lock leaves its loop in the same turn.        *)
LEMMA ServeKeepsLock ==
    ASSUME LockInv, OneCommand, NEW d \in Daemons, Serve(d)
    PROVE  LockPart'
  <1> DEFINE conn == Head(queue[d])
             c == conn.client
  <1>1. daemon[d] = "serving" /\ queue[d] # <<>> /\ c # Gone
    BY DEF Serve
  <1>2. conn = queue[d][1] /\ 1 \in DOMAIN queue[d] /\ c \in Clients /\ c \in Connected(d)
    <2>1. queue[d] \in Seq(Connections) /\ Len(queue[d]) \in Nat
          /\ DOMAIN queue[d] = 1 .. Len(queue[d])
      BY QueueTyped DEF LockInv
    <2>2. 1 \in DOMAIN queue[d] /\ conn = queue[d][1]
      BY <1>1, <2>1, EmptySeq
    <2> HIDE DEF conn
    <2> QED BY <1>1, <2>1, <2>2, QueueTyped DEF Connected, LockInv
  <1>3. /\ daemon' = IF conn.req.kind = "shutdown"
                     THEN [daemon EXCEPT ![d] = "stopping"] ELSE daemon
        /\ client' = [client EXCEPT ![c] = Replied(d, c, conn.req)]
        /\ queue' = [queue EXCEPT ![d] = Tail(@)]
        /\ path' = path
    BY DEF Serve, Become
  <1>4. client[c] \in Active /\ client[c].pc \in {"probing", "polling", "requesting"}
    BY <1>2, ConnectedWait DEF LockInv, Waiting
  <1>5. client[c].pc = "requesting" /\ client[c].call = "lock" => conn.req.kind = "shutdown"
    BY <1>1, <1>2 DEF LockInv, LockAsksShutdown
  <1> HIDE DEF conn, c
  <1>6. client'[c] = Replied(d, c, conn.req) /\ \A x \in Clients : x = c
    BY <1>2, <1>3 DEF LockInv, DaemonInv, TypeOK, OneCommand
  <1>7. /\ client'[c].before = client[c].before
        /\ client'[c].pc \in {"request", "done"}
        /\ client'[c].pc = "done" => client[c].pc = "requesting"
        /\ client'[c].pc = "done" => client'[c].call = client[c].call
    <2>1. CASE client[c].pc \in {"probing", "polling"}
      <3>1. client'[c] = At(c, "request")
        BY <1>6, <2>1 DEF Replied
      <3> QED BY <1>4, <3>1 DEF At, Active
    <2>2. CASE client[c].pc = "requesting"
      <3>1. \/ \E result \in {"ok", "none"} : client'[c] = Ended(c, result)
            \/ \E expires : client'[c] = Fetched(c, expires)
        BY <1>6, <2>2 DEF Replied
      <3>2. CASE \E result \in {"ok", "none"} : client'[c] = Ended(c, result)
        BY <2>2, <3>2 DEF Ended
      <3>3. CASE \E expires : client'[c] = Fetched(c, expires)
        BY <2>2, <3>3 DEF Fetched, Ended
      <3> QED BY <3>1, <3>2, <3>3
    <2> QED BY <1>4, <2>1, <2>2
  <1>8. \A e \in Daemons : daemon'[e] = IF e = d /\ conn.req.kind = "shutdown"
                                        THEN "stopping" ELSE daemon[e]
    BY <1>3 DEF LockInv, DaemonInv, TypeOK
  <1>9. d \in Alive /\ d \notin Starting /\ path = d /\ \A e \in Alive : e = d
    BY <1>1 DEF Alive, Starting, LockInv, OneDaemon
  <1>10. Alive' = Alive /\ d \notin Starting'
    BY <1>1, <1>8 DEF Alive, Starting
  <1>11. OneDaemon'
    BY <1>3, <1>6, <1>7, <1>9, <1>10 DEF OneDaemon
  <1>12. client[c].before \subseteq Daemons /\ client[c].pc # "idle"
    BY <1>4 DEF Active
  <1>13. \A e \in client[c].before : e \in Daemons /\ daemon[e] # "unborn"
    BY <1>2, <1>12 DEF LockInv, BornBefore
  <1>14. BornBefore'
    BY <1>6, <1>7, <1>8, <1>13 DEF BornBefore
  <1>15. LockAsksShutdown'
    <2>1. client'[c].pc # "requesting"
      BY <1>7
    <2>2. \A e \in Daemons : \A i \in DOMAIN queue'[e] :
              queue'[e][i].client # Gone => queue'[e][i].client \in Clients
      <3>1. DaemonInv'
        BY DaemonInvStep DEF LockInv, Next, DaemonStep
      <3>2. \A e \in Daemons : queue'[e] \in Seq(Connections)
        BY <3>1 DEF DaemonInv, TypeOK
      <3>3. \A e \in Daemons : \A i \in DOMAIN queue'[e] : queue'[e][i] \in Connections
        BY <3>2, ElementOfSeq, LenProperties
      <3> QED BY <3>3 DEF Connections
    <2> QED BY <1>6, <2>1, <2>2 DEF LockAsksShutdown
  <1>16. LockEndsSessions'
    <2> SUFFICES ASSUME client'[c].pc = "done", client'[c].call = "lock",
                        NEW e \in client[c].before
                 PROVE  daemon'[e] \in {"stopping", "dead", "killed"}
      BY <1>6, <1>7 DEF LockEndsSessions
    <2>1. conn.req.kind = "shutdown"
      BY <1>5, <1>7
    <2>2. CASE e \in Alive
      BY <1>8, <1>9, <1>13, <2>1, <2>2
    <2>3. CASE e \notin Alive
      BY <1>8, <1>13, <2>3 DEF Alive
    <2> QED BY <2>2, <2>3
  <1> QED BY <1>11, <1>14, <1>15, <1>16 DEF LockPart

(* A client that waits for an answer is killed: no daemon is starting, and *)
(* the connection no longer is of a client.                                *)
LEMMA KillKeepsLock ==
    ASSUME LockInv, OneCommand, NEW c \in Clients, Waiting(c), KillClient(c)
    PROVE  LockPart'
  <1>1. client[c].pc # "poll" /\ UNCHANGED <<path, daemon>> /\ \A x \in Clients : x = c
    BY DEF Waiting, KillClient, OneCommand
  <1>2. \A x \in Clients : client'[x].pc = "idle"
    BY <1>1 DEF KillClient, Become, LockInv, DaemonInv, TypeOK, Idle
  <1>3. Starting = {}
    BY <1>1, NobodyReachable
  <1>4. OneDaemon'
    BY <1>1, <1>2, <1>3 DEF LockInv, OneDaemon, Alive, Starting
  <1>5. BornBefore' /\ LockEndsSessions'
    BY <1>2 DEF BornBefore, LockEndsSessions
  <1>6. LockAsksShutdown'
    <2>1. DaemonInv'
      BY KillClientKeeps DEF LockInv
    <2>2. \A d \in Daemons : queue'[d] \in Seq(Connections)
      BY <2>1 DEF DaemonInv, TypeOK
    <2>3. \A d \in Daemons : \A i \in DOMAIN queue'[d] : queue'[d][i].client \in Clients \cup {Gone}
      <3>1. \A d \in Daemons : \A i \in DOMAIN queue'[d] : queue'[d][i] \in Connections
        BY <2>2, ElementOfSeq, LenProperties
      <3> QED BY <3>1 DEF Connections
    <2> QED BY <1>2, <2>3 DEF LockAsksShutdown
  <1> QED BY <1>4, <1>5, <1>6 DEF LockPart

(* Every step of one command at a time keeps the invariant, provided the   *)
(* client is killed only while it waits for an answer, if at all, and      *)
(* polls as long as its daemon starts.                                     *)
LEMMA LockInvStep ==
    ASSUME LockInv, OneCommand, Patient, "client" \notin Kills, [Next]_vars
    PROVE  LockInv'
  <1>1. DaemonInv'
    BY DaemonInvStep DEF LockInv
  <1>2. ASSUME NEW c \in Clients, Call(c) PROVE LockPart'
    <2>1. PICK call \in Calls, s \in Sessions :
              Become(c, [pc |-> IF call = "unlock" THEN "probe" ELSE "request",
                         call |-> call, session |-> s,
                         before |-> IF call = "lock" THEN Holding ELSE {}])
      BY <1>2 DEF Call, Calls
    <2> DEFINE r == [pc |-> IF call = "unlock" THEN "probe" ELSE "request",
                     call |-> call, session |-> s,
                     before |-> IF call = "lock" THEN Holding ELSE {}]
    <2>2. r.pc \in {"probe", "request"} /\ \A d \in r.before : daemon[d] # "unborn"
      BY DEF Holding, Alive
    <2>3. client[c].pc = "idle"
      BY <1>2 DEF Call, Idle
    <2> HIDE DEF r
    <2>4. Starting = {}
      BY <2>3, NobodyReachable
    <2>5. Become(c, r)
      BY <2>1 DEF r
    <2> QED BY <1>2, <2>2, <2>4, <2>5, ClientMovesLock DEF Call
  <1>3. ASSUME NEW c \in Clients, client[c].pc \in Labels
        PROVE  /\ client[c] \in Active
               /\ \A d \in client[c].before : daemon[d] # "unborn"
               /\ client[c].before \subseteq Daemons
    BY <1>3, ClientCases DEF LockInv, BornBefore, Active, Labels
  <1>4. ASSUME NEW c \in Clients, NEW label \in Labels, client[c] \in Active
        PROVE  At(c, label).pc = label /\ At(c, label).before = client[c].before
    BY <1>4 DEF At, Active
  <1>5. ASSUME NEW c \in Clients, NEW result
        PROVE  /\ Ended(c, result).pc = "done"
               /\ Ended(c, result).before = client[c].before
               /\ Ended(c, result).result = result
    BY DEF Ended
  <1>6. ASSUME NEW c \in Clients, Probe(c) PROVE LockPart'
    <2>1. client[c].pc = "probe" /\ client[c] \in Active /\ ~Waiting(c)
      BY <1>3, <1>6 DEF Probe, Labels, Waiting
    <2>2. CASE Connect(c, Status, "probing")
      BY <2>1, <2>2, ConnectKeepsLock DEF WaitLabels
    <2>3. CASE ~Reachable /\ Become(c, At(c, "spawn")) /\ UNCHANGED <<now, path, daemon, store, queue>>
      <3>1. Starting = {} /\ Alive = {}
        BY <2>1, <2>3, NobodyReachable
      <3>2. At(c, "spawn").pc = "spawn" /\ \A d \in At(c, "spawn").before : daemon[d] # "unborn"
        BY <1>3, <1>4, <2>1 DEF Labels
      <3> QED BY <2>3, <3>1, <3>2, ClientMovesLock
    <2> QED BY <1>6, <2>2, <2>3 DEF Probe
  <1>7. ASSUME NEW c \in Clients, Spawn(c) PROVE LockPart'
    <2>1. client[c].pc = "spawn" /\ client[c] \in Active
      BY <1>3, <1>7 DEF Spawn, Labels
    <2>2. Alive = {} /\ Starting = {} /\ \A x \in Clients : x = c
      BY <2>1, NobodyReachable DEF LockInv, OneDaemon, OneCommand
    <2>3. CASE Become(c, Ended(c, "error")) /\ UNCHANGED daemon
      <3>1. Ended(c, "error").pc = "done" /\ Ended(c, "error").result # "ok"
            /\ \A d \in Ended(c, "error").before : daemon[d] # "unborn"
        BY <1>3, <1>5, <2>1 DEF Labels
      <3>2. UNCHANGED <<path, daemon, queue>>
        BY <1>7, <2>3 DEF Spawn
      <3> QED BY <2>2, <2>3, <3>1, <3>2, ClientMovesLock
    <2>4. ASSUME NEW d \in Daemons, daemon[d] = "unborn",
                 daemon' = [daemon EXCEPT ![d] = "starting"], Become(c, At(c, "poll"))
          PROVE  LockPart'
      <3>1. \A e \in Daemons : daemon'[e] = IF e = d THEN "starting" ELSE daemon[e]
        BY <2>4 DEF LockInv, DaemonInv, TypeOK
      <3>2. /\ client'[c].pc = "poll"
            /\ client'[c].before = client[c].before
        BY <1>4, <2>1, <2>4 DEF Become, LockInv, DaemonInv, TypeOK, Labels
      <3>3. Alive' = {d} /\ d \in Starting'
        BY <2>2, <3>1 DEF Alive, Starting
      <3>4. OneDaemon'
        BY <2>2, <3>2, <3>3 DEF OneDaemon
      <3>5. BornBefore'
        BY <1>3, <2>1, <2>2, <3>1, <3>2 DEF BornBefore, Labels
      <3>6. queue' = queue
        BY <1>7 DEF Spawn
      <3>7. LockAsksShutdown'
        BY <2>2, <3>2, <3>6, QueueTyped DEF LockInv, LockAsksShutdown
      <3>8. LockEndsSessions'
        BY <2>2, <3>2 DEF LockEndsSessions
      <3> QED BY <3>4, <3>5, <3>7, <3>8 DEF LockPart
    <2> QED BY <1>7, <2>3, <2>4 DEF Spawn
  <1>8. ASSUME NEW c \in Clients, Poll(c) PROVE LockPart'
    <2>1. client[c] \in Active /\ ~Waiting(c)
      BY <1>3, <1>8 DEF Poll, Labels, Waiting
    <2> QED BY <1>8, <2>1, ConnectKeepsLock DEF Poll, WaitLabels
  <1>9. ASSUME NEW c \in Clients, PollTimeout(c) PROVE LockPart'
    <2>1. client[c].pc = "poll" /\ Starting = {} /\ Become(c, Ended(c, "error"))
          /\ UNCHANGED <<path, daemon, queue>>
      BY <1>9 DEF PollTimeout
    <2>2. Ended(c, "error").pc = "done" /\ Ended(c, "error").result # "ok"
          /\ \A d \in Ended(c, "error").before : daemon[d] # "unborn"
      BY <1>3, <1>5, <2>1 DEF Labels
    <2> QED BY <2>1, <2>2, ClientMovesLock
  <1>10. ASSUME NEW c \in Clients, Request(c) PROVE LockPart'
    <2>1. client[c].pc = "request" /\ client[c] \in Active /\ ~Waiting(c)
      BY <1>3, <1>10 DEF Request, Labels, Waiting
    <2>2. ASSUME NEW ttl \in TTLs,
                 Connect(c, RequestOf(client[c].call, client[c].session, now + ttl),
                         "requesting")
          PROVE  LockPart'
      <3>1. client[c].call = "lock" =>
                RequestOf(client[c].call, client[c].session, now + ttl).kind = "shutdown"
        BY DEF RequestOf
      <3> QED BY <2>1, <2>2, <3>1, ConnectKeepsLock DEF WaitLabels
    <2>3. CASE /\ ~Reachable
               /\ Become(c, Ended(c, Unavailable[client[c].call]))
               /\ UNCHANGED <<now, path, daemon, store, queue>>
      <3> DEFINE r == Ended(c, Unavailable[client[c].call])
      <3>1. Alive = {} /\ Starting = {}
        BY <2>1, <2>3, NobodyReachable
      <3>2. r.pc = "done" /\ r.before = client[c].before
        BY <1>5
      <3>3. \A d \in r.before : d \in Daemons /\ daemon[d] # "unborn" /\ daemon[d] \in {"dead", "killed"}
        BY <1>3, <2>1, <3>1, <3>2 DEF Alive, Labels
      <3> HIDE DEF r
      <3>4. Become(c, r)
        BY <2>3 DEF r
      <3> QED BY <2>3, <3>1, <3>2, <3>3, <3>4, ClientMovesLock
    <2> QED BY <1>10, <2>2, <2>3 DEF Request
  <1>11. ASSUME NEW c \in Clients, Return(c) PROVE LockPart'
    <2>1. Starting = {} /\ Become(c, Idle) /\ UNCHANGED <<path, daemon, queue>>
      BY <1>11, NobodyReachable DEF Return
    <2>2. Idle.pc = "idle"
      BY DEF Idle
    <2> QED BY <2>1, <2>2, ClientMovesLock
  <1>12. ASSUME NEW d \in Daemons, DaemonStep(d) \/ KillDaemon(d) PROVE LockPart'
    <2>1. CASE ServeCheck(d)
      <3>1. d \in Alive /\ d \in Starting /\ daemon[d] # "stopping"
        BY <2>1 DEF ServeCheck, Alive, Starting
      <3> QED BY <2>1, <3>1, ProceedKeepsLock DEF ServeCheck
    <2>2. CASE ServeRemove(d)
      <3>1. d \in Alive /\ d \in Starting /\ daemon[d] # "stopping"
        BY <2>2 DEF ServeRemove, Alive, Starting
      <3> QED BY <2>2, <3>1, ProceedKeepsLock, EndKeepsLock DEF ServeRemove, Die
    <2>3. CASE ServeBind(d)
      <3>1. d \in Alive /\ daemon[d] # "stopping"
        BY <2>3 DEF ServeBind, Alive
      <3> QED BY <2>3, <3>1, ProceedKeepsLock, EndKeepsLock DEF ServeBind, Die
    <2>4. CASE ServeSecure(d)
      <3>1. d \in Alive /\ daemon[d] # "stopping" /\ d \notin Starting
        BY <2>4 DEF ServeSecure, Alive, Starting
      <3>2. path = d /\ path' = path
        BY <2>4, <3>1 DEF LockInv, OneDaemon, ServeSecure
      <3> QED BY <2>4, <3>1, <3>2, ProceedKeepsLock, EndKeepsLock DEF ServeSecure, Die
    <2>5. CASE Serve(d)
      BY <2>5, ServeKeepsLock
    <2>6. CASE ServeGone(d)
      BY <2>6, EndKeepsLock DEF ServeGone, Alive, Die
    <2>7. CASE ServeStop(d)
      BY <2>7, EndKeepsLock DEF ServeStop, Alive, Die
    <2>8. CASE KillDaemon(d)
      BY <2>8, EndKeepsLock DEF KillDaemon
    <2> QED BY <1>12, <2>1, <2>2, <2>3, <2>4, <2>5, <2>6, <2>7, <2>8 DEF DaemonStep
  <1>13. ASSUME UNCHANGED <<path, daemon, queue, client>> PROVE LockPart'
    <2>1. OneDaemon'
      BY <1>13 DEF LockInv, OneDaemon, Alive, Starting
    <2>2. BornBefore' /\ LockAsksShutdown' /\ LockEndsSessions'
      BY <1>13 DEF LockInv, BornBefore, LockAsksShutdown, LockEndsSessions
    <2> QED BY <2>1, <2>2 DEF LockPart
  <1>14. ASSUME UNCHANGED vars \/ Tick PROVE LockPart'
    BY <1>13, <1>14 DEF vars, Tick
  <1>15. ASSUME NEW c \in Clients, KillClient(c) PROVE LockPart'
    BY <1>15, KillKeepsLock DEF KillClient
  <1>16. ASSUME NEW c \in Clients, Call(c) \/ ClientStep(c) \/ Return(c) \/ KillClient(c)
         PROVE  LockPart'
    BY <1>2, <1>6, <1>7, <1>8, <1>9, <1>10, <1>11, <1>15, <1>16 DEF ClientStep
  <1>17. LockPart'
    BY <1>12, <1>14, <1>16 DEF Next
  <1> QED BY <1>1, <1>17 DEF LockInv, LockPart

----------------------------------------------------------------------------
(* One command at a time: what becomes of the socket file and the sessions *)

(* A socket file is made by a daemon that binds, and a daemon never goes   *)
(* back.                                                                   *)
LEMMA SocketBoundStep == DaemonInv /\ SocketBound /\ [Next]_vars => SocketBound'
  <1> DEFINE Before == {"unborn", "starting", "removing", "binding"}
  <1> SUFFICES ASSUME DaemonInv, SocketBound, [Next]_vars PROVE SocketBound'
    OBVIOUS
  <1>1. path \in Daemons \cup {NoFile} /\ DOMAIN daemon = Daemons /\ NoFile \notin Daemons
        /\ daemon = [d \in Daemons |-> daemon[d]]
    BY ProcessAssumption DEF DaemonInv, TypeOK
  <1>2. ASSUME UNCHANGED <<path, daemon>> PROVE SocketBound'
    BY <1>2 DEF SocketBound
  <1>3. ASSUME NEW d \in Daemons, NEW label, label \notin Before,
               daemon' = [daemon EXCEPT ![d] = label], path' = path \/ path' = d \/ path' = NoFile
        PROVE  SocketBound'
    BY <1>1, <1>3 DEF SocketBound
  <1>4. ASSUME NEW d \in Daemons, NEW label, daemon[d] \in Before,
               daemon' = [daemon EXCEPT ![d] = label], path' = path \/ path' = NoFile
        PROVE  SocketBound'
    BY <1>1, <1>4 DEF SocketBound
  <1>5. ASSUME NEW c \in Clients, Call(c) \/ ClientStep(c) \/ Return(c) \/ KillClient(c)
        PROVE  SocketBound'
    <2>1. CASE Spawn(c)
      BY <1>2, <1>4, <2>1 DEF Spawn
    <2>2. CASE ~Spawn(c)
      BY <1>2, <1>5, <2>2 DEF Call, ClientStep, Return, KillClient, Probe, Poll, PollTimeout,
                              Request, Connect
    <2> QED BY <2>1, <2>2
  <1>6. ASSUME NEW d \in Daemons, DaemonStep(d) \/ KillDaemon(d) PROVE SocketBound'
    <2>1. CASE ServeCheck(d)
      BY <1>4, <2>1 DEF ServeCheck, Proceed
    <2>2. CASE ServeRemove(d)
      BY <1>3, <1>4, <2>2 DEF ServeRemove, Proceed, Die, Ends
    <2>3. CASE ServeBind(d)
      BY <1>3, <2>3 DEF ServeBind, Proceed, Die, Ends
    <2>4. CASE ServeSecure(d)
      BY <1>3, <2>4 DEF ServeSecure, Proceed, Die, Ends
    <2>5. CASE Serve(d)
      BY <1>2, <1>3, <2>5 DEF Serve
    <2>6. CASE ServeGone(d) \/ ServeStop(d) \/ KillDaemon(d)
      BY <1>3, <2>6 DEF ServeGone, ServeStop, KillDaemon, Die, Ends
    <2> QED BY <1>6, <2>1, <2>2, <2>3, <2>4, <2>5, <2>6 DEF DaemonStep
  <1> QED BY <1>2, <1>5, <1>6 DEF Next, vars, Tick

(* Both invariants together *)
LEMMA LockAndSocket ==
    ASSUME OneCommand, Patient, "client" \notin Kills
    PROVE  Spec => [](LockInv /\ SocketBound)
  <1>1. Init => LockInv /\ SocketBound
    <2> SUFFICES ASSUME Init PROVE LockInv /\ SocketBound
      OBVIOUS
    <2>1. \A c \in Clients : client[c].pc = "idle"
      BY DEF Init, Idle
    <2>2. Alive = {} /\ \A d \in Daemons : queue[d] = <<>>
      BY DEF Init, Alive
    <2> QED BY <2>1, <2>2, InitDaemonInv
            DEF LockInv, OneDaemon, BornBefore, LockAsksShutdown, LockEndsSessions,
                Init, SocketBound
  <1>2. (LockInv /\ SocketBound) /\ [Next]_vars => (LockInv /\ SocketBound)'
    BY LockInvStep, SocketBoundStep DEF LockInv
  <1> QED BY <1>1, <1>2, PTL DEF Spec

(* When lock reports success, no daemon keeps a key that was unlocked when *)
(* it was called: for one command at a time whose polling outlasts the     *)
(* start of a daemon, and whatever kills daemons.  Two commands at once    *)
(* break it (run ud_lock).                                                 *)
THEOREM LocksEndSessions ==
    ASSUME OneCommand, Patient, "client" \notin Kills
    PROVE  Spec => []LockEndsSessions
  <1>1. LockInv => LockEndsSessions
    BY DEF LockInv
  <1> QED BY <1>1, LockAndSocket, PTL

(* With one command at a time, the file that a starting daemon removes was *)
(* left by a daemon that is dead.                                          *)
THEOREM StaleSocketsRemoved ==
    ASSUME OneCommand, Patient, "client" \notin Kills
    PROVE  Spec => OnlyStaleSocketRemoved
  <1> DEFINE Stale == \A d \in Daemons :
                 daemon[d] = "removing" /\ path # NoFile /\ path' = NoFile
                 /\ daemon'[d] = "binding" => path \notin Alive
  <1>1. LockInv /\ SocketBound => Stale
    <2> SUFFICES ASSUME LockInv, SocketBound, NEW d \in Daemons, daemon[d] = "removing",
                        path # NoFile, path \in Alive
                 PROVE  FALSE
      OBVIOUS
    <2>1. d \in Alive
      BY DEF Alive
    <2>2. path = d
      BY <2>1 DEF LockInv, OneDaemon
    <2> QED BY <2>2 DEF SocketBound
  <1>2. LockInv /\ SocketBound => [Stale]_vars
    BY <1>1
  <1> QED BY <1>2, LockAndSocket, PTL DEF OnlyStaleSocketRemoved

(* A request that does not ask for the end of a session leaves it. *)
LEMMA HandledKeeps ==
    ASSUME NEW st, NEW s \in DOMAIN st, st[s] > now, now \in Nat,
           NEW req \in Requests, ~AsksForItsEnd(req, s)
    PROVE  s \in DOMAIN Handled(st, req) /\ Handled(st, req)[s] > now
  <1>1. s \in DOMAIN Pruned(st) /\ Pruned(st)[s] = st[s]
    BY DEF Pruned, Unexpired
  <1>2. CASE req.kind = "put"
    <2>1. req.expires \in Nat /\ Handled(st, req) = With(st, req.session, req.expires)
      BY <1>2 DEF Handled, Requests
    <2>2. req.session = s => req.expires > now
      BY <1>2, <2>1 DEF AsksForItsEnd
    <2> QED BY <2>1, <2>2 DEF With
  <1>3. CASE req.kind \in {"get", "status"}
    BY <1>1, <1>3 DEF Handled
  <1>4. CASE req.kind = "delete"
    <2>1. Handled(st, req) = Without(Pruned(st), req.session) /\ req.session # s
      BY <1>4 DEF Handled, AsksForItsEnd
    <2> QED BY <1>1, <2>1 DEF Without
  <1>5. req.kind # "shutdown"
    BY DEF AsksForItsEnd
  <1> QED BY <1>2, <1>3, <1>4, <1>5 DEF Requests

(* What a step that ends a fetchable session is *)
LEMMA SessionEnds ==
    ASSUME LockInv, Next, NEW s \in Fetchable \ Fetchable'
    PROVE  \/ now' >= store[path][s]
           \/ \E conn \in FirstInLine(path) : conn.client = Gone \/ AsksForItsEnd(conn.req, s)
           \/ daemon'[path] = "killed"
  <1> SUFFICES ASSUME ~(now' >= store[path][s]), daemon'[path] # "killed",
                      \A conn \in FirstInLine(path) :
                          conn.client # Gone /\ ~AsksForItsEnd(conn.req, s)
               PROVE  FALSE
    OBVIOUS
  <1>1. /\ path \in Daemons /\ path # NoFile /\ path \in Alive
        /\ s \in DOMAIN store[path] /\ store[path][s] > now
    <2>1. path # NoFile /\ daemon[path] \in {"securing", "serving"} /\ s \in Unexpired(store[path])
      BY DEF Fetchable
    <2>2. path \in Daemons
      BY <2>1 DEF LockInv, DaemonInv, TypeOK
    <2> QED BY <2>1, <2>2 DEF Alive, Unexpired
  <1>2. /\ store[path][s] \in Nat /\ now \in Nat
        /\ daemon = [d \in Daemons |-> daemon[d]] /\ store = [d \in Daemons |-> store[d]]
    BY <1>1 DEF LockInv, DaemonInv, TypeOK, IsStore
  <1>3. \A d \in Daemons : d \in Alive => d = path
    BY <1>1 DEF LockInv, OneDaemon
  <1>4. ASSUME path' = path, daemon'[path] \in {"securing", "serving"},
               s \in DOMAIN store'[path], store'[path][s] > now'
        PROVE  FALSE
    BY <1>1, <1>4 DEF Fetchable, Unexpired
  <1>5. daemon[path] \in {"securing", "serving"}
    BY DEF Fetchable
  <1>6. ASSUME UNCHANGED <<now, path, store>>, daemon'[path] \in {"securing", "serving"}
        PROVE  FALSE
    BY <1>1, <1>4, <1>6
  <1>7. ASSUME NEW c \in Clients, Call(c) \/ ClientStep(c) \/ Return(c) \/ KillClient(c)
        PROVE  FALSE
    <2>1. CASE Spawn(c)
      BY <1>1, <1>2, <1>5, <1>6, <2>1 DEF Spawn
    <2>2. CASE ~Spawn(c)
      BY <1>5, <1>6, <1>7, <2>2 DEF Call, ClientStep, Return, KillClient, Probe, Poll,
                                    PollTimeout, Request, Connect
    <2> QED BY <2>1, <2>2
  <1>8. ASSUME NEW d \in Daemons, DaemonStep(d) \/ KillDaemon(d)
        PROVE  FALSE
    <2>1. ~(ServeCheck(d) \/ ServeRemove(d) \/ ServeBind(d))
      BY <1>3, <1>5 DEF ServeCheck, ServeRemove, ServeBind, Alive
    <2>2. CASE ServeSecure(d)
      <3>1. d = path
        BY <1>3, <2>2 DEF ServeSecure, Alive
      <3> QED BY <1>1, <1>2, <1>6, <2>2, <3>1 DEF ServeSecure, Proceed, Die, Ends
    <2>3. CASE Serve(d)
      <3> DEFINE req == Head(queue[path]).req
      <3>1. d = path /\ queue[path] # <<>> /\ daemon[path] = "serving"
        BY <1>3, <2>3 DEF Serve, Alive
      <3>2. Head(queue[path]) \in FirstInLine(path) /\ req \in Requests
        BY <1>1, <3>1, QueueTyped, EmptySeq DEF LockInv, FirstInLine
      <3>3. ~AsksForItsEnd(req, s)
        BY <3>2
      <3>4. /\ store' = [store EXCEPT ![path] = Handled(@, req)]
            /\ UNCHANGED <<now, path, daemon>>
        BY <2>3, <3>1, <3>3 DEF Serve, AsksForItsEnd
      <3>5. store'[path] = Handled(store[path], req)
        BY <1>1, <1>2, <3>4
      <3> HIDE DEF req
      <3>6. s \in DOMAIN store'[path] /\ store'[path][s] > now
        BY <1>1, <1>2, <3>2, <3>3, <3>5, HandledKeeps
      <3> QED BY <1>1, <1>4, <1>5, <3>4, <3>6
    <2>4. CASE ServeGone(d)
      <3>1. d = path /\ queue[path] # <<>> /\ Head(queue[path]).client = Gone
        BY <1>3, <2>4 DEF ServeGone, Alive
      <3>2. Head(queue[path]) \in FirstInLine(path)
        BY <1>1, <3>1, QueueTyped, EmptySeq DEF LockInv, FirstInLine
      <3> QED BY <3>1, <3>2
    <2>5. CASE ServeStop(d)
      BY <1>3, <1>5, <2>5 DEF ServeStop, Alive
    <2>6. CASE KillDaemon(d)
      BY <1>2, <1>3, <2>6 DEF KillDaemon, Alive, Ends
    <2> QED BY <1>8, <2>1, <2>2, <2>3, <2>4, <2>5, <2>6 DEF DaemonStep
  <1>9. ~Tick
    <2> SUFFICES ASSUME Tick PROVE FALSE
      OBVIOUS
    <2>1. now' = now + 1 /\ UNCHANGED <<path, daemon, store>>
      BY DEF Tick
    <2>2. store[path][s] > now'
      BY <1>2, <2>1
    <2> QED BY <1>1, <1>4, <1>5, <2>1, <2>2
  <1> QED BY <1>7, <1>8, <1>9 DEF Next

(* With one command at a time, a key that could be fetched stays so until  *)
(* it expires, a request asks for its end, or its daemon is killed or      *)
(* serves a connection whose client was killed.                            *)
THEOREM SessionsLast ==
    ASSUME OneCommand, Patient, "client" \notin Kills
    PROVE  Spec => SessionsEndOnRequest
  <1> DEFINE Lost == \A s \in Fetchable \ Fetchable' :
                 \/ now' >= store[path][s]
                 \/ \E conn \in FirstInLine(path) : conn.client = Gone \/ AsksForItsEnd(conn.req, s)
                 \/ daemon'[path] = "killed"
  <1>1. LockInv /\ [Next]_vars => [Lost]_vars
    BY SessionEnds
  <1> QED BY <1>1, LockAndSocket, PTL DEF SessionsEndOnRequest, Spec
=============================================================================
