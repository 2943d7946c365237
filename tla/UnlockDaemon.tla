---------------------------- MODULE UnlockDaemon ----------------------------
(***************************************************************************)
(* The unlock daemon of client-runtime: a process that keeps decrypted     *)
(* data keys in memory until they expire, reached through a Unix socket at *)
(* one fixed path, and the command-line clients that start it, store keys  *)
(* in it, fetch them and shut it down.                                     *)
(*                                                                         *)
(* Nothing serialises the clients.  A client that cannot connect spawns a  *)
(* daemon and polls for it; a daemon that starts removes whatever socket   *)
(* file it finds and binds its own.  A daemon serves one connection at a   *)
(* time, and dies of any error a connection causes.                        *)
(*                                                                         *)
(* A session stands for its key (API address, user and fingerprint of the  *)
(* data key) and for the one data key stored under it.                     *)
(***************************************************************************)
EXTENDS Integers, Sequences

CONSTANTS
    Clients,   \* places where one command at a time runs
    Daemons,   \* daemon processes that can ever be spawned
    Sessions,  \* session keys
    TTLs,      \* lifetimes a client may ask for, in seconds
    NoFile,    \* the content of the socket path when there is no file
    Gone,      \* the client of a connection whose process was killed
    Patient,   \* polling never gives up on a daemon that is still starting
    Kills,     \* the processes that may be killed: "client", "daemon", or
               \* "connected", a client while the daemon holds its connection
    Backlog,   \* connections the kernel queues for a listener; then connect blocks
    MaxTime    \* bound of the model: the clock stops here

ASSUME ProcessAssumption == NoFile \notin Daemons /\ Gone \notin Clients
ASSUME TimeAssumption == TTLs \subseteq Nat /\ MaxTime \in Nat
ASSUME EnvironmentAssumption == /\ Patient \in BOOLEAN
                               /\ Kills \subseteq {"client", "connected", "daemon"}
                               /\ Backlog \in Nat \ {0}

VARIABLES
    now,      \* unix_now()
    path,     \* the daemon whose socket the file is, alive or not, or NoFile
    daemon,   \* control state of every daemon; its end is of its own or a kill
    store,    \* sessions of every daemon: session key -> expires_at_unix
    queue,    \* connections every daemon has yet to serve, in arrival order
    client    \* what every client is doing

vars == <<now, path, daemon, store, queue, client>>

----------------------------------------------------------------------------
(* UnlockStore *)

NoSessions == [s \in {} |-> 0]

UnexpiredOrNow(st) == {s \in DOMAIN st : st[s] >= now}  \* mutant: off by one
Unexpired(st) == {s \in DOMAIN st : st[s] > now}

Pruned(st) == [s \in Unexpired(st) |-> st[s]]

Without(st, s) == [x \in DOMAIN st \ {s} |-> st[x]]

With(st, s, expires) ==
    [x \in DOMAIN st \cup {s} |-> IF x = s THEN expires ELSE st[x]]

HandledForAll(st, req) ==  \* mutant: Delete empties the store
    CASE req.kind = "put" -> With(st, req.session, req.expires)
      [] req.kind \in {"get", "status"} -> Pruned(st)
      [] req.kind = "delete" -> NoSessions
      [] req.kind = "shutdown" -> st

(* handle_request: the store after a request.  Every request but Put and   *)
(* Shutdown prunes first.                                                  *)
Handled(st, req) ==
    CASE req.kind = "put" -> With(st, req.session, req.expires)
      [] req.kind \in {"get", "status"} -> Pruned(st)
      [] req.kind = "delete" -> Without(Pruned(st), req.session)
      [] req.kind = "shutdown" -> st

----------------------------------------------------------------------------
(* Connections *)

Listening == {d \in Daemons : daemon[d] \in {"securing", "serving", "stopping"}}
Alive == {d \in Daemons : daemon[d] \notin {"unborn", "dead", "killed"}}
Starting == {d \in Daemons : daemon[d] \in {"starting", "removing", "binding"}}

(* connect succeeds iff the socket file is that of a listening process; any *)
(* other outcome is what is_daemon_unavailable recognises.                  *)
Reachable == path \in Listening

Idle == [pc |-> "idle"]
Waiting(c) == client[c].pc \in {"probing", "polling", "requesting"}

At(c, label) == [client[c] EXCEPT !.pc = label]

(* A call that has returned, and, when it fetched a key, the expiry of the *)
(* session and the second it was served                                    *)
Ended(c, result) ==
    [pc |-> "done", call |-> client[c].call, before |-> client[c].before,
     result |-> result, expires |-> 0, at |-> 0]

Fetched(c, expires) ==
    [Ended(c, "key") EXCEPT !.expires = expires, !.at = now]

Become(c, record) == client' = [client EXCEPT ![c] = record]

Connect(c, req, label) ==
    /\ Reachable
    /\ Len(queue[path]) < Backlog
    /\ queue' = [queue EXCEPT ![path] =
                    Append(@, [client |-> c, req |-> req])]
    /\ Become(c, At(c, label))
    /\ UNCHANGED <<now, path, daemon, store>>

(* What becomes of a client whose connection is closed without a reply:    *)
(* polling ignores it, anything else reports an error.                     *)
CutOff(c) == IF client[c].pc = "polling" THEN At(c, "poll") ELSE Ended(c, "error")

Connected(d) == {queue[d][i].client : i \in DOMAIN queue[d]}

EndsSilently(d, label) ==  \* mutant: the end of a connection is not noticed
    /\ daemon' = [daemon EXCEPT ![d] = label]
    /\ store' = [store EXCEPT ![d] = NoSessions]
    /\ queue' = [queue EXCEPT ![d] = <<>>]
    /\ UNCHANGED <<now, client>>

(* A daemon process ends, of its own or killed: its memory and its         *)
(* connections are gone.                                                   *)
Ends(d, label) ==
    /\ daemon' = [daemon EXCEPT ![d] = label]
    /\ store' = [store EXCEPT ![d] = NoSessions]
    /\ queue' = [queue EXCEPT ![d] = <<>>]
    /\ client' = [c \in Clients |-> IF c \in Connected(d) THEN CutOff(c) ELSE client[c]]
    /\ UNCHANGED now

Die(d) == Ends(d, "dead")

----------------------------------------------------------------------------
(* The daemon: serve() *)

Init ==
    /\ now = 0
    /\ path = NoFile
    /\ daemon = [d \in Daemons |-> "unborn"]
    /\ store = [d \in Daemons |-> NoSessions]
    /\ queue = [d \in Daemons |-> <<>>]
    /\ client = [c \in Clients |-> Idle]

Proceed(d, label) ==
    /\ daemon' = [daemon EXCEPT ![d] = label]
    /\ UNCHANGED <<now, store, queue, client>>

(* if socket_path.exists() *)
ServeCheck(d) ==
    /\ daemon[d] = "starting"
    /\ Proceed(d, IF path = NoFile THEN "binding" ELSE "removing")
    /\ UNCHANGED path

(* remove_file, which fails when another daemon has removed the file since *)
ServeRemove(d) ==
    /\ daemon[d] = "removing"
    /\ \/ path # NoFile /\ path' = NoFile /\ Proceed(d, "binding")
       \/ path = NoFile /\ Die(d) /\ UNCHANGED path

(* bind and listen, which fails when the file exists again *)
ServeBind(d) ==
    /\ daemon[d] = "binding"
    /\ \/ path = NoFile /\ path' = d /\ Proceed(d, "securing")
       \/ path # NoFile /\ Die(d) /\ UNCHANGED path

(* set_permissions on the path, which fails when there is no file *)
ServeSecure(d) ==
    /\ daemon[d] = "securing"
    /\ IF path # NoFile THEN Proceed(d, "serving") ELSE Die(d)
    /\ UNCHANGED path

(* The reply to the request of client c moves it on in its call. *)
Replied(d, c, req) ==
    IF client[c].pc \in {"probing", "polling"} THEN At(c, "request")
    ELSE IF req.kind # "get" THEN Ended(c, "ok")
    ELSE IF req.session \in Unexpired(store[d]) THEN Fetched(c, store[d][req.session])
    ELSE Ended(c, "none")

ServeOn(d) ==  \* mutant: Shutdown does not leave the loop
    /\ daemon[d] = "serving"
    /\ queue[d] # <<>>
    /\ LET conn == Head(queue[d]) IN
          /\ conn.client # Gone
          /\ store' = [store EXCEPT ![d] = Handled(@, conn.req)]
          /\ Become(conn.client, Replied(d, conn.client, conn.req))
    /\ queue' = [queue EXCEPT ![d] = Tail(@)]
    /\ UNCHANGED <<now, path, daemon>>

(* One turn of the accept loop: read the request of the first connection,  *)
(* handle it, write the response.  A client writes its request right after *)
(* connecting; the daemon waits for it, so the two are one step here.      *)
Serve(d) ==
    /\ daemon[d] = "serving"
    /\ queue[d] # <<>>
    /\ LET conn == Head(queue[d]) IN
          /\ conn.client # Gone
          /\ store' = [store EXCEPT ![d] = Handled(@, conn.req)]
          /\ daemon' = IF conn.req.kind = "shutdown"
                       THEN [daemon EXCEPT ![d] = "stopping"] ELSE daemon
          /\ Become(conn.client, Replied(d, conn.client, conn.req))
    /\ queue' = [queue EXCEPT ![d] = Tail(@)]
    /\ UNCHANGED <<now, path>>

(* The client was killed: there is no request to decode, or nobody to      *)
(* write the response to.  Either error ends the daemon.                   *)
ServeGone(d) ==
    /\ daemon[d] = "serving"
    /\ queue[d] # <<>>
    /\ Head(queue[d]).client = Gone
    /\ Die(d)
    /\ UNCHANGED path

(* After the loop: remove the socket file, whosever it is, and exit. *)
ServeStop(d) ==
    /\ daemon[d] = "stopping"
    /\ path' = NoFile
    /\ Die(d)

----------------------------------------------------------------------------
(* The clients: unlock, fetch_data_key, unlock_status, lock, clear_session *)

Holding == {d \in Alive : Unexpired(store[d]) # {}}

Call(c) ==
    /\ client[c] = Idle
    /\ \E call \in {"unlock", "fetch", "status", "lock", "clear"}, s \in Sessions :
          Become(c, [pc |-> IF call = "unlock" THEN "probe" ELSE "request",
                     call |-> call, session |-> s,
                     before |-> IF call = "lock" THEN Holding ELSE {}])
    /\ UNCHANGED <<now, path, daemon, store, queue>>

Status == [kind |-> "status"]

ProbeBlind(c) ==  \* mutant: spawn without asking for a running daemon
    /\ client[c].pc = "probe"
    /\ Become(c, At(c, "spawn"))
    /\ UNCHANGED <<now, path, daemon, store, queue>>

(* ensure_running: is there a daemon? *)
Probe(c) ==
    /\ client[c].pc = "probe"
    /\ \/ Connect(c, Status, "probing")
       \/ /\ ~Reachable
          /\ Become(c, At(c, "spawn"))
          /\ UNCHANGED <<now, path, daemon, store, queue>>

(* spawn_daemon; the spawn itself may fail *)
Spawn(c) ==
    /\ client[c].pc = "spawn"
    /\ \/ \E d \in Daemons :
             /\ daemon[d] = "unborn"
             /\ daemon' = [daemon EXCEPT ![d] = "starting"]
             /\ Become(c, At(c, "poll"))
       \/ Become(c, Ended(c, "error")) /\ UNCHANGED daemon
    /\ UNCHANGED <<now, path, store, queue>>

(* One attempt of the polling loop that can connect; one that cannot only  *)
(* counts towards the limit.                                               *)
Poll(c) ==
    /\ client[c].pc = "poll"
    /\ Connect(c, Status, "polling")

(* "unlock daemon did not become ready in time": the last attempt has failed *)
PollTimeout(c) ==
    /\ client[c].pc = "poll"
    /\ ~Patient \/ (~Reachable /\ Starting = {})
    /\ Become(c, Ended(c, "error"))
    /\ UNCHANGED <<now, path, daemon, store, queue>>

RequestOf(call, s, expires) ==
    CASE call = "unlock" -> [kind |-> "put", session |-> s, expires |-> expires]
      [] call = "fetch"  -> [kind |-> "get", session |-> s]
      [] call = "clear"  -> [kind |-> "delete", session |-> s]
      [] call = "lock"   -> [kind |-> "shutdown"]
      [] call = "status" -> Status

Unavailable == [unlock |-> "error", fetch |-> "none", clear |-> "ok", lock |-> "ok",
                status |-> "ok"]

RequestPast(c) ==  \* mutant: the lifetime is taken from the time, not added
    /\ client[c].pc = "request"
    /\ \E ttl \in TTLs :
          Connect(c, RequestOf(client[c].call, client[c].session, now - ttl),
                  "requesting")

(* The request itself; the expiry of a Put is computed just before. *)
Request(c) ==
    /\ client[c].pc = "request"
    /\ \/ \E ttl \in TTLs :
             Connect(c, RequestOf(client[c].call, client[c].session, now + ttl),
                     "requesting")
       \/ /\ ~Reachable
          /\ Become(c, Ended(c, Unavailable[client[c].call]))
          /\ UNCHANGED <<now, path, daemon, store, queue>>

Return(c) ==
    /\ client[c].pc = "done"
    /\ Become(c, Idle)
    /\ UNCHANGED <<now, path, daemon, store, queue>>

----------------------------------------------------------------------------
(* The environment *)

(* A client is killed: its connection, if any, is closed at its end.  What *)
(* it asked for no longer matters, since serving it ends the daemon.       *)
KillClient(c) ==
    /\ client[c].pc \notin {"idle", "done"}
    /\ "client" \in Kills \/ ("connected" \in Kills /\ Waiting(c))
    /\ Become(c, Idle)
    /\ queue' = [d \in Daemons |-> [i \in DOMAIN queue[d] |->
                    IF queue[d][i].client = c
                    THEN [client |-> Gone, req |-> Status] ELSE queue[d][i]]]
    /\ UNCHANGED <<now, path, daemon, store>>

(* A daemon is killed: its socket file stays behind. *)
KillDaemon(d) ==
    /\ "daemon" \in Kills
    /\ d \in Alive
    /\ Ends(d, "killed")
    /\ UNCHANGED path

Tick ==
    /\ now < MaxTime
    /\ now' = now + 1
    /\ UNCHANGED <<path, daemon, store, queue, client>>

ClientStep(c) ==
    Probe(c) \/ Spawn(c) \/ Poll(c) \/ PollTimeout(c) \/ Request(c)

DaemonStep(d) ==
    \/ ServeCheck(d) \/ ServeRemove(d) \/ ServeBind(d) \/ ServeSecure(d)
    \/ Serve(d) \/ ServeGone(d) \/ ServeStop(d)

Next ==
    \/ \E c \in Clients : Call(c) \/ ClientStep(c) \/ Return(c) \/ KillClient(c)
    \/ \E d \in Daemons : DaemonStep(d) \/ KillDaemon(d)
    \/ Tick

Spec == Init /\ [][Next]_vars

(* Processes keep running: nothing is assumed of calls, kills and time. *)
FairSpec ==
    /\ Spec
    /\ \A c \in Clients : WF_vars(ClientStep(c))
    /\ \A d \in Daemons : WF_vars(DaemonStep(d))

----------------------------------------------------------------------------
(* Correctness *)

Labels == {"probe", "probing", "spawn", "poll", "polling", "request", "requesting"}
Calls == {"unlock", "fetch", "status", "lock", "clear"}
Active == [pc : Labels, call : Calls, session : Sessions, before : SUBSET Daemons]
Done == [pc : {"done"}, call : Calls, before : SUBSET Daemons,
         result : {"ok", "error", "none", "key"}, expires : Nat, at : Nat]

Requests ==
    [kind : {"status", "shutdown"}] \cup [kind : {"get", "delete"}, session : Sessions]
    \cup [kind : {"put"}, session : Sessions, expires : Nat]

IsStore(st) == DOMAIN st \subseteq Sessions /\ st \in [DOMAIN st -> Nat]

Connections == [client : Clients \cup {Gone}, req : Requests]

(* Type correctness of clients, daemons and what passes between them *)
TypeOK ==
    /\ now \in Nat
    /\ path \in Daemons \cup {NoFile}
    /\ daemon \in [Daemons -> {"unborn", "starting", "removing", "binding",
                              "securing", "serving", "stopping", "dead", "killed"}]
    /\ store = [d \in Daemons |-> store[d]] /\ \A d \in Daemons : IsStore(store[d])
    /\ queue \in [Daemons -> Seq(Connections)]
    /\ client \in [Clients -> {Idle} \cup Active \cup Done]

(* A fetched key was still within the lifetime it was unlocked for when it *)
(* was served, whichever daemon served it and however late it answered.    *)
TtlHonoured ==
    \A c \in Clients :
        client[c].pc = "done" /\ client[c].result = "key" =>
            /\ client[c].at < client[c].expires
            /\ \E ttl \in TTLs : client[c].expires <= client[c].at + ttl

(* No client waits for nobody: a client is waiting iff a listening daemon  *)
(* holds a connection of it, and it never has two.                         *)
AwaitedDaemonLives ==
    /\ \A c \in Clients :
          Waiting(c) <=> \E d \in Listening : c \in Connected(d)
    /\ \A d, e \in Daemons : \A i \in DOMAIN queue[d], j \in DOMAIN queue[e] :
          queue[d][i].client = queue[e][j].client /\ queue[d][i].client # Gone
             => d = e /\ i = j

(* When lock reports success, no daemon still holds a session that was     *)
(* unexpired in it when lock was called.                                   *)
LockEndsSessions ==
    \A c \in Clients :
        client[c].pc = "done" /\ client[c].call = "lock" /\ client[c].result = "ok" =>
            \A d \in client[c].before : daemon[d] \in {"stopping", "dead", "killed"}

(* A starting daemon removes a socket file only if it is stale: the daemon *)
(* that made it is dead.                                                   *)
OnlyStaleSocketRemoved ==
    [][\A d \in Daemons :
          daemon[d] = "removing" /\ path # NoFile /\ path' = NoFile
          /\ daemon'[d] = "binding" => path \notin Alive]_vars

(* A session that a client could fetch stays so until its time is up, its  *)
(* daemon serves a request that asks for the end of this session (its      *)
(* deletion, an unlock whose lifetime is over, a shutdown), or the daemon  *)
(* is killed, or it comes to the connection of a client that was killed:   *)
(* the only error that ends the accept loop.  No request for one session   *)
(* ends another, and no other step of the code makes a daemon end or go    *)
(* out of reach.                                                           *)
Fetchable == IF path # NoFile /\ daemon[path] \in {"securing", "serving"}
             THEN Unexpired(store[path]) ELSE {}

FirstInLine(d) == {queue[d][i] : i \in DOMAIN queue[d] \cap {1}}

AsksForItsEnd(req, s) ==
    \/ req.kind = "shutdown"
    \/ req.kind = "delete" /\ req.session = s
    \/ req.kind = "put" /\ req.session = s /\ req.expires <= now

SessionsEndOnRequest ==
    [][\A s \in Fetchable \ Fetchable' :
          \/ now' >= store[path][s]
          \/ \E conn \in FirstInLine(path) : conn.client = Gone \/ AsksForItsEnd(conn.req, s)
          \/ daemon'[path] = "killed"]_vars

(* Every call comes back: no client is left waiting for a daemon.          *)
CallReturns ==
    \A c \in Clients : client[c].pc \notin {"idle", "done"} ~> client[c].pc \in {"idle", "done"}

----------------------------------------------------------------------------
(* The inductive invariant of the proofs *)

Within(expires) == \E ttl \in TTLs : expires <= now + ttl

(* Every expiry, stored or on its way to a daemon, is at most the longest  *)
(* lifetime away.                                                          *)
ExpiriesWithinTtl ==
    \A d \in Daemons :
        /\ \A s \in DOMAIN store[d] : Within(store[d][s])
        /\ \A i \in DOMAIN queue[d] :
              queue[d][i].req.kind = "put" => Within(queue[d][i].req.expires)

(* Connections are held by daemons that listen only. *)
OnlyListenersQueue ==
    \A d \in Daemons \ Listening : queue[d] = <<>>

DaemonInv ==
    TypeOK /\ AwaitedDaemonLives /\ OnlyListenersQueue /\ ExpiriesWithinTtl /\ TtlHonoured

(* With one command at a time that waits for the daemon it spawned, one    *)
(* daemon lives at a time, and the socket file is its own once it listens. *)
OneDaemon ==
    /\ \A d \in Alive :
          /\ \A e \in Alive : e = d
          /\ d \in Starting => \A c \in Clients : client[c].pc = "poll"
          /\ d \notin Starting => path = d
    /\ \A c \in Clients : client[c].pc = "spawn" => Alive = {}

(* The daemons that a call found have been born, and lock asks for the end *)
(* of the one that it reaches.                                             *)
BornBefore ==
    \A c \in Clients : client[c].pc # "idle" =>
        \A d \in client[c].before : daemon[d] # "unborn"

LockAsksShutdown ==
    \A d \in Daemons : \A i \in DOMAIN queue[d] :
        LET conn == queue[d][i] IN
        conn.client # Gone /\ client[conn.client].pc = "requesting"
                           /\ client[conn.client].call = "lock" => conn.req.kind = "shutdown"

(* The socket file is that of a daemon that has come as far as binding it. *)
SocketBound ==
    path # NoFile => daemon[path] \notin {"unborn", "starting", "removing", "binding"}

LockInv == DaemonInv /\ OneDaemon /\ BornBefore /\ LockAsksShutdown /\ LockEndsSessions
=============================================================================
