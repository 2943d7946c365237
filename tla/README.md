# Worklist: a verification development in TLA+

Worklist is an end-to-end encrypted task manager. This directory models the parts of the open-source
client whose correctness depends on the order in which things happen: a box whose keys rotate, a
daemon that keeps decrypted keys, a Web Worker that does the cryptography of a page and the memory it
shares with its WASM module, the files that all commands of the command line share, agents, tasks,
and the ways in which a list key reaches those who may read the list. TLC checks small instances, and
TLAPS proves every safety property of the passing runs for every value of the constants. The map
covers about 31% of the lines of Rust.

`PROJECT.json` is the index: components, runs, mutants, the lines of source that every definition
stands for (`map`), the hazards of the code, disagreements found, and the theorems.

## 1. Inventory

### The system

```
 command line (cli/src)                         web page (packages/crypto-web)
   |  parses, dispatches, prints                  |  payloads, invites, key wrapping
   v                                              v
 client-runtime -- Unix socket -- unlock daemon  strong-box-worker-client -- postMessage -- worker
   |   |    \                                                                           |
   |   |     \-- keychain of the platform                                         strong-box-wasm
   |   v                                                                                |
   |  client-auth -- credentials.json                                               strong-box
   v
 client-api -- HTTP -- server (external)         client-crypto, strong-box: pure cryptography
```

| component | state | operations | how it interacts | what is hard |
|---|---|---|---|---|
| `RotatingStrongBox` (`strong-box/src/rotating_strong_box.rs`) | cached encryptor with its expiry; `decryptor_cache` and the ordered `decryptor_validities` | `encrypt`, `decrypt` | clones in several threads share one cache behind a `parking_lot` lock | the period changes, and other threads purge and refresh, between the two attempts of `decrypt`; a clock that goes back; a panic under the lock |
| Unlock daemon (`client-runtime/src/unlock_daemon.rs`, `unlock.rs`) | sessions with their expiry, in the memory of a process; the socket file | serve: put, get, status, delete, shutdown; client: `unlock`, `fetch_data_key`, `unlock_status`, `lock`, `clear_session` | a Unix socket at one path; a client spawns a missing daemon | nothing serialises the clients: two daemons start at once, kills, sockets left behind, polling that gives up |
| StrongBox worker (`crypto-web/src/workers`, `crypto/strong-box*.ts`) | memoised bridge promise, `nextId`, `pending`; the LRU cache of plaintexts | encrypt, decrypt, HPKE seal and open; readiness, error events | `postMessage` both ways; awaited digests in the worker | answers overtake each other, the worker fails while requests are on their way, a cache between two awaits |
| Credentials (`client-auth/src/storage.rs`, `http.rs`, `client-runtime/src/auth.rs`, `keys.rs`, `cli/src/main.rs`) | `credentials.json`, refresh tokens at the server, keychain entries, daemon sessions | login, refresh, unlock, keychain store and clear, use of the data key, logout | commands run at the same time over one file that nothing locks | rotating refresh tokens, credentials read again between two steps, lost answers, kills, password changes elsewhere |
| Secret files (`client-auth/src/storage.rs:168-262`) | a file and its temporary file | load, atomic replacement, removal | file system | a kill or a power loss between any two calls; two writers |
| Agents (`cli/src/commands/agents.rs`, `client-auth/src/agent_keys.rs`, `storage.rs`, `client-runtime/src/auth.rs`) | `agent.json`; the seed, in the keychain or in a file | register, approve, revoke, mint a token, use, logout | server, keychain; the owner's session approves | two writes one after the other, a slot looked up before it is taken, commands that write each other's registration |
| Tasks, comments, attachments (`client-runtime/src/tasks.rs`, `work_lists.rs`, `comments.rs`, `attachments/`) | none locally; the server's | create, update, move, archive, delete, accept, comment, download | HTTP; session read twice per command | read, merge and write with others in between; answers that are lost |
| `client-api` (`client.rs`) | a bearer token | one request per call; a walk over pages | HTTP | pages by offset while others insert and delete |
| Keys of a list (`client-crypto`, `crypto-web/src/crypto`: invitations, HPKE, grants, data key, titles) | at the server: wrapped data keys, invitations, memberships, grants, sealed titles | invite, accept, grant, change the password, save a title | page, WASM module and Rust open what each other sealed | three implementations and two generations of envelopes; roles and passwords that change between fetch and use |
| `strong-box-wasm` (`src/lib.rs`) with `strong-box.worker.ts` | the linear memory, the worker's cached views of it | allocate, call, read, free | called from the worker | views that are detached when the memory grows; traps; who frees what |
| `strong-box` (static, stem, shared boxes) | the keys of a box | encrypt, decrypt, derive | one service's boxes open what others of it wrote | derivation at many levels from rotated roots; which of many boxes opens a text |
| payload encoders | none | pure functions | called by everything | nothing that depends on order |

### What makes them correct

* **RotatingStrongBox**: the two structures of the cache agree; nothing older than the window
  decrypts; nothing recent is refused, whatever other threads do in between; the cache is bounded;
  every encryption uses the key of the present period; every call returns.
* **Derived boxes**: a text opens with the boxes of its own purpose that still decrypt with its root,
  and with no others.
* **Unlock daemon**: no key is handed out past its lifetime; no client waits for a dead process;
  after `lock` no session survives; a live daemon's socket is not taken for a stale one; a session
  does not vanish on its own.
* **StrongBox worker**: every caller gets the answer of its own request, or a rejection that has a
  cause, and gets it; the cache never answers with what decryption would not.
* **Secret files**: the name always stands for no file or for a whole one, and a reported save lasts.
* **Agents**: the saved registration has its seed; a logout forgets the seed; no command replaces a
  registration it is not about; an approved agent can open the key of every list it was granted.
* **Tasks**: what is written is sealed under the key that every member finds; the copies of a title
  agree; an update changes what it was given and nothing else; an acceptance that is reported took
  place; a listing misses or repeats a task only for a cause that can be named.
* **Keys of a list**: whoever holds a list comes to its key and reads its title, whichever client
  sealed what, and whatever passwords and roles have changed.
* **WASM memory**: an answer is that of the request's own inputs; everything allocated is freed once.
* **Credentials**: a data key is filed under another account in one known race only; races of refreshes, logins and
  logouts do not lose the session; logout leaves no data key behind.

## 2. Plan

Order: what several actors share comes first, pure functions last. Each component's module declares
its parameters as constants with named assumptions, has one action per operation or step between two
awaits, and names its invariants so that proofs can cite them. Nothing uses `RECURSIVE`.

| step | module | state |
|---|---|---|
| 1 | `RotatingStrongBox`, `RotatingStrongBoxProofs` | done |
| 2 | `UnlockDaemon`, `UnlockDaemonProofs` | done |
| 3 | `StrongBoxBridge` (abstract), `StrongBoxWorker` (implements it), `StrongBoxWorkerProofs` | done |
| 4 | `Credentials`, `CredentialsProofs` | done |
| 5 | `DurableFile` (abstract), `SecretFile` (implements it), `SecretFileProofs` | done |
| 6 | `CommandLine` (common to both), `Agents`, `Tasks`; `MyTasks`; `CommandLineProofs` | done |
| 7 | `ListKeys`, `Hpke` (operators on terms), `Sharing`, `SharingProofs` | done |
| 8 | `WasmMemory`, `WasmMemoryProofs` | done |
| 9 | `StrongBoxes`, proved about in `RotatingStrongBoxProofs` | done |
| 10 | an abstract vault of keys with lifetimes, refined by `UnlockDaemon` with one daemon, and `Credentials` composed with it; the body of `client-api`; more of `cli/src/main.rs` | planned |

Modules that only give terms and operators (`ListKeys`, `Hpke`) are below those with state, which are
instances side by side in `MCStrongBoxes`, `MCCommandLine` and `MCWebClient`: see section 4.

Proofs to come: the refinement of the vault; lemmas about `Hpke` that `Sharing` does not use yet.

## 3. The modules

In every module a comment at the top says what one value stands for. A definition that ends in
`\* mutant: ...` is not part of the model: it stands beside the definition it could replace and shows
a bug that code could plausibly have; `PROJECT.json` names the property that refutes it.

### RotatingStrongBox

*State.* `now` is the clock; `encryptor` the cached encryption key and its last valid second; `cache`
is `decryptor_cache` and `validities` is `decryptor_validities`; `writer` is who is inside the write
lock; `op` is the control state of every thread; `sealed` remembers the last encryption.

*Actions.* `Encrypt` is the whole of `encrypt`, which runs under the write lock. `decrypt` is cut where
it takes and gives back the lock: `CallDecrypt`, `TryDecrypt` (read lock), `RefreshCache` (write lock
taken, cache purged), `DropLock`, `RetryDecrypt`, `Return`. A refresh is a `RefillCache`, or, when there
is no decryption key, the panic of `refresh_cache` (`RefreshPanics`). `Refresh` computes the whole of
`refresh_cache`: the purge of expired entries (`Kept`, `Purged`), the walk back from the present period
with its three ways to stop (`FilledAges`), and the expiry of each key (`ExpiryAtAge`).

*Abstractions.* A derived key stands for its id, so ids do not collide. A period is its number
instead of its first and last second. `Tick` advances the clock by any amount; `StepBack` sets it
back.

### StrongBoxes

The boxes of the same crate that have no state of their own. A key is a term: a root and the contexts
it was derived with (`DeriveKey`), and `KeyId` is one derivation more. `EncryptStatic`,
`DecryptStatic`, `EncryptShared` and `DecryptShared` write out what a text contains, what is
authenticated with it, and when it decodes (`DecodesAsStatic`, `DecodesAsShared`).

*State.* `stems` and `boxes` a service has made, from any root keys and any set of those it still
decrypts with, and `texts`, each with the box that wrote it. *Actions.* `NewStem`, `NewStatic`,
`NewShared`; `DeriveStem`, `DeriveStatic`, `DeriveRotating` (the box that a rotating box uses in one
period); `EncryptWith`, `DropBox`, and `Damage` of a stored text. *Abstractions.* Derivation, key
agreement and encryption have no collisions; the bytes of a text are its parts.

### UnlockDaemon

*State.* `path` is the daemon whose socket the file is, alive or not; `daemon`, `store` and `queue`
are the control state, the sessions and the connections of every daemon; `client` is the control state
of every command.

*Actions.* `serve` is cut at every step that another process can see: `ServeCheck` (does the file
exist?), `ServeRemove`, `ServeBind`, `ServeSecure` (permissions), `Serve` (one turn of the accept loop
with `handle_request`), `ServeGone` (an error of one connection ends the daemon), `ServeStop` (removes
the file and exits). A client asks for a daemon (`Probe`), spawns one (`Spawn`), polls for it (`Poll`,
`PollTimeout`), and sends its request (`Request`). `KillClient`, `KillDaemon` and `Tick` are the
environment. What the client does not do when nobody answers is in `Unavailable`.

*Abstractions.* Connecting and writing the request is one step; a connection is queued and served in
order, and `Backlog` is the length at which `connect` blocks. `Patient` says whether polling may give up
on a daemon that is still starting (the code gives it 50 attempts), and `Kills` what may be killed:
daemons, clients at any step, or clients while they wait for an answer (`"connected"`), whose connection
then ends the daemon that comes to it. A daemon that is `"killed"` is told apart from one that ended of its
own (`"dead"`). A client that is stopped without being killed would keep the daemon waiting for ever;
that is outside the model (see the hazard at `unlock_daemon.rs:328`).

### StrongBoxBridge, StrongBoxWorker

`StrongBoxBridge` is the promise of the interface of that name: a caller asks, and is answered with
the value of its own request, or rejected because the cryptography refuses the request or the
machinery may fail.

`StrongBoxWorker` is how the code does it. `Call` asks for the memoised bridge, creating it if it is
the first; `Invoke` numbers a request, puts it in `pending` and posts it; `NoBridge` is the rejection
of the memoised promise; `Deliver` is the message handler of the page, and `ErrorEvent` its error
handler. The worker loads the WASM (`Load`), takes a message (`Receive`: everything but a decryption
is answered at once, a decryption awaits its digest) and finishes decryptions in any order
(`Decrypt`, `DigestFails`), with the plaintext cache as a sequence in insertion order (`Touched`,
`Added`, `Deleted`, `Entry`). `Reload` leaves the page. The refinement mapping turns the caller's wait
for the bridge and for the answer into one `asking`.

*Abstractions.* A request stands for its operation, key, context and payload, hence for its cache
key, and its result for it; the digest does not collide. Messages arrive in the order posted. The
worker never disappears without an error event (hazard at `strong-box-worker-client.ts:144`).

### Credentials

*State.* `file` is `credentials.json`, one for all API URLs. `issued` and `live` are the refresh tokens
the server has issued and accepts; `wrapping` the version of every account's wrapped data key there.
`keychain` and `daemon` map a session (URL and user, that is the account, and the version of the
wrapped key) to the data key filed under it. `cmd` is what every command is
doing. `crossed` is a history: which account logged in at the URL of which other while a
command held the other's unwrapped key and was yet to read the credentials again.

*Actions.* A command begins with the credentials it loads (`StartLogin`, `StartRequest`,
`StartUnlock`, `StartUse`, `StartForget`, `StartLogout`, or `NotLoggedIn`) and goes through the steps
between which others run: `Authenticate` and `Refresh` (the server answers, refuses, or its answer is
lost), `Save`, `Reload` (unlock and keychain store read the file again), `Put`, `Fetch`, `Bootstrap`,
and for logout `Revoke`, `ClearKeychain` (which reads the file again), `Remove`, `ClearSession`,
`Return`. `Kill`, `Age`, `Rewrap` (the password is changed on another device) and `DaemonForgets` are
the environment.

*Abstractions.* A data key is the account it belongs to. Whether credentials are fresh, stale or
expired is all that is left of their expiry times. The replacement of the file is one step: it is
written to a temporary file and renamed (on Unix). The unlock daemon is the map that `UnlockDaemon`
shows it to be when there is one of it. `MaxWraps` bounds, for each account, how often its data key
is wrapped anew elsewhere. The credentials are the user's; an agent's are in `Agents`.

### DurableFile, SecretFile

`DurableFile` is what the configuration directory promises of one name in it: it stands for no file or
for one of the values saved under it, a power loss brings back one of the entries since the last that
was settled, and a save that was reported is settled.

*State of `SecretFile`.* A file is known by the number of the save that wrote it. `entry` is what the
name stands for, with the number of the change that made it; `lasting` are the entries that a power
loss can leave; `content` and `safe` say what each file holds and whether that was synced; `temps` are
the files under temporary names; `proc` is the control state of every process.

*Actions.* `save_config_file` is cut at every system call: `StartSave`, `Create` (the temporary file),
`Write` (piece by piece), `Sync`, `Rename`, `SyncDirectory`. A removal is `StartRemove` and `Remove`,
which does not sync the directory. `Fail` is an error of any of these calls, with the clean-up of the
temporary file (`Clean`); `Kill` and `PowerLoss` are the environment. The refinement mapping shows
`DurableFile` the value of an entry only if its file is whole and synced.

*Abstractions.* The file system is external: a rename is atomic and keeps contents, unsynced contents
may become anything. Where there is no Unix the code writes the file in place; that branch promises
nothing of the kind and is not modelled.

### CommandLine, Agents

`CommandLine` has what agents and tasks share: the commands, the lists, and whose data key the key
of a list derives from.

*State.* `session` is the user whose credentials are saved; `agent` is `agent.json`; `keychain` and
`files` are the agents whose seed is in either place; `server` is what the server knows of each agent:
status, owner, the grants it was approved with.

*Actions.* `agent register`: `StartRegister` (the free slot), `Enroll`, `SaveRegistration`,
`SaveSeed` or `FailSeed` with `ClearRegistration`. `agent approve`: `StartApprove` (data key of the
session), `BuildGrants` (session read again), `Approve` (and again). `Revoke`. Commands of the agent:
`StartUse` (which credentials are selected), `Mint`, `SaveToken`, `Use`. Logout: `StartLogout`,
`ClearSeed` or `WarnSeed`, `RemoveAgent`. `Stop` is a failed request or a kill anywhere; `ChangeSession`
and `Age` are others.

*What a flag is for.* Nothing locks these files, and some interleavings do lose something. Each
property names the exact circumstance in which it does not hold, and the model records it:
`overtaken` (another command wrote `agent.json` or a seed since this one looked), `scarred` (a command
was stopped between its two writes, or saved a token over what it had not read), `skipped` (the
keychain could not be reached) and `stray` (the session changed between the readings of one approval).
What a command saw when it looked at `agent.json` is `found`. No flag
guards an action. They weaken a property exactly as far as the code needs it, and a reader
who wants the stronger one sees here why it is false.

### Tasks, MyTasks

*State of `Tasks`.* `principal` is who is logged in, user or agent; `tasks` and `comments` are what the
server keeps: title and payload as sealed terms, the title in both, attachments by reference;
`cmd` is the control state of every command.

*Actions.* A command starts with the key material it loads (`Start...`), reads the session again for
the request (`Connect`), reads the task if it needs to (`GetTask`, `FetchForUpdate`,
`FetchForRecomment`, `FetchForAccept`, `FetchForDownload`) and sends what it made of it: `CreateTask`,
`Update`, `AddComment`, `Recomment`, `ListComments`, `Uncomment`, `Relocate` (move, archive,
unarchive), `Delete`, `UpdateDelegation` with `Reload`, `Download`. `FailTask` is a refusal or a lost
answer. An id that was deleted is not used again (`retired`), as the server draws new ones.
Others: `ChangeSession`, `WebEdit`, `WebComment`, `Assign`. `torn` marks a task over whose unread
version an update wrote (the server takes any version), `stray` one written by a command during
which the session changed.

`MyTasks` is the loop of `get_all_my_tasks`: `Begin` takes the contexts of the lists, `Fetch` a page
by offset with the loop's three ways to stop, while `Assign` and `Withdraw` change the server's
sequence at any position.

*Abstractions.* A text, a title, a file is a member of a small set, with `"blank"` for what the code
refuses or removes. Due dates, people, sections by name and audit patches are left out.

### ListKeys, Hpke, Sharing

`ListKeys` gives keys and ciphertexts as terms: a sealed value opens with the key and context it was
sealed with. `Hpke` writes out the three implementations, each with its own key schedule, as terms:
extraction and expansion with their labels and suite identifiers, the order of the public keys, and
the schedule of older clients, so that agreement of the three is a result and not an assumption.

*State of `Sharing`.* `account` (password, OPAQUE or not) and `dataKey` (the wrapped data keys, of
both versions), `invitations`, `membership` (list keys under data keys), `grant` (list keys for
agents), `title`, and the pages with what they have fetched.

*Actions.* `OpenPage` with or without the WASM bridge, `ClosePage`; `Invite`; `FetchInvitation` and
`Accept`; `FetchDataKey` and `Rewrap`; `GrantFromPage`, `GrantFromCommandLine`; `SaveTitle`, bound to
its list or not. The server may change a role, withdraw an invitation and end a membership in
between. In the initial states older clients have left invitations, grants and wrappings.

### WasmMemory

*State.* `pages` is the size of the memory and at the same time names its buffer, since every growth
makes a new one; `blocks` are the live allocations with their capacity; `memory` what addresses hold;
`uint8` and `dataView` the buffers that the worker's cached views are of; `call` the request in
execution.

*Actions.* `Request`, `AllocateResult`, `CopyIn` (one input after the other), `Call` (one of the four
operations, with the error it may answer), `ReadResult`, `Finally`, `Return`; `TrapInAllocation` and
`TrapInCall` are a full memory, a trap in an operation, or a random source that throws.

*Abstractions.* A value takes one address whatever its length, but an empty one has length 0 and
capacity 1, as in the code; so has a result without bytes, the vector in which an empty plaintext was
decrypted (`FromVec`), which the worker reads by its length and frees by its capacity (`Released`). The
allocator takes the first free address.

## 4. Runs

Every run has its own question. Three of them are composed of parts that share no state: `rsb_window`
of a rotating box and the derived boxes, `command_line` of `SecretFile`, `Agents`, `Tasks` and
`MyTasks`, and `web_client` of `WasmMemory` and `Sharing`. In a behavior of such a run one part moves
and the others stay in an initial state, so that the state space is the sum of those of the parts,
and each part is checked as if alone.

| run | checks | what it shows |
|---|---|---|
| `rsb_window` | `TypeOK` `NeverPastBacktrack` `RecentDecrypts` `CacheBounded` `SealedUnderCurrentPeriod`; `OpensWhereMeant` | The rotating box: two threads, two decryption roots and a foreign one, `Backtrack` 2, periods of two seconds, four of them: a key is derived on time or late, expires, is purged, and the walk back meets the epoch, a cached key and its limit. Derived boxes: two stems and two boxes at a time, of two roots, purposes and people, one period number, with boxes dropped and made again and a text that is damaged in any part. 4.4 million states. |
| `rsb_roots` | `CacheIndexed` `DecryptReturns` | A box with one decryption key or with none, two threads, and a clock that is set back at any moment, so that keys of an earlier period are derived next to those of a later one. The two structures of the cache agree; the panic of a box without keys frees the lock; every call returns. |
| `rsb_backtrack` | `DecryptsWithinBacktrack`, violated | See section 7. |
| `ud_one` | `TypeOK` `TtlHonoured` `LockEndsSessions` `OnlyStaleSocketRemoved` `SessionsEndOnRequest` | One command at a time, three daemons in succession that may be killed, clients that may be killed while they wait, two sessions, lifetimes of 0 to 2 seconds: the daemon keeps all it promises, and a session ends for one of the reasons that it may end for. |
| `ud_race` | `AwaitedDaemonLives` `CallReturns` | Two commands and two daemons, both of which may be killed at any step, polling that may give up: nobody waits for a dead daemon, and every command comes back. |
| `ud_lock` | `LockEndsSessions`, violated | See section 7. |
| `web_client` | `AnswersOwnInputs` `NothingLeftBehind`; `InvitationsOpenAsMade` `HoldersReadTheList` | The memory: three requests, of any operation and with empty and invalid inputs and answers without bytes, through a memory that grows and fills. The keys: two users, an agent, two pages, an invitation, a change of password and of title on top of what older clients left. |
| `sbw_failures` | `RequestsOnTheirWay` `CacheSound` `BridgeKept` `CallSettles` | The worker: two callers, three plaintexts that compete for a cache of two, a refused ciphertext and another operation of the same input, entries that expire, and everything that may fail: no support for workers, a WASM that does not load, error events at any moment, digests that are rejected. It implements the bridge, and every caller hears of its request. |
| `cred_one` | `TypeOK` `LogoutForgets` | One command at a time, two users at one URL, one of them with a data key wrapped by the password alone, every failure, and kills between any two steps. |
| `cred_race` | `KeyUnderItsSession` `TokenKept` | Two commands at once, three accounts, two of them at one URL, and a password change elsewhere: 4.5 million states of refresh, login, unlock, store and logout. That a key comes to lie under the account that logged in meanwhile at the same URL is among them; that it lies under any other is not. |
| `cred_rewrap` | `LogoutForgets`, violated | See section 7. |
| `command_line` | `Whole` `ImplementsDurableFile`; `SeedWithCredentials` `LogoutForgetsSeed` `RegistrationKept` `GrantsGiveListKey`; `SealedUnderListKey` `CopiesAgree` `UpdatesAreExact` `AcceptedWhenTold`; `MissedOnlyAfterRemoval` `TwiceOnlyAfterInsertion`; `AgentsTyped` | The file: two processes, three saves or removals, kills and power losses at any step. Agents: two commands at once, four in all, two servers, two enrollments, one change of the session; a list whose key is derived and one whose key was handed over. Tasks: two commands on two tasks, with one edit by the web client, the owner or the session in between. The listing: pages of two over up to four tasks, three changes at the server. |

*Why the bounds are enough.* Two is the number of actors at which each of these races first exists (two
threads between the attempts of `decrypt`, two daemons at one path, two answers that overtake, two
refreshes of one token). Three daemons are needed in succession to remove a socket left behind by one
that itself had removed one. `MaxTime` lets every expiry pass with a step to spare: four periods against
a window of two, lifetimes of 2 against a clock of 3. Three saves let a third begin while two race for
the name. Two boxes, two roots and two purposes are one to open a text and one that must not. Four
commands of agents let a registration, its approval, its use and its logout meet a second registration.
Three assigned tasks and pages of two give a full page, a last page that is not full, and, with one task
more, one that is; three changes can hide a task and bring it back. Of three requests one may trap and
leave its blocks for the next two to meet, and 8 addresses (two pages of four) hold the largest request
with one to spare. `MaxTokens` counts one token per running command so that no run stops in the middle
of a command. What is proved needs no bounds at all. Symmetry (threads, commands, processes, pages,
URLs, titles) is used in runs without liveness only. `CHECK_DEADLOCK FALSE` stands in the composed runs,
whose parts stop when their bounds are reached.

*Fairness.* `RotatingStrongBox`: strong fairness of every thread's own steps inside a call, since
`parking_lot`'s lock is eventually fair and a thread that waits for it gets it; nothing is assumed of
the clock or of new calls. `UnlockDaemon`: weak fairness of each client's and each daemon's steps, since
the operating system runs processes that can run; nothing of calls, kills and time. `StrongBoxWorker`:
weak fairness of the page's and the worker's message delivery and of every digest that was started,
which is what an event loop does; nothing of calls, failures, reloads.

## 5. Properties worth a word

* `SealedUnderCurrentPeriod` is about a clock that does not go back. When it does, the cached encryptor
  of a later period stays in use, and `NeverSealedUnderEarlier` is what remains true.
* `RecentDecrypts` is not what the documentation of the box says but what the code guarantees: age at
  most *half* of `Backtrack`. `DecryptsWithinBacktrack` is what the documentation says.
* `AwaitedDaemonLives` relates clients to connections held by *listening* processes: it fails if a
  daemon ends without its clients noticing, or a client has two connections.
* `OnlyStaleSocketRemoved` and `SessionsEndOnRequest` are action properties: of the step that removes
  a socket file, and of any step after which a session can no longer be fetched. Such a step is time's, or
  serves a request for the end of *this* session (or of all, at shutdown), or comes to the connection
  of a client that was killed, or is the kill of the daemon.
* `RequestsOnTheirWay` counts: for each pending id there is exactly one of request, digest and
  response. Losing one starves the caller, a second one would answer someone else.
* `BridgeKept` is the refinement: a wrong answer, an answer to the wrong caller and a rejection without
  a cause are all violations, whatever they are caused by.
* `TokenKept` says what concurrent refreshes may not do. The server replaces a refresh token when it
  accepts it, so of two commands that refresh the same one, one is refused; it gives up without
  saving, and that is why the file keeps a good token. It is stated for runs in which no answer is
  lost and no command is killed: if one is, the only good token is lost with it.
* `ImplementsDurableFile` is the refinement of `DurableFile`: after any kill and any power loss the name
  stands for a whole value not older than a reported save. `Whole` is what a reader of the file sees.
* `RegistrationKept` is an action property with a culprit: whenever `agent.json` changes to another
  agent's or to none, the command whose step it is is about the agent that was there, or did not find it
  when it looked. Other commands do not matter, and neither does what they have written.
* `SealedUnderListKey` and `GrantsGiveListKey` compare two ways to a key, that of the writer (derived
  from a data key, or opened from a membership or a grant) and that of the readers.
* `CopiesAgree` and `UpdatesAreExact` are about the title, which is stored twice, and about all that an
  update must carry over although it is not about it.
* `AnswersOwnInputs` fails if a view of an old buffer is ever used, if an address is handed out twice,
  and if a result is freed before it is copied. `NothingLeftBehind` fails if the worker frees by a length
  what was allocated by a capacity, on the way in or on the way out.
* `HoldersReadTheList` walks all the way from what a member knows (a password), or an agent (its seed),
  to the title: through wrapping, invitation, membership or grant, in whichever client.
* `MissedOnlyAfterRemoval` and `TwiceOnlyAfterInsertion` are what "best effort" comes to: each of the two
  faults of a listing has one cause.
* `KeyUnderItsSession` is about what is read twice: unlock and store unwrap a key with the
  credentials of the start and file it under those of the end. They are found by URL, so that they may
  be another user's; the property says that this takes a login of that user, at that URL, in between.

## 6. Proofs

All proofs are checked by TLAPS with its SMT, Zenon and LS4 backends, and rest on the named
assumptions of the modules only (`LifespanAssumption`, `KeysAssumption`, ...), plus those that a
theorem states itself. They hold for any number of threads, daemons, clients, accounts, tokens,
saves, users, lists, pages, boxes, requests, tasks and seconds. Every safety property that a passing
run checks, action properties and both refinements included, is a theorem.

| theorem | statement |
|---|---|
| `RotatingStrongBoxProofs!TypeCorrect` | `SkewedSpec => []TypeOK` |
| `RotatingStrongBoxProofs!CacheIndexCorrect` | `SkewedSpec => []CacheIndexed` |
| `RotatingStrongBoxProofs!WindowRespected` | `SkewedSpec => []NeverPastBacktrack` |
| `RotatingStrongBoxProofs!RecentNeverRefused` | `Spec => []RecentDecrypts` |
| `RotatingStrongBoxProofs!CacheStaysSmall` | `Spec => []CacheBounded` |
| `RotatingStrongBoxProofs!NeverSealedStale` | `Spec => []SealedUnderCurrentPeriod`, if the box is created after second 0; the clock of `Spec` does not go back |
| `RotatingStrongBoxProofs!NeverSealedBehindTheClock` | `SkewedSpec => []NeverSealedUnderEarlier` |
| `RotatingStrongBoxProofs!BoxesInvariant` | `BoxesSpec => []BoxesInv`, if `Null` is no value |
| `RotatingStrongBoxProofs!TextsOpenWhereMeant` | `BoxesSpec => []OpensWhereMeant`, if `Null` is no value |
| `UnlockDaemonProofs!TypeCorrect` | `Spec => []TypeOK` |
| `UnlockDaemonProofs!LifetimesHonoured` | `Spec => []TtlHonoured` |
| `UnlockDaemonProofs!NobodyWaitsForTheDead` | `Spec => []AwaitedDaemonLives` |
| `UnlockDaemonProofs!LocksEndSessions` | `Spec => []LockEndsSessions`, for one command at a time (see below) |
| `UnlockDaemonProofs!StaleSocketsRemoved` | `Spec => OnlyStaleSocketRemoved`, likewise |
| `UnlockDaemonProofs!SessionsLast` | `Spec => SessionsEndOnRequest`, likewise |
| `StrongBoxWorkerProofs!WorkerInvariant` | `Spec => []WorkerInv` |
| `StrongBoxWorkerProofs!CacheCorrect` | `Spec => []CacheSound` |
| `StrongBoxWorkerProofs!RequestsAccounted` | `Spec => []RequestsOnTheirWay` |
| `StrongBoxWorkerProofs!WorkerKeepsBridge` | `Spec => BridgeKept` |
| `CredentialsProofs!TypeCorrect` | `Spec => []TypeOK` |
| `CredentialsProofs!SessionNotLost` | `Spec => []TokenKept`, if `Failures` has neither `reply` nor `kill` |
| `CredentialsProofs!KeysUnderTheirSession` | `Spec => []KeyUnderItsSession` |
| `CredentialsProofs!LogoutsForget` | `Spec => []LogoutForgets`, for one command at a time and without a rewrapping |
| `SecretFileProofs!FileInvariant` | `Spec => []FileInv` |
| `SecretFileProofs!WholeFile` | `Spec => []Whole` |
| `SecretFileProofs!FileIsDurable` | `Spec => ImplementsDurableFile` |
| `SharingProofs!KeysInvariant` | `Spec => []KeysInv`, if `None` is no value |
| `SharingProofs!InvitationsWork` | `Spec => []InvitationsOpenAsMade`, if `None` is no value |
| `SharingProofs!HoldersRead` | `Spec => []HoldersReadTheList`, if `None` is no value |
| `WasmMemoryProofs!MemoryInvariant` | `MemorySpec => []MemoryInv` |
| `WasmMemoryProofs!AnswersAreOwn` | `MemorySpec => []AnswersOwnInputs` |
| `WasmMemoryProofs!NothingIsLeft` | `MemorySpec => []NothingLeftBehind` |
| `CommandLineProofs!AgentsInvariant` | `AgentsSpec => []AgentsInv`, if `None` is no value, as in all on agents and tasks |
| `CommandLineProofs!AgentsAreTyped` | `AgentsSpec => []AgentsTyped` |
| `CommandLineProofs!SeedIsThere` | `AgentsSpec => []SeedWithCredentials` |
| `CommandLineProofs!LogoutForgotSeed` | `AgentsSpec => []LogoutForgetsSeed` |
| `CommandLineProofs!GrantsOpen` | `AgentsSpec => []GrantsGiveListKey` |
| `CommandLineProofs!RegistrationsKept` | `AgentsSpec => RegistrationKept` |
| `CommandLineProofs!TasksInvariant` | `TasksSpec => []TasksInv` |
| `CommandLineProofs!ListKeyFound` | `TasksSpec => []SealedUnderListKey` |
| `CommandLineProofs!CopiesStayEqual` | `TasksSpec => []CopiesAgree` |
| `CommandLineProofs!ToldWhenAccepted` | `TasksSpec => []AcceptedWhenTold` |
| `CommandLineProofs!UpdatesChangeWhatWasGiven` | `TasksSpec => UpdatesAreExact` |
| `CommandLineProofs!WalkInvariant` | `WalkSpec => []WalkInv` |
| `CommandLineProofs!NothingIsMissed` | `WalkSpec => []MissedOnlyAfterRemoval` |
| `CommandLineProofs!NothingIsListedTwice` | `WalkSpec => []TwiceOnlyAfterInsertion` |

*The value for nothing.* `NoneIsNoValue`, `NullIsNoValue` and `NoFileIsNoCredentials` say that the
value which stands for an absent one is no user, key, ciphertext, record, ... TLC takes this for
granted, since model values differ from everything; a prover does not.

**RotatingStrongBox.** `BoxInv` is inductive under any clock. `CacheIndexed` alone is not: to know
that the refill never inserts a key that is still there with another expiry, one needs that the keys
of a period come and go together (`RootsTogether`), which in turn needs that expiries are ends of
periods (`ExpiryInWindow`), so that a purge takes all roots of a period or none. `NeverPastBacktrack`
follows because an expiry is at most `Backtrack` periods past the key's own. `RecentDecrypts` needs
more, and a clock that does not go back (`MonotoneInv`): `ExpiryEarned`, a lower bound on the expiry
of a key that was derived late; `RecentCached`, that below a cached period there is no gap among the
recent ones, which is the true core of the comment that justifies the early return of
`refresh_cache`; and `CallReady`, that a call past its refresh finds its key. Encryption has an
invariant of its own, `EncryptorInv`. The condition that the box is created after second 0 is
needed: see section 7. So is the clock: a cached encryptor is replaced when its last second is over, and
a clock that is set back brings seconds in which it is of a period to come. What holds then is half of it:
the key is never of a period that is over, and after second 0 never the zero key
(`NeverSealedBehindTheClock`). The bound on the cache counts keys: `CacheInWindow` says that those of the
cache lie in `Backtrack` + 1 periods in a row, not necessarily the present ones, since nothing is purged
while nobody refreshes; a refresh purges what has left the window of its own second before it fills
that window (`RefreshKeepsWindow`). With a clock that goes back this is not so.

**StrongBoxes.** `BoxesInv` says of every box which root, place and contexts its keys are made of, and
of every text that it is what such a box writes, or that with a part gone. `OpensWhereMeant` then is
about terms: boxes with a key in common have the same root and the same place, whatever the depth,
although a rotating box and a stem of the same purpose begin with the same derivation; a text that is
torn opens with none (`TornNeverOpens`), and the public key in a shared text is the one its key was
agreed with.

**UnlockDaemon.** `DaemonInv` adds to the three properties that only listening daemons hold
connections (`OnlyListenersQueue`), so that the end of a daemon reaches everyone who waits for it, and
that every expiry, stored or queued, is at most the longest lifetime away (`ExpiriesWithinTtl`). The
proof goes by what happens to one client and one queue: `Connect`, `Serve` and `Ends` have a lemma
each, and the remaining actions touch neither.

What a lock, a socket and a session promise holds under three hypotheses: commands run one at a time
(`OneCommand`), polling outlasts the start of a daemon (`Patient`), and no client is killed but while it
waits for an answer; daemons may be killed at any step. Two commands at once break it (`ud_lock`); TLC
finds that a timeout or a client killed while it starts a daemon, which leave a daemon that is still
starting to the next command, break it as well. `LockInv` gives the reason: one daemon lives at a time,
and the socket file is its own as soon as it listens (`OneDaemon`); while it starts, the command polls,
and none lives when a command is about to spawn one. `LockAsksShutdown` ties the label of a waiting lock
to the request in the queue, and `BornBefore` leaves those that a lock had found either dead or the one
that is now stopping. With `SocketBound`, that a socket file is of a daemon that has bound it, a
starting daemon that removes a file removes no living one's; and a session that can be fetched is in the
only daemon there is, so each step that ends it is one of that daemon, or time: of the daemon's steps
only those that serve a request for its end, or meet a connection cut by its client, touch it.

**StrongBoxWorker.** `WorkerInv` says where every request is: the ids that are pending are those that
callers wait for (`WaitersPending`); each is in one of the messages to the worker, the digests and the
messages to the page (`UnderWay`), in one only (`AtMostOnce`), and what is there is about the question
of its own caller; nothing fails unless something may (`FailureHasCause`); and every cached entry is what
its decryption gave (`CacheInv`). The refinement needs all of it in one step: that a delivered response
is an answer the bridge may give, to whom it may.

**WasmMemory.** `MemoryInv` says which blocks are live at each step of a request: those of its own
inputs and its result, and nothing else as long as nothing has trapped (`BlocksHeld`); that inputs lie
where their references say (`InputsCopied`), although each allocation may have replaced the buffer; and
that the result in the memory stands for an answer to this request (`ResultStored`, `OutcomeOwn`), and
has a block that its capacity says, even if its length says none.

**Credentials.** `TokenInv`: a token that was issued and not yet saved is live, is in no file, and is
known to its command alone (`UnsavedTokensUnshared`); therefore nobody else can have it replaced or
revoked before it is saved, and the file that is saved holds a live token. A logout that revokes the
token of the file is recognised by `RevokersLogOut`. `KeyInv`: the key a command holds is that of the
account of the credentials it holds (`KeyOfCredentials`), through every step that replaces either.
Reading the file again finds it by URL. If that gives another account, then this account logged in
there after the key was unwrapped, and `crossed` has the pair: a command that holds a key has it under its
own account, or a crossing has been recorded (`HoldsItsKey`). No assumption on the URLs is left.
`LogoutInv`: while one command runs at a time, the file still holds the credentials it read until the
logout removes it, so that what it clears is what was filed (`LogoutUnderWay`); without a rewrapping
an account has one session only (`NeverRewrapped`), and `cred_rewrap` shows what happens with one.

**Sharing.** Much of the argument is about terms, without any state: the three implementations
seal alike (`SealsAgree`, `GrantsAgree`), what one of them or an older client sealed opens in each
(`PageOpens`, `GrantOpens`) and for no other binding (`OtherBindingOpensNothing`), and a rewrapped data
key unwraps with the new login (`WrapUnwraps`). The invariant `KeysInv` then says that everything at
the server, *and everything that a page has fetched and still holds*, was made for whom it is for;
the second part is what keeps a late acceptance or a late change of password from undoing the first.

**Agents.** `AgentsInv` says what each command knows of `agent.json`: until another one writes
(`overtaken`), its agent is registered there, or none is; that an approval about to be sent has the
grants of its session unless it strayed; and that a logout past its clearing has left no seed.
`RegistrationsKept` follows step by step: what a command found is no registration or that of its own
agent, so a command that writes over another's registration did not find it.

**Tasks.** `TasksInv` says of every sealed value under which key it is, and of a command about to write
what it read: unless something was written since (`overtaken`), the payload at the server is still
the one that it merges its change into. The first attempt at this proof found two states in which the model
had said too much: an id that was deleted and drawn again, which the server never does
(`retired`), and an update in a session that had changed, which leaves the task `stray` as creation does. The
walk of `MyTasks` needs what lies ahead: until a task is removed, everything assigned throughout is
listed or at a later offset; until one is inserted, nothing is both (`WalkInv`).

**SecretFile.** `Whole` says nothing of what a power loss brings back, so it is not inductive.
`FileInv` says it of all of `lasting`: every such entry is whole, synced and not older than a reported
save (`LastingSound`). A rename adds an entry, hence `SavesInOrder`: a process that may rename has
written and synced its file; and nobody else writes to that file (`FilesOwned`), because a temporary
name is new. `FileIsDurable` uses the invariant twice, since every step of the detailed specification
has to map to a step or a stutter of the abstract one: a change of a file that is not named by any
lasting entry is a stutter, a synced directory settles the entry, and a power loss keeps the values.

**Only model-checked.** Liveness (`DecryptReturns`, `CallReturns`, `CallSettles`), which is out of the
prover's reach, as is `ENABLED`, hence the absence of deadlock. No theorem is about the composed
modules (`MCStrongBoxes`, `MCCommandLine`, `MCWebClient`): their parts share no state, and each theorem
is about the specification of one part.

## 7. Where the code and its texts disagree

Checked by a run of its own:

* `rsb_backtrack`: the documentation of the box promises to decrypt every period back to `backtrack`
  (`rotating_strong_box.rs:30-36`). `refresh_cache` deducts the age of a key twice from its expiry
  (`:332`), and a ciphertext one period old is refused with `backtrack = 1`.
* `ud_lock`: `auth lock` reports "Locked local daemon." while a second daemon, whose socket was removed
  by the first as stale, keeps its sessions.
* `cred_rewrap`: `auth logout` reports success and leaves the keychain entry that was stored under an
  earlier wrapping of the data key.

Met while modelling, without a run of their own:

* `rotating_strong_box.rs:325-327`: if the key of a period is cached, those of all previous periods are
  said to be. After a partial purge that is not so; the proof shows what holds instead (`RecentCached`).
* `rotating_strong_box.rs:54` declares the box unwind safe because it never panics while holding the
  lock. `refresh_cache` panics there when the box has no decryption key (`:319`), and so does a lifespan
  below one second (`:389`, excluded by `LifespanAssumption`).
* `rotating_strong_box.rs:75`: the encryptor starts as the all-zero key, valid through second 0. A box
  that encrypts at second 0 of its clock uses it; `NeverSealedStale` assumes a later start, and
  `NeverSealedUnderEarlier` excepts that second.
* `unlock_daemon.rs:289-296` calls the socket it removes stale without asking whether it is. For one
  command at a time it is (`StaleSocketsRemoved`); for two it need not be.
* `auth.rs:94`: a refresh under way during a logout saves its answer after the logout removed the file.
  The model has this behaviour; no text of the repository promises its absence.
* Two users at one URL: when one logs in while a command of the other unlocks, the command reads the
  file again and files the key of the one user under the session of the other. `KeyUnderItsSession`
  excepts exactly this (`crossed`); `cred_race` reaches it.
* `storage.rs:376`: a logout that cannot reach the keychain passes over it in silence; the seed that is
  in there stays. `LogoutForgetsSeed` excludes this (`skipped`).
* `storage.rs`: the removal of a file is not followed by a sync of the directory, so a power loss can
  bring the credentials back after a logout. `DurableFile` says it: only saves are settled.
* `tasks.rs`: `create_task` draws a new id every time. When the answer of the first attempt is lost, a
  second one makes a second task.
* `tasks.rs:299`: an update overwrites a version of the task it has not read; nothing of the request
  says which one it read. Title and payload may then disagree (`torn`).

## 8. Not modelled, and why

`PROJECT.json` lists every component with its reason. In short: the encoders and validators of payloads
are pure functions of bytes, without order or failure; what the models need of them is in `ListKeys`.
`client-core` has types only. OPAQUE is two calls into an external library; its outcome is in
`Credentials` and `Sharing`. The parsing of arguments, the printing of results, the rendering of
attachments, and the build scripts hold no state that outlives them. The TypeScript copies of what the
Rust code does to tasks are the external `WebEdit`. The server, the platform's keychain, the file
system, the allocator and the clock are external, and modelled as far as the code's use of them shows.
Cryptography is symbolic throughout: a ciphertext opens with the key it was sealed with. Out of reach of
TLC and TLAPS: the strength of any of it.

## 9. Running

```
tlc -workers 2 -config rsb_window.cfg MCStrongBoxes
tlapm RotatingStrongBoxProofs.tla
```

Most runs take from a second to a minute and a half with two workers, `rsb_window` and `sbw_failures`
two to three minutes; the proofs take some ten minutes together.
