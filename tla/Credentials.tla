---------------------------- MODULE Credentials ----------------------------
(***************************************************************************)
(* The session of the command line: one credentials file for all API URLs, *)
(* read and replaced by commands that run at the same time and lock        *)
(* nothing; the refresh tokens at the server; and the two places where the *)
(* decrypted data key of an account is kept, the platform keychain and the *)
(* unlock daemon, under a name made of the URL, the user and the wrapped   *)
(* data key.                                                               *)
(*                                                                         *)
(* A data key is the account it belongs to; a wrapped data key is its      *)
(* version.  The file is written whole: its replacement is one step.  The  *)
(* server and what other devices do there are external.                    *)
(***************************************************************************)
EXTENDS Integers, FiniteSets

CONSTANTS
    Commands,   \* processes of the command line
    Accounts,
    Url,        \* the API URL that every account is registered at
    Legacy,     \* accounts whose data key is wrapped by the password alone
    NoFile,     \* there is no credentials file
    Failures,   \* what may fail: "server", "reply", "keychain", "kill"
    MaxTokens,  \* bound of the model: refresh tokens the server issues
    MaxWraps    \* [Accounts -> Nat]: bound on the times its data key is wrapped anew

ASSUME AccountsAssumption == Legacy \subseteq Accounts
ASSUME FailuresAssumption == Failures \subseteq {"server", "reply", "keychain", "kill"}
ASSUME BoundsAssumption == MaxTokens \in Nat /\ MaxWraps \in [Accounts -> Nat]

VARIABLES
    file,      \* credentials.json, or NoFile
    issued,    \* refresh tokens issued so far: 1 .. issued
    live,      \* those the server accepts
    wrapping,  \* the version of every account's wrapped data key at the server
    keychain,  \* the data keys in the keychain: session -> account of the key
    daemon,    \* the data keys in the unlock daemon: session -> account of the key
    cmd,       \* what every command is doing
    crossed    \* history: <<a, b>> if b logged in when a key of a was about to be stored

vars == <<file, issued, live, wrapping, keychain, daemon, cmd, crossed>>
stores == <<keychain, daemon>>
server == <<issued, live, wrapping>>

----------------------------------------------------------------------------
(* Credentials *)

(* access_expires_at and refresh_expires_at tell how old credentials are:  *)
(* fresh, stale when the access token is about to expire, or expired when  *)
(* the refresh token is.                                                   *)
Credentials(a, token, wrap) ==
    [account |-> a, token |-> token, wrap |-> wrap, age |-> "fresh"]

(* load_credentials_for_url finds the file, and it is for this URL *)
LoggedInSomewhere(url) == file # NoFile  \* mutant: the URL is not compared
LoggedIn(url) == file # NoFile /\ Url[file.account] = url

(* persisted_data_key_entry_name and session_key *)
Session(creds) == [account |-> creds.account, wrap |-> creds.wrap]

Without(store, session) == [s \in DOMAIN store \ {session} |-> store[s]]
With(store, session, key) ==
    [s \in DOMAIN store \cup {session} |-> IF s = session THEN key ELSE store[s]]

----------------------------------------------------------------------------
(* Commands *)

Idle == [pc |-> "idle"]
Running(name, pc, creds) ==
    [pc |-> pc, name |-> name, creds |-> creds, replaced |-> 0,
     key |-> creds.account, warned |-> FALSE]

Init ==
    /\ file = NoFile
    /\ issued = 0
    /\ live = {}
    /\ wrapping = [a \in Accounts |-> 0]
    /\ keychain = [s \in {} |-> 0]
    /\ daemon = [s \in {} |-> 0]
    /\ cmd = [c \in Commands |-> Idle]
    /\ crossed = {}

Become(c, record) == cmd' = [cmd EXCEPT ![c] = record]
(* The command is for the URL of the credentials it loaded. *)
UrlOf(c) == Url[cmd[c].creds.account]

Goto(c, label) == Become(c, [cmd[c] EXCEPT !.pc = label])
End(c) == Become(c, Idle)

(* Every running command asks the server for one token at most. *)
TokensLeft == issued + Cardinality({c \in Commands : cmd[c].pc # "idle"}) < MaxTokens

Read == UNCHANGED <<file, server, stores, crossed>>

(* auth login: nothing to do if the session for the URL has not expired    *)
StartLogin(c) ==
    /\ cmd[c] = Idle /\ TokensLeft
    /\ \E a \in Accounts :
          /\ LoggedIn(Url[a]) => file.age = "expired"
          /\ Become(c, Running("login", "authenticate", Credentials(a, 0, 0)))
    /\ Read

(* Every other command needs the session of its URL, and does nothing      *)
(* without it.                                                             *)
NotLoggedIn(c) ==
    /\ cmd[c] = Idle
    /\ \E a \in Accounts : ~LoggedIn(Url[a])
    /\ UNCHANGED vars

(* The other commands are for the URL of the file.  One that calls the API *)
(* refreshes credentials that need it.                                     *)
StartRequest(c) ==
    /\ cmd[c] = Idle /\ file # NoFile /\ TokensLeft
    /\ file.age = "stale"
    /\ Become(c, Running("request", "refresh", file))
    /\ Read

(* auth unlock, auth keychain store, or a command that needs the data key, *)
(* given the password: that unwraps the key, or a new login does.          *)
StartUnlock(c) ==
    /\ cmd[c] = Idle /\ file # NoFile /\ TokensLeft
    /\ \/ /\ file.account \notin Legacy
          /\ \E name \in {"unlock", "store", "use"} : Become(c, Running(name, "authenticate", file))
       \/ /\ file.account \in Legacy
          /\ \E name \in {"unlock", "store"} : Become(c, Running(name, "reload", file))
    /\ Read

(* A command that needs the data key and is given no password *)
StartUse(c) ==
    /\ cmd[c] = Idle /\ file # NoFile
    /\ Become(c, Running("use", "fetch", file))
    /\ Read

(* auth keychain clear *)
StartForget(c) ==
    /\ cmd[c] = Idle /\ file # NoFile
    /\ Become(c, Running("forget", "clear_keychain", file))
    /\ Read

StartLogout(c) ==
    /\ cmd[c] = Idle /\ file # NoFile
    /\ Become(c, Running("logout", "revoke", file))
    /\ Read

(* login at the server: wrong password and lost connection look alike.     *)
Authenticate(c) ==
    /\ cmd[c].pc = "authenticate"
    /\ \/ LET a == cmd[c].creds.account IN
             /\ issued' = issued + 1
             /\ live' = live \cup {issued'}
             /\ \/ Become(c, [cmd[c] EXCEPT !.pc = "save",
                                 !.creds = Credentials(a, issued', wrapping[a])])
                \/ "reply" \in Failures /\ End(c)
       \/ "server" \in Failures /\ End(c) /\ UNCHANGED <<issued, live>>
    /\ UNCHANGED <<file, wrapping, stores, crossed>>

RefreshedKeepsToken(creds, token) == [creds EXCEPT !.age = "fresh"]  \* mutant: token not replaced
RefreshedDropsToken(creds, token) ==  \* mutant: the new token is not taken over
    [creds EXCEPT !.token = 0, !.age = "fresh"]

(* update_credentials_with_refresh *)
Refreshed(creds, token) == [creds EXCEPT !.token = token, !.age = "fresh"]

(* The server replaces a refresh token it accepts, and refuses any other.  *)
Refresh(c) ==
    /\ cmd[c].pc = "refresh"
    /\ LET old == cmd[c].creds.token IN
          \/ /\ old \in live
             /\ issued' = issued + 1
             /\ live' = (live \ {old}) \cup {issued'}
             /\ \/ Become(c, [cmd[c] EXCEPT !.pc = "save", !.replaced = old,
                                 !.creds = Refreshed(@, issued')])
                \/ "reply" \in Failures /\ End(c)
          \/ /\ old \notin live \/ "server" \in Failures
             /\ End(c)
             /\ UNCHANGED <<issued, live>>
    /\ UNCHANGED <<file, wrapping, stores, crossed>>

(* The commands that have unwrapped a key and are yet to name what they    *)
(* store, when the command c saves another account's session at their URL  *)
Crossings(c) ==
    {<<cmd[d].key, cmd[c].creds.account>> :
        d \in {d \in Commands \ {c} : /\ cmd[d].pc = "reload"
                                      /\ UrlOf(d) = UrlOf(c)
                                      /\ cmd[d].key # cmd[c].creds.account}}

(* save_credentials, whatever the file holds by now *)
Save(c) ==
    /\ cmd[c].pc = "save"
    /\ file' = cmd[c].creds
    /\ IF cmd[c].name \in {"unlock", "store"} THEN Goto(c, "reload") ELSE End(c)
    /\ crossed' = crossed \cup Crossings(c)
    /\ UNCHANGED <<server, stores>>

(* The credentials are read again, to name what is stored. *)
Reload(c) ==
    /\ cmd[c].pc = "reload"
    /\ IF LoggedIn(UrlOf(c))
       THEN Become(c, [cmd[c] EXCEPT !.pc = "put", !.creds = file])
       ELSE End(c)
    /\ Read

(* save_persisted_data_key, unlock of the daemon *)
Put(c) ==
    /\ cmd[c].pc = "put"
    /\ \/ /\ cmd[c].name = "store"
          /\ \/ keychain' = With(keychain, Session(cmd[c].creds), cmd[c].key)
             \/ "keychain" \in Failures /\ UNCHANGED keychain
          /\ UNCHANGED daemon
       \/ /\ cmd[c].name # "store"
          /\ daemon' = With(daemon, Session(cmd[c].creds), cmd[c].key)
          /\ UNCHANGED keychain
    /\ End(c)
    /\ UNCHANGED <<file, server, crossed>>

(* load_data_key: the daemon first, then the keychain *)
Fetch(c) ==
    /\ cmd[c].pc = "fetch"
    /\ IF Session(cmd[c].creds) \in DOMAIN daemon THEN End(c) ELSE Goto(c, "bootstrap")
    /\ Read

Bootstrap(c) ==
    /\ cmd[c].pc = "bootstrap"
    /\ LET session == Session(cmd[c].creds) IN
          IF session \in DOMAIN keychain
          THEN Become(c, [cmd[c] EXCEPT !.pc = "put", !.key = keychain[session]])
          ELSE End(c)
    /\ Read

(* Logout goes on when the server cannot be told. *)
Revoke(c) ==
    /\ cmd[c].pc = "revoke"
    /\ \/ live' = live \ {cmd[c].creds.token}
       \/ "server" \in Failures /\ UNCHANGED live
    /\ Goto(c, "clear_keychain")
    /\ UNCHANGED <<file, issued, wrapping, stores, crossed>>

ClearFileFirst(c) ==  \* mutant: the file goes before the keychain entry it names
    /\ cmd[c].pc = "clear_keychain"
    /\ file' = NoFile
    /\ IF cmd[c].name = "logout" THEN Goto(c, "remove") ELSE End(c)
    /\ UNCHANGED <<server, stores, crossed>>

(* clear_persisted_data_key, which reads the file again; a failure is only *)
(* a warning.                                                              *)
ClearKeychain(c) ==
    /\ cmd[c].pc = "clear_keychain"
    /\ \E failed \in {FALSE} \cup (IF "keychain" \in Failures THEN {TRUE} ELSE {}) :
          /\ keychain' = IF LoggedIn(UrlOf(c)) /\ ~failed
                         THEN Without(keychain, Session(file)) ELSE keychain
          /\ IF cmd[c].name = "logout"
             THEN Become(c, [cmd[c] EXCEPT !.pc = "remove", !.warned = failed])
             ELSE End(c)
    /\ UNCHANGED <<file, server, daemon, crossed>>

(* clear_credentials, whatever the file holds by now *)
Remove(c) ==
    /\ cmd[c].pc = "remove"
    /\ file' = NoFile
    /\ Goto(c, "clear_session")
    /\ UNCHANGED <<server, stores, crossed>>

ClearSession(c) ==
    /\ cmd[c].pc = "clear_session"
    /\ daemon' = Without(daemon, Session(cmd[c].creds))
    /\ Goto(c, "logged_out")
    /\ UNCHANGED <<file, server, keychain, crossed>>

Return(c) == cmd[c].pc = "logged_out" /\ End(c) /\ Read

----------------------------------------------------------------------------
(* The environment *)

(* The command is killed, or fails for a reason of its own. *)
Kill(c) ==
    /\ "kill" \in Failures
    /\ cmd[c].pc \notin {"idle", "logged_out"}
    /\ End(c) /\ Read

Age ==
    /\ file # NoFile
    /\ file.age # "expired"
    /\ file' = [file EXCEPT !.age = IF @ = "fresh" THEN "stale" ELSE "expired"]
    /\ UNCHANGED <<server, stores, cmd, crossed>>

(* The password is changed elsewhere: the data key is wrapped anew. *)
Rewrap(a) ==
    /\ wrapping[a] < MaxWraps[a]
    /\ wrapping' = [wrapping EXCEPT ![a] = @ + 1]
    /\ UNCHANGED <<file, issued, live, stores, cmd, crossed>>

(* A session of the daemon expires, or the daemon ends. *)
DaemonForgets ==
    /\ \E s \in DOMAIN daemon : daemon' = Without(daemon, s)
    /\ UNCHANGED <<file, server, keychain, cmd, crossed>>

Start(c) ==
    \/ StartLogin(c) \/ NotLoggedIn(c) \/ StartRequest(c) \/ StartUnlock(c)
    \/ StartUse(c) \/ StartForget(c) \/ StartLogout(c)

Step(c) ==
    \/ Authenticate(c) \/ Refresh(c) \/ Save(c) \/ Reload(c) \/ Put(c)
    \/ Fetch(c) \/ Bootstrap(c)
    \/ Revoke(c) \/ ClearKeychain(c) \/ Remove(c) \/ ClearSession(c)

Next ==
    \/ \E c \in Commands : Start(c) \/ Step(c) \/ Return(c) \/ Kill(c)
    \/ \E a \in Accounts : Rewrap(a)
    \/ Age \/ DaemonForgets

Spec == Init /\ [][Next]_vars

----------------------------------------------------------------------------
(* Correctness *)

Ages == {"fresh", "stale", "expired"}
Labels == {"authenticate", "refresh", "save", "reload", "put", "fetch", "bootstrap",
           "revoke", "clear_keychain", "remove", "clear_session", "logged_out"}
Names == {"login", "request", "unlock", "store", "use", "forget", "logout"}

CredentialsWith(tokens) == [account : Accounts, token : tokens, wrap : Nat, age : Ages]
Active ==
    [pc : Labels, name : Names, creds : CredentialsWith(0 .. issued), replaced : 0 .. issued,
     key : Accounts, warned : BOOLEAN]

Sessions == [account : Accounts, wrap : Nat]
IsStore(store) == DOMAIN store \subseteq Sessions /\ store \in [DOMAIN store -> Accounts]

(* Type correctness: every token that the file and the commands hold is    *)
(* one that the server issued, but for those of a login under way.         *)
TypeOK ==
    /\ file \in {NoFile} \cup CredentialsWith(1 .. issued)
    /\ issued \in Nat /\ live \subseteq 1 .. issued
    /\ wrapping \in [Accounts -> Nat]
    /\ IsStore(keychain) /\ IsStore(daemon)
    /\ cmd \in [Commands -> {Idle} \cup Active]
    /\ \A c \in Commands : cmd[c].pc \notin {"idle", "authenticate"} => cmd[c].creds.token # 0

(* The data key of an account is kept under the session of another only if *)
(* the other logged in at the same URL after a command had unwrapped the   *)
(* key and before it read the credentials again, to name what it stores:   *)
(* not for what else happens meanwhile, a logout, a login at another URL,  *)
(* a refresh, and not by moving a key from the keychain to the daemon.     *)
KeyUnderItsSession ==
    \A store \in {keychain, daemon} : \A s \in DOMAIN store :
        store[s] = s.account \/ <<store[s], s.account>> \in crossed

(* The session is not lost to the races of refreshes, logins and logouts:  *)
(* the server accepts the refresh token in the file, unless a command is   *)
(* about to replace it or is logging it out.                               *)
ReplacedBy(c) == cmd[c].pc = "save" /\ cmd[c].replaced = file.token
LoggedOutBy(c) ==
    /\ cmd[c].pc \in {"clear_keychain", "remove"} /\ cmd[c].name = "logout"
    /\ cmd[c].creds.token = file.token

TokenKept ==
    file # NoFile =>
        file.token \in live \/ \E c \in Commands : ReplacedBy(c) \/ LoggedOutBy(c)

(* When logout reports success without a warning, the file is gone, and so *)
(* is every copy of the account's data key, in keychain and daemon.        *)
LogoutForgets ==
    \A c \in Commands :
        cmd[c].pc = "logged_out" /\ ~cmd[c].warned =>
            /\ file = NoFile
            /\ \A store \in {keychain, daemon} : \A s \in DOMAIN store :
                  s.account # cmd[c].creds.account

----------------------------------------------------------------------------
(* The inductive invariants of the proofs *)

(* A token that has been issued and not yet saved is live and known to its *)
(* command alone.                                                          *)
UnsavedTokensUnshared ==
    \A c \in Commands : cmd[c].pc = "save" =>
        /\ cmd[c].creds.token \in live
        /\ file # NoFile => file.token # cmd[c].creds.token
        /\ \A d \in Commands \ {c} :
              cmd[d].pc # "idle" => cmd[d].creds.token # cmd[c].creds.token

(* Only logout revokes the token it loaded. *)
RevokersLogOut == \A c \in Commands : cmd[c].pc = "revoke" => cmd[c].name = "logout"

TokenInv == TypeOK /\ RevokersLogOut /\ UnsavedTokensUnshared /\ TokenKept

(* The key a command holds is that of the credentials it holds, and so it  *)
(* will be with those it reads again; or the two have crossed.             *)
OwnKey(key, account) == key = account \/ <<key, account>> \in crossed

HoldsItsKey(r) ==
    r.pc # "idle" =>
        /\ OwnKey(r.key, r.creds.account)
        /\ r.pc \in {"authenticate", "refresh", "save", "reload"} => r.key = r.creds.account
        /\ r.pc = "reload" /\ LoggedIn(Url[r.creds.account]) => OwnKey(r.key, file.account)

KeyOfCredentials == \A c \in Commands : HoldsItsKey(cmd[c])

KeyInv == TypeOK /\ KeyOfCredentials /\ KeyUnderItsSession

(* No data key is wrapped anew: an account has one session.                *)
NeverRewrapped ==
    /\ \A a \in Accounts : wrapping[a] = 0
    /\ file # NoFile => file.wrap = 0
    /\ \A c \in Commands : cmd[c].pc # "idle" => cmd[c].creds.wrap = 0
    /\ \A store \in {keychain, daemon} : \A s \in DOMAIN store : s.wrap = 0

(* What a logout has done so far, when no other command runs *)
Forgets(store, a) == \A s \in DOMAIN store : s.account # a

LogoutUnderWay ==
    \A c \in Commands :
        LET a == cmd[c].creds.account IN
        /\ cmd[c].pc \in {"revoke", "clear_keychain"} => file # NoFile /\ file.account = a
        /\ cmd[c].pc \in {"remove", "clear_session", "logged_out"} /\ ~cmd[c].warned =>
              Forgets(keychain, a)
        /\ cmd[c].pc \in {"clear_session", "logged_out"} => file = NoFile
        /\ cmd[c].pc = "logged_out" => Forgets(daemon, a)

LogoutInv == TypeOK /\ NeverRewrapped /\ LogoutUnderWay
=============================================================================
