-------------------------- MODULE CredentialsProofs --------------------------
(***************************************************************************)
(* Proofs about Credentials, for every number of commands, accounts, URLs, *)
(* tokens and versions of the wrapped data keys.                           *)
(***************************************************************************)
EXTENDS Credentials, TLAPS

(* What typing asks of one command *)
CommandOK(r) ==
    /\ r \in {Idle} \cup Active
    /\ r.pc \notin {"idle", "authenticate"} => r.creds.token # 0

----------------------------------------------------------------------------
(* Commands, credentials and stores one by one *)

(* The control state of a command tells which kind of record it is. *)
LEMMA CommandCases ==
    ASSUME TypeOK, NEW c \in Commands
    PROVE  /\ CommandOK(cmd[c])
           /\ cmd[c].pc \in Labels <=> cmd[c] \in Active
           /\ cmd[c].pc = "idle" <=> cmd[c] = Idle
           /\ cmd[c] \in Active => cmd[c].creds \in CredentialsWith(0 .. issued)
           /\ cmd[c] \in Active /\ cmd[c].pc # "authenticate" =>
                 cmd[c].creds \in CredentialsWith(1 .. issued)
  <1>1. cmd[c] \in {Idle} \cup Active
    BY DEF TypeOK
  <1>2. CommandOK(cmd[c])
    BY <1>1 DEF TypeOK, CommandOK
  <1>3. cmd[c] \in Active => cmd[c].pc \in Labels /\ cmd[c].creds \in CredentialsWith(0 .. issued)
    BY DEF Active
  <1>4. Idle.pc = "idle"
    BY DEF Idle
  <1>5. "idle" \notin Labels
    BY DEF Labels
  <1>6. cmd[c] \in Active /\ cmd[c].pc # "authenticate" =>
           cmd[c].creds \in CredentialsWith(1 .. issued)
    BY <1>2, <1>3, <1>5 DEF CommandOK, CredentialsWith, TypeOK
  <1> QED BY <1>1, <1>2, <1>3, <1>4, <1>5, <1>6

(* A command that starts is typed if its credentials are. *)
LEMMA RunningTyped ==
    ASSUME NEW name \in Names, NEW pc \in Labels, issued \in Nat,
           NEW creds \in CredentialsWith(0 .. issued),
           pc # "authenticate" => creds.token # 0
    PROVE  /\ Running(name, pc, creds) \in Active
           /\ CommandOK(Running(name, pc, creds))
  BY DEF Running, Active, CommandOK, CredentialsWith

(* Credentials as they are received are typed. *)
LEMMA CredentialsTyped ==
    ASSUME NEW a \in Accounts, NEW token, NEW wrap \in Nat
    PROVE  /\ Credentials(a, token, wrap) \in CredentialsWith({token})
           /\ Credentials(a, token, wrap).token = token
           /\ Credentials(a, token, wrap).account = a
  BY DEF Credentials, CredentialsWith, Ages

(* Storing a key, or removing one, keeps a store a store. *)
LEMMA StoresTyped ==
    ASSUME NEW store, IsStore(store), NEW session
    PROVE  /\ IsStore(Without(store, session))
           /\ \A key \in Accounts : session \in Sessions => IsStore(With(store, session, key))
  BY DEF IsStore, Without, With

(* The name of a session keeps the account of its credentials. *)
LEMMA SessionTyped ==
    ASSUME NEW tokens, NEW creds \in CredentialsWith(tokens)
    PROVE  /\ Session(creds) \in Sessions
           /\ Session(creds).account = creds.account
  BY DEF Session, Sessions, CredentialsWith

(* The file is credentials the server issued whenever there is one. *)
LEMMA FileTyped ==
    ASSUME TypeOK, file # NoFile
    PROVE  /\ file \in CredentialsWith(1 .. issued)
           /\ file \in CredentialsWith(0 .. issued)
           /\ file.token # 0
           /\ file.account \in Accounts
  BY DEF TypeOK, CredentialsWith

(* One command moves on, and tokens may be issued. *)
LEMMA CommandMoves ==
    ASSUME TypeOK, NEW c \in Commands, NEW r,
           cmd' = [cmd EXCEPT ![c] = r],
           issued' \in Nat, issued <= issued',
           r \in {Idle} \cup Active',
           r.pc \notin {"idle", "authenticate"} => r.creds.token # 0
    PROVE  /\ cmd' \in [Commands -> {Idle} \cup Active']
           /\ \A d \in Commands : cmd'[d].pc \notin {"idle", "authenticate"} =>
                 cmd'[d].creds.token # 0
           /\ file \in {NoFile} \cup CredentialsWith(1 .. issued')
  <1>1. Active \subseteq Active'
    BY DEF Active, CredentialsWith, TypeOK
  <1>2. cmd \in [Commands -> {Idle} \cup Active]
    BY DEF TypeOK
  <1>3. cmd' \in [Commands -> {Idle} \cup Active']
    BY <1>1, <1>2
  <1>4. file \in {NoFile} \cup CredentialsWith(1 .. issued')
    BY DEF TypeOK, CredentialsWith
  <1> QED BY <1>3, <1>4 DEF TypeOK

(* The common case: nothing is issued. *)
LEMMA CommandTyped ==
    ASSUME TypeOK, NEW c \in Commands, NEW r, cmd' = [cmd EXCEPT ![c] = r],
           CommandOK(r), UNCHANGED <<issued, live, wrapping>>,
           file' \in {NoFile} \cup CredentialsWith(1 .. issued),
           IsStore(keychain'), IsStore(daemon')
    PROVE  TypeOK'
  <1>1. Active' = Active
    BY DEF Active
  <1>2. issued \in Nat /\ issued <= issued
    BY DEF TypeOK
  <1>3. r \in {Idle} \cup Active'
    BY <1>1 DEF CommandOK
  <1>4. /\ cmd' \in [Commands -> {Idle} \cup Active']
        /\ \A d \in Commands : cmd'[d].pc \notin {"idle", "authenticate"} =>
              cmd'[d].creds.token # 0
    BY <1>2, <1>3, CommandMoves DEF CommandOK
  <1> QED BY <1>1, <1>4 DEF TypeOK, IsStore

(* Ending and going on within a command keep it typed. *)
LEMMA MovesTyped ==
    ASSUME TypeOK, NEW c \in Commands
    PROVE  /\ CommandOK(Idle) /\ Idle.pc = "idle"
           /\ \A pc \in Labels \ {"authenticate"} :
                 cmd[c] \in Active /\ cmd[c].pc # "authenticate" =>
                    CommandOK([cmd[c] EXCEPT !.pc = pc])
  <1>1. CommandOK(Idle) /\ Idle.pc = "idle"
    BY DEF CommandOK, Idle
  <1>2. ASSUME NEW pc \in Labels \ {"authenticate"}, cmd[c] \in Active,
               cmd[c].pc # "authenticate"
        PROVE  CommandOK([cmd[c] EXCEPT !.pc = pc])
    <2>1. [cmd[c] EXCEPT !.pc = pc] \in Active
      BY <1>2 DEF Active
    <2>2. [cmd[c] EXCEPT !.pc = pc].creds = cmd[c].creds
      BY <1>2 DEF Active
    <2>3. cmd[c].creds.token # 0
      BY <1>2, CommandCases DEF CommandOK, Labels, Active
    <2> QED BY <2>1, <2>2, <2>3 DEF CommandOK
  <1> QED BY <1>1, <1>2

----------------------------------------------------------------------------
(* Type correctness *)

(* Nobody is logged in and nothing runs at first. *)
LEMMA InitTyped == Init => TypeOK
  <1>1. IsStore([s \in {} |-> 0])
    BY DEF IsStore
  <1>2. Init => /\ file \in {NoFile} \cup CredentialsWith(1 .. issued)
                /\ issued \in Nat /\ live \subseteq 1 .. issued
    BY DEF Init
  <1>3. Init => wrapping \in [Accounts -> Nat]
    BY DEF Init
  <1>4. Init => /\ cmd \in [Commands -> {Idle} \cup Active]
                /\ \A c \in Commands : cmd[c].pc \notin {"idle", "authenticate"} =>
                      cmd[c].creds.token # 0
    BY DEF Init, Idle
  <1> QED BY <1>1, <1>2, <1>3, <1>4 DEF Init, TypeOK

(* Commands start from a typed file. *)
LEMMA StartTyped ==
    ASSUME TypeOK, NEW c \in Commands, Start(c)
    PROVE  TypeOK'
  <1>1. CASE StartLogin(c)
    <2>1. PICK a \in Accounts :
             cmd' = [cmd EXCEPT ![c] = Running("login", "authenticate", Credentials(a, 0, 0))]
      BY <1>1 DEF StartLogin, Become
    <2>2. Credentials(a, 0, 0) \in CredentialsWith(0 .. issued)
      BY CredentialsTyped DEF TypeOK, CredentialsWith
    <2>3. CommandOK(Running("login", "authenticate", Credentials(a, 0, 0)))
      BY <2>2, RunningTyped DEF TypeOK, Names, Labels
    <2> QED BY <1>1, <2>1, <2>3, CommandTyped DEF StartLogin, Read, server, stores, TypeOK
  <1>2. CASE NotLoggedIn(c)
    BY <1>2 DEF NotLoggedIn, vars, TypeOK, IsStore, Active
  <1>3. ASSUME file # NoFile, NEW name \in Names, NEW pc \in Labels,
               Become(c, Running(name, pc, file)), Read
        PROVE  TypeOK'
    <2>1. CommandOK(Running(name, pc, file))
      BY <1>3, FileTyped, RunningTyped DEF TypeOK
    <2> QED BY <1>3, <2>1, CommandTyped DEF Become, Read, server, stores, TypeOK
  <1>4. CASE StartRequest(c) \/ StartUnlock(c) \/ StartUse(c) \/ StartForget(c) \/ StartLogout(c)
    BY <1>3, <1>4 DEF StartRequest, StartUnlock, StartUse, StartForget, StartLogout,
                      Names, Labels
  <1> QED BY <1>1, <1>2, <1>4 DEF Start

(* What the server answers is typed. *)
LEMMA AuthenticateTyped ==
    ASSUME TypeOK, NEW c \in Commands, Authenticate(c)
    PROVE  TypeOK'
  <1>1. cmd[c] \in Active
    BY CommandCases DEF Authenticate, Labels
  <1>2. CASE End(c) /\ UNCHANGED <<issued, live>>
    BY <1>2, MovesTyped, CommandTyped DEF Authenticate, End, Become, stores, TypeOK
  <1>3. CASE issued' = issued + 1 /\ live' = live \cup {issued'}
    <2> DEFINE a == cmd[c].creds.account
               fresh == Credentials(a, issued', wrapping[a])
               r == [cmd[c] EXCEPT !.pc = "save", !.creds = fresh]
    <2>1. a \in Accounts /\ wrapping[a] \in Nat
      BY <1>1 DEF Active, CredentialsWith, TypeOK
    <2>2. issued \in Nat /\ issued' \in Nat /\ issued <= issued' /\ issued' # 0
      BY <1>3 DEF TypeOK
    <2>3. fresh \in CredentialsWith(0 .. issued') /\ fresh.token = issued'
      BY <2>1, <2>2, CredentialsTyped DEF CredentialsWith
    <2>4. cmd[c].replaced \in 0 .. issued'
      BY <1>1, <2>2 DEF Active
    <2>5. r \in Active' /\ r.pc = "save" /\ r.creds = fresh
      BY <1>1, <2>3, <2>4 DEF Active, CredentialsWith, Labels
    <2>6. live' \subseteq 1 .. issued'
      <3>1. live \subseteq 1 .. issued /\ 1 .. issued \subseteq 1 .. issued'
        BY <2>2 DEF TypeOK
      <3>2. issued' \in 1 .. issued'
        BY <2>2
      <3> QED BY <1>3, <3>1, <3>2
    <2>7. cmd' = [cmd EXCEPT ![c] = r] \/ cmd' = [cmd EXCEPT ![c] = Idle]
      BY <1>3, <2>2 DEF Authenticate, Become, End
    <2>8. /\ cmd' \in [Commands -> {Idle} \cup Active']
          /\ \A d \in Commands : cmd'[d].pc \notin {"idle", "authenticate"} =>
                cmd'[d].creds.token # 0
          /\ file \in {NoFile} \cup CredentialsWith(1 .. issued')
      <3> HIDE DEF r
      <3>1. r.creds.token # 0
        BY <2>2, <2>3, <2>5
      <3>2. CASE cmd' = [cmd EXCEPT ![c] = r]
        BY <2>2, <2>5, <3>1, <3>2, CommandMoves
      <3>3. CASE cmd' = [cmd EXCEPT ![c] = Idle]
        BY <2>2, <3>3, CommandMoves DEF Idle
      <3> QED BY <2>7, <3>2, <3>3
    <2> QED BY <2>2, <2>6, <2>8 DEF Authenticate, stores, TypeOK, IsStore
  <1> QED BY <1>2, <1>3 DEF Authenticate

(* So are refreshed credentials. *)
LEMMA RefreshTyped ==
    ASSUME TypeOK, NEW c \in Commands, Refresh(c)
    PROVE  TypeOK'
  <1>1. cmd[c] \in Active /\ cmd[c].creds \in CredentialsWith(1 .. issued)
    BY CommandCases DEF Refresh, Labels
  <1>2. CASE End(c) /\ UNCHANGED <<issued, live>>
    BY <1>2, MovesTyped, CommandTyped DEF Refresh, End, Become, stores, TypeOK
  <1>3. CASE issued' = issued + 1 /\ live' = (live \ {cmd[c].creds.token}) \cup {issued'}
    <2> DEFINE fresh == Refreshed(cmd[c].creds, issued')
               r == [cmd[c] EXCEPT !.pc = "save", !.replaced = cmd[c].creds.token,
                                   !.creds = fresh]
    <2>2. issued \in Nat /\ issued' \in Nat /\ issued <= issued' /\ issued' # 0
      BY <1>3 DEF TypeOK
    <2>3. fresh \in CredentialsWith(0 .. issued') /\ fresh.token = issued'
      <3>1. fresh = [cmd[c].creds EXCEPT !.token = issued', !.age = "fresh"]
        BY DEF Refreshed
      <3>2. issued' \in 0 .. issued' /\ "fresh" \in Ages
        BY <2>2 DEF Ages
      <3> QED BY <1>1, <3>1, <3>2 DEF CredentialsWith
    <2>4. cmd[c].creds.token \in 0 .. issued'
      BY <1>1, <2>2 DEF CredentialsWith
    <2>5. r \in Active' /\ r.pc = "save" /\ r.creds = fresh
      BY <1>1, <2>3, <2>4 DEF Active, CredentialsWith, Labels
    <2>6. live' \subseteq 1 .. issued'
      <3>1. live \subseteq 1 .. issued /\ 1 .. issued \subseteq 1 .. issued'
        BY <2>2 DEF TypeOK
      <3>2. issued' \in 1 .. issued'
        BY <2>2
      <3> QED BY <1>3, <3>1, <3>2
    <2>7. cmd' = [cmd EXCEPT ![c] = r] \/ cmd' = [cmd EXCEPT ![c] = Idle]
      BY <1>3, <2>2 DEF Refresh, Become, End
    <2>8. /\ cmd' \in [Commands -> {Idle} \cup Active']
          /\ \A d \in Commands : cmd'[d].pc \notin {"idle", "authenticate"} =>
                cmd'[d].creds.token # 0
          /\ file \in {NoFile} \cup CredentialsWith(1 .. issued')
      <3> HIDE DEF r
      <3>1. r.creds.token # 0
        BY <2>2, <2>3, <2>5
      <3>2. CASE cmd' = [cmd EXCEPT ![c] = r]
        BY <2>2, <2>5, <3>1, <3>2, CommandMoves
      <3>3. CASE cmd' = [cmd EXCEPT ![c] = Idle]
        BY <2>2, <3>3, CommandMoves DEF Idle
      <3> QED BY <2>7, <3>2, <3>3
    <2> QED BY <2>2, <2>6, <2>8 DEF Refresh, stores, TypeOK, IsStore
  <1> QED BY <1>2, <1>3 DEF Refresh

(* The other steps of a command *)
LEMMA StepTyped ==
    ASSUME TypeOK, NEW c \in Commands, Step(c)
    PROVE  TypeOK'
  <1> USE DEF End, Become, Read, server, stores
  <1>0. /\ IsStore(keychain) /\ IsStore(daemon)
        /\ file \in {NoFile} \cup CredentialsWith(1 .. issued)
        /\ CommandOK(Idle)
    BY MovesTyped DEF TypeOK
  <1>1. CASE Authenticate(c)
    BY <1>1, AuthenticateTyped
  <1>2. CASE Refresh(c)
    BY <1>2, RefreshTyped
  <1>3. CASE Save(c)
    <2>1. cmd[c] \in Active /\ cmd[c].creds \in CredentialsWith(1 .. issued)
      BY <1>3, CommandCases DEF Save, Labels
    <2>2. CommandOK([cmd[c] EXCEPT !.pc = "reload"])
      BY <1>3, <2>1, MovesTyped DEF Save, Labels
    <2> QED BY <1>0, <1>3, <2>1, <2>2, CommandTyped DEF Save, Goto
  <1>4. CASE Reload(c)
    <2>1. cmd[c] \in Active
      BY <1>4, CommandCases DEF Reload, Labels
    <2>2. ASSUME file # NoFile
          PROVE  CommandOK([cmd[c] EXCEPT !.pc = "put", !.creds = file])
      BY <2>1, <2>2, FileTyped DEF CommandOK, Active, Labels
    <2> QED BY <1>0, <1>4, <2>2, CommandTyped DEF Reload, LoggedIn
  <1>5. CASE Put(c)
    <2>1. cmd[c] \in Active /\ cmd[c].creds \in CredentialsWith(1 .. issued)
      BY <1>5, CommandCases DEF Put, Labels
    <2>2. cmd[c].key \in Accounts /\ Session(cmd[c].creds) \in Sessions
      BY <2>1, SessionTyped DEF Active
    <2>3. IsStore(keychain') /\ IsStore(daemon')
      BY <1>0, <1>5, <2>2, StoresTyped DEF Put
    <2> QED BY <1>0, <1>5, <2>3, CommandTyped DEF Put
  <1>6. CASE Fetch(c)
    <2>1. cmd[c] \in Active
      BY <1>6, CommandCases DEF Fetch, Labels
    <2>2. CommandOK([cmd[c] EXCEPT !.pc = "bootstrap"])
      BY <1>6, <2>1, MovesTyped DEF Fetch, Labels
    <2> QED BY <1>0, <1>6, <2>2, CommandTyped DEF Fetch, Goto
  <1>7. CASE Bootstrap(c)
    <2>1. cmd[c] \in Active /\ cmd[c].creds.token # 0
      BY <1>7, CommandCases DEF Bootstrap, Labels, CommandOK
    <2>2. ASSUME NEW key \in Accounts
          PROVE  CommandOK([cmd[c] EXCEPT !.pc = "put", !.key = key])
      BY <2>1 DEF CommandOK, Active, Labels
    <2>3. \A s \in DOMAIN keychain : keychain[s] \in Accounts
      BY <1>0 DEF IsStore
    <2> QED BY <1>0, <1>7, <2>2, <2>3, CommandTyped DEF Bootstrap
  <1>8. CASE Revoke(c)
    <2>1. cmd[c] \in Active
      BY <1>8, CommandCases DEF Revoke, Labels
    <2>2. CommandOK([cmd[c] EXCEPT !.pc = "clear_keychain"])
      BY <1>8, <2>1, MovesTyped DEF Revoke, Labels
    <2>3. /\ cmd' \in [Commands -> {Idle} \cup Active]
          /\ \A d \in Commands : cmd'[d].pc \notin {"idle", "authenticate"} =>
                cmd'[d].creds.token # 0
      BY <1>8, <2>2 DEF Revoke, Goto, TypeOK, CommandOK
    <2>4. live' \subseteq 1 .. issued /\ Active' = Active
      BY <1>8 DEF Revoke, TypeOK, Active
    <2> QED BY <1>8, <2>3, <2>4 DEF Revoke, TypeOK, IsStore
  <1>9. CASE ClearKeychain(c)
    <2>1. cmd[c] \in Active /\ cmd[c].creds.token # 0
      BY <1>9, CommandCases DEF ClearKeychain, Labels, CommandOK
    <2>2. \A failed \in BOOLEAN :
             CommandOK([cmd[c] EXCEPT !.pc = "remove", !.warned = failed])
      BY <2>1 DEF CommandOK, Active, Labels
    <2>3. IsStore(keychain')
      BY <1>0, <1>9, StoresTyped DEF ClearKeychain
    <2>4. \/ cmd' = [cmd EXCEPT ![c] = Idle]
          \/ \E failed \in BOOLEAN :
                cmd' = [cmd EXCEPT ![c] = [cmd[c] EXCEPT !.pc = "remove", !.warned = failed]]
      BY <1>9 DEF ClearKeychain
    <2> QED BY <1>0, <1>9, <2>2, <2>3, <2>4, CommandTyped DEF ClearKeychain
  <1>10. CASE Remove(c)
    <2>1. cmd[c] \in Active
      BY <1>10, CommandCases DEF Remove, Labels
    <2>2. CommandOK([cmd[c] EXCEPT !.pc = "clear_session"])
      BY <1>10, <2>1, MovesTyped DEF Remove, Labels
    <2> QED BY <1>0, <1>10, <2>2, CommandTyped DEF Remove, Goto
  <1>11. CASE ClearSession(c)
    <2>1. cmd[c] \in Active
      BY <1>11, CommandCases DEF ClearSession, Labels
    <2>2. CommandOK([cmd[c] EXCEPT !.pc = "logged_out"])
      BY <1>11, <2>1, MovesTyped DEF ClearSession, Labels
    <2> QED BY <1>0, <1>11, <2>2, StoresTyped, CommandTyped DEF ClearSession, Goto
  <1> QED BY <1>1, <1>2, <1>3, <1>4, <1>5, <1>6, <1>7, <1>8, <1>9, <1>10, <1>11 DEF Step

(* What other devices, time and the daemon do keeps everything typed. *)
LEMMA EnvironmentTyped ==
    ASSUME TypeOK, Age \/ DaemonForgets \/ \E a \in Accounts : Rewrap(a)
    PROVE  TypeOK'
  <1>0. UNCHANGED issued => Active' = Active
    BY DEF Active
  <1>1. CASE Age
    <2>1. file' \in CredentialsWith(1 .. issued)
      BY <1>1, FileTyped DEF Age, CredentialsWith, Ages
    <2> QED BY <1>0, <1>1, <2>1 DEF Age, server, stores, TypeOK, IsStore
  <1>2. CASE DaemonForgets
    <2>1. IsStore(daemon')
      BY <1>2, StoresTyped DEF DaemonForgets, TypeOK
    <2> QED BY <1>0, <1>2, <2>1 DEF DaemonForgets, server, TypeOK, IsStore
  <1>3. CASE \E a \in Accounts : Rewrap(a)
    <2>1. wrapping' \in [Accounts -> Nat]
      BY <1>3 DEF Rewrap, TypeOK
    <2> QED BY <1>0, <1>3, <2>1 DEF Rewrap, stores, TypeOK, IsStore
  <1> QED BY <1>1, <1>2, <1>3

(* TypeOK is inductive. *)
LEMMA TypedStep == TypeOK /\ [Next]_vars => TypeOK'
  <1> SUFFICES ASSUME TypeOK, [Next]_vars PROVE TypeOK'
    OBVIOUS
  <1>1. CASE UNCHANGED vars
    BY <1>1 DEF vars, TypeOK, IsStore, Active
  <1>2. ASSUME NEW c \in Commands, Return(c) \/ Kill(c) PROVE TypeOK'
    BY <1>2, MovesTyped, CommandTyped
       DEF Return, Kill, End, Become, Read, server, stores, TypeOK
  <1> QED BY <1>1, <1>2, StartTyped, StepTyped, EnvironmentTyped DEF Next

(* Type correctness: no command ever holds or saves a refresh token that   *)
(* the server has not issued (http.rs:217-260, auth.rs:77-95).             *)
THEOREM TypeCorrect == Spec => []TypeOK
  <1> QED BY InitTyped, TypedStep, PTL DEF Spec

----------------------------------------------------------------------------
(* The session in the file *)

(* Nothing but a logout that starts comes to revoke a token. *)
LEMMA RevokersStep == TypeOK /\ RevokersLogOut /\ [Next]_vars => RevokersLogOut'
  <1> SUFFICES ASSUME TypeOK, RevokersLogOut, [Next]_vars PROVE RevokersLogOut'
    OBVIOUS
  <1> USE DEF Become, End, Goto, Idle
  <1>1. cmd \in [Commands -> {Idle} \cup Active]
    BY DEF TypeOK
  <1>2. ASSUME NEW c \in Commands, NEW r, cmd' = [cmd EXCEPT ![c] = r],
               r.pc = "revoke" => r.name = "logout"
        PROVE  RevokersLogOut'
    BY <1>1, <1>2 DEF RevokersLogOut
  <1>3. ASSUME NEW c \in Commands, End(c) PROVE RevokersLogOut'
    BY <1>2, <1>3
  <1>4. ASSUME NEW c \in Commands, cmd[c] \in Active, NEW label, Goto(c, label), label # "revoke"
        PROVE  RevokersLogOut'
    <2>1. [cmd[c] EXCEPT !.pc = label].pc = label
      BY <1>4 DEF Active
    <2> QED BY <1>2, <1>4, <2>1
  <1>5. CASE UNCHANGED cmd
    BY <1>5 DEF RevokersLogOut
  <1>6. ASSUME NEW c \in Commands, Start(c) PROVE RevokersLogOut'
    <2>1. ASSUME NEW name, NEW pc, NEW creds, Become(c, Running(name, pc, creds)),
                 pc = "revoke" => name = "logout"
          PROVE  RevokersLogOut'
      <3> DEFINE r == Running(name, pc, creds)
      <3>1. r.pc = pc /\ r.name = name
        BY DEF Running
      <3>2. cmd' = [cmd EXCEPT ![c] = r]
        BY <2>1
      <3> HIDE DEF r
      <3> QED BY <1>2, <2>1, <3>1, <3>2
    <2>2. CASE NotLoggedIn(c)
      BY <1>5, <2>2 DEF NotLoggedIn, vars
    <2>3. CASE StartLogin(c)
      <3>1. PICK creds : Become(c, Running("login", "authenticate", creds))
        BY <2>3 DEF StartLogin
      <3> HIDE DEF Become
      <3> QED BY <2>1, <3>1
    <2>4. CASE StartUnlock(c)
      <3>1. PICK name, pc : pc # "revoke" /\ Become(c, Running(name, pc, file))
        BY <2>4 DEF StartUnlock
      <3>2. pc = "revoke" => name = "logout"
        BY <3>1
      <3> HIDE DEF Become
      <3> QED BY <2>1, <3>1, <3>2
    <2>5. CASE StartRequest(c) \/ StartUse(c) \/ StartForget(c) \/ StartLogout(c)
      <3>1. PICK name, pc : /\ pc = "revoke" => name = "logout"
                            /\ Become(c, Running(name, pc, file))
        BY <2>5 DEF StartRequest, StartUse, StartForget, StartLogout
      <3> QED BY <2>1, <3>1
    <2> QED BY <1>6, <2>2, <2>3, <2>4, <2>5 DEF Start
  <1>7. ASSUME NEW c \in Commands, Step(c) PROVE RevokersLogOut'
    <2>1. cmd[c] \in Active
      <3>1. cmd[c].pc # "idle"
        BY <1>7 DEF Step, Authenticate, Refresh, Save, Reload, Put, Fetch, Bootstrap,
                    Revoke, ClearKeychain, Remove, ClearSession
      <3> QED BY <1>1, <3>1, CommandCases DEF CommandOK
    <2>2. CASE Authenticate(c)
      <3>1. \A creds : [cmd[c] EXCEPT !.pc = "save", !.creds = creds].pc = "save"
        BY <2>1 DEF Active
      <3> QED BY <1>2, <1>3, <2>2, <3>1 DEF Authenticate
    <2>3. CASE Refresh(c)
      <3>1. \A creds, old :
               [cmd[c] EXCEPT !.pc = "save", !.replaced = old, !.creds = creds].pc = "save"
        BY <2>1 DEF Active
      <3> QED BY <1>2, <1>3, <2>3, <3>1 DEF Refresh
    <2>4. CASE Reload(c)
      <3>1. [cmd[c] EXCEPT !.pc = "put", !.creds = file].pc = "put"
        BY <2>1 DEF Active
      <3> QED BY <1>2, <1>3, <2>4, <3>1 DEF Reload
    <2>5. CASE Bootstrap(c)
      <3>1. \A key : [cmd[c] EXCEPT !.pc = "put", !.key = key].pc = "put"
        BY <2>1 DEF Active
      <3> QED BY <1>2, <1>3, <2>5, <3>1 DEF Bootstrap
    <2>6. CASE ClearKeychain(c)
      <3>1. \A failed : [cmd[c] EXCEPT !.pc = "remove", !.warned = failed].pc = "remove"
        BY <2>1 DEF Active
      <3> QED BY <1>2, <1>3, <2>6, <3>1 DEF ClearKeychain
    <2>7. CASE Save(c) \/ Put(c) \/ Fetch(c)
      BY <1>3, <1>4, <2>1, <2>7 DEF Save, Put, Fetch
    <2>8. CASE Revoke(c) \/ Remove(c) \/ ClearSession(c)
      BY <1>4, <2>1, <2>8 DEF Revoke, Remove, ClearSession
    <2> QED BY <1>7, <2>2, <2>3, <2>4, <2>5, <2>6, <2>7, <2>8 DEF Step
  <1>8. ASSUME NEW c \in Commands, Return(c) \/ Kill(c) PROVE RevokersLogOut'
    BY <1>3, <1>8 DEF Return, Kill
  <1>9. CASE (\E a \in Accounts : Rewrap(a)) \/ Age \/ DaemonForgets
    BY <1>5, <1>9 DEF Rewrap, Age, DaemonForgets
  <1> QED BY <1>5, <1>6, <1>7, <1>8, <1>9 DEF Next, vars

(* What becomes of one command: it is left alone, or moves on.  Neither an *)
(* unsaved token nor the token of the file is disturbed when a command     *)
(* that holds neither ends, or goes on with the credentials it has.        *)
LEMMA QuietMove ==
    ASSUME TokenInv, NEW c \in Commands, NEW r, cmd' = [cmd EXCEPT ![c] = r],
           UNCHANGED <<file, live>>,
           r.pc # "save",
           r.pc # "idle" => \/ cmd[c].pc # "idle" /\ r.creds.token = cmd[c].creds.token
                            \/ file # NoFile /\ r.creds.token = file.token
                            \/ r.creds.token = 0,
           cmd[c].pc \notin {"save", "clear_keychain", "remove"}
    PROVE  UnsavedTokensUnshared' /\ TokenKept'
  <1>1. cmd \in [Commands -> {Idle} \cup Active] /\ live \subseteq 1 .. issued /\ issued \in Nat
    BY DEF TokenInv, TypeOK
  <1>2. cmd'[c] = r /\ \A d \in Commands \ {c} : cmd'[d] = cmd[d]
    BY <1>1
  <1>3. 0 \notin live
    BY <1>1
  <1>4. UnsavedTokensUnshared'
    BY <1>2, <1>3 DEF TokenInv, UnsavedTokensUnshared
  <1>5. TokenKept'
    BY <1>2 DEF TokenInv, TokenKept, ReplacedBy, LoggedOutBy
  <1> QED BY <1>4, <1>5

(* A command that starts loads the file, or holds no token yet. *)
LEMMA StartKeepsToken ==
    ASSUME TokenInv, NEW c \in Commands, Start(c)
    PROVE  UnsavedTokensUnshared' /\ TokenKept'
  <1>1. CASE NotLoggedIn(c)
    BY <1>1 DEF NotLoggedIn, vars, TokenInv, UnsavedTokensUnshared, TokenKept, ReplacedBy,
                LoggedOutBy
  <1>2. cmd[c] = Idle => cmd[c].pc = "idle"
    BY DEF Idle
  <1>3. ASSUME NEW name, NEW pc, NEW creds, pc # "save", cmd[c] = Idle,
               Become(c, Running(name, pc, creds)), Read,
               (file # NoFile /\ creds = file) \/ creds.token = 0
        PROVE  UnsavedTokensUnshared' /\ TokenKept'
    <2>1. Running(name, pc, creds).pc = pc /\ Running(name, pc, creds).creds = creds
      BY DEF Running
    <2> QED BY <1>2, <1>3, <2>1, QuietMove DEF Become, Read, server
  <1>4. CASE StartLogin(c)
    <2>1. \A a : Credentials(a, 0, 0).token = 0
      BY DEF Credentials
    <2> QED BY <1>3, <1>4, <2>1 DEF StartLogin
  <1>5. CASE StartRequest(c) \/ StartUnlock(c) \/ StartUse(c) \/ StartForget(c) \/ StartLogout(c)
    BY <1>3, <1>5 DEF StartRequest, StartUnlock, StartUse, StartForget, StartLogout
  <1> QED BY <1>1, <1>4, <1>5 DEF Start

(* A token that is issued now is held by nobody else, and once the answer  *)
(* is not lost, its command will save it.                                  *)
LEMMA IssueKeepsToken ==
    ASSUME TokenInv, NEW c \in Commands, NEW r, cmd' = [cmd EXCEPT ![c] = r],
           cmd[c].pc \in {"authenticate", "refresh"},
           r.pc = "save", r.creds.token = issued + 1, UNCHANGED file,
           \/ live' = live \cup {issued + 1}
           \/ /\ cmd[c].pc = "refresh" /\ r.replaced = cmd[c].creds.token
              /\ live' = (live \ {cmd[c].creds.token}) \cup {issued + 1}
    PROVE  UnsavedTokensUnshared' /\ TokenKept'
  <1>1. /\ cmd \in [Commands -> {Idle} \cup Active] /\ issued \in Nat
        /\ live \subseteq 1 .. issued
    BY DEF TokenInv, TypeOK
  <1>2. cmd'[c] = r /\ \A d \in Commands \ {c} : cmd'[d] = cmd[d]
    BY <1>1
  <1>3. \A d \in Commands : cmd[d].pc # "idle" =>
           cmd[d].creds.token \in 0 .. issued
    BY CommandCases DEF TokenInv, CommandOK, CredentialsWith
  <1>4. file # NoFile => file.token \in 1 .. issued
    BY FileTyped DEF TokenInv, CredentialsWith
  <1>5. \A t \in 0 .. issued : t # issued + 1
    BY <1>1
  <1>6. UnsavedTokensUnshared'
    <2>1. cmd'[c].creds.token \in live'
      BY <1>2
    <2>2. \A d \in Commands \ {c} : cmd[d].pc # "idle" => cmd[d].creds.token # r.creds.token
      BY <1>3, <1>5
    <2>3. file # NoFile => file.token # r.creds.token
      BY <1>1, <1>4, <1>5
    <2>4. \A d \in Commands \ {c} : cmd[d].pc = "save" => cmd[d].creds.token \in live'
      BY DEF TokenInv, UnsavedTokensUnshared
    <2> QED BY <1>2, <2>1, <2>2, <2>3, <2>4 DEF TokenInv, UnsavedTokensUnshared
  <1>7. TokenKept'
    BY <1>2 DEF TokenInv, TokenKept, ReplacedBy, LoggedOutBy
  <1> QED BY <1>6, <1>7

(* No step of a command breaks it while no answer is lost. *)
LEMMA StepKeepsToken ==
    ASSUME TokenInv, NEW c \in Commands, Step(c), "reply" \notin Failures
    PROVE  UnsavedTokensUnshared' /\ TokenKept'
  <1> USE DEF Become, End, Read, server, stores
  <1>1. /\ cmd \in [Commands -> {Idle} \cup Active]
        /\ cmd[c].pc # "idle" => cmd[c] \in Active
        /\ Idle.pc = "idle"
    BY CommandCases DEF TokenInv, TypeOK, CommandOK, Idle
  <1>2. CASE Authenticate(c)
    <2>1. CASE UNCHANGED <<issued, live>> /\ End(c)
      BY <1>1, <1>2, <2>1, QuietMove DEF Authenticate
    <2>2. CASE ~(UNCHANGED <<issued, live>> /\ End(c))
      <3> DEFINE fresh == Credentials(cmd[c].creds.account, issued', wrapping[cmd[c].creds.account])
                 r == [cmd[c] EXCEPT !.pc = "save", !.creds = fresh]
      <3>1. cmd[c] \in Active
        BY <1>1, <1>2 DEF Authenticate
      <3>2. /\ issued' = issued + 1 /\ live' = live \cup {issued'}
            /\ cmd' = [cmd EXCEPT ![c] = r]
        BY <1>2, <2>2 DEF Authenticate
      <3>3. fresh.token = issued'
        BY DEF Credentials
      <3>4. r.pc = "save" /\ r.creds = fresh
        BY <3>1 DEF Active
      <3> HIDE DEF r
      <3> QED BY <1>2, <3>2, <3>3, <3>4, IssueKeepsToken DEF Authenticate
    <2> QED BY <2>1, <2>2
  <1>3. CASE Refresh(c)
    <2>1. CASE UNCHANGED <<issued, live>> /\ End(c)
      BY <1>1, <1>3, <2>1, QuietMove DEF Refresh
    <2>2. CASE ~(UNCHANGED <<issued, live>> /\ End(c))
      <3> DEFINE old == cmd[c].creds.token
                 fresh == Refreshed(cmd[c].creds, issued')
                 r == [cmd[c] EXCEPT !.pc = "save", !.replaced = old, !.creds = fresh]
      <3>1. cmd[c] \in Active /\ cmd[c].creds \in CredentialsWith(0 .. issued)
        BY <1>1, <1>3, CommandCases DEF Refresh, TokenInv
      <3>2. /\ issued' = issued + 1 /\ live' = (live \ {old}) \cup {issued'}
            /\ cmd' = [cmd EXCEPT ![c] = r]
        BY <1>3, <2>2 DEF Refresh
      <3>3. fresh.token = issued'
        BY <3>1 DEF Refreshed, CredentialsWith
      <3>4. r.pc = "save" /\ r.creds = fresh /\ r.replaced = old
        BY <3>1 DEF Active
      <3> HIDE DEF r
      <3> QED BY <1>3, <3>2, <3>3, <3>4, IssueKeepsToken DEF Refresh
    <2> QED BY <2>1, <2>2
  <1>4. CASE Save(c)
    <2>1. cmd[c] \in Active
      BY <1>1, <1>4 DEF Save
    <2>2. PICK r : /\ cmd' = [cmd EXCEPT ![c] = r]
                   /\ r.pc \in {"idle", "reload"}
                   /\ r.pc = "reload" => r.creds = cmd[c].creds
      BY <1>1, <1>4, <2>1 DEF Save, Goto, Active
    <2>3. cmd'[c] = r /\ \A d \in Commands \ {c} : cmd'[d] = cmd[d]
      BY <1>1, <2>2
    <2>4. UnsavedTokensUnshared'
      BY <1>4, <2>2, <2>3 DEF Save, TokenInv, UnsavedTokensUnshared
    <2>5. TokenKept'
      BY <1>4 DEF Save, TokenInv, UnsavedTokensUnshared, TokenKept
    <2> QED BY <2>4, <2>5
  <1>5. CASE Reload(c)
    <2>1. cmd[c] \in Active
      BY <1>1, <1>5 DEF Reload
    <2>2. CASE End(c)
      BY <1>1, <1>5, <2>2, QuietMove DEF Reload
    <2>3. CASE LoggedIn(UrlOf(c))
      <3> DEFINE r == [cmd[c] EXCEPT !.pc = "put", !.creds = file]
      <3>1. r.pc = "put" /\ r.creds = file
        BY <2>1 DEF Active
      <3>2. cmd' = [cmd EXCEPT ![c] = r] /\ file # NoFile
        BY <1>5, <2>3 DEF Reload, LoggedIn
      <3> HIDE DEF r
      <3> QED BY <1>5, <3>1, <3>2, QuietMove DEF Reload
    <2> QED BY <1>5, <2>2, <2>3 DEF Reload
  <1>6. CASE Put(c)
    BY <1>1, <1>6, QuietMove DEF Put
  <1>7. CASE Fetch(c)
    <2>1. [cmd[c] EXCEPT !.pc = "bootstrap"].pc = "bootstrap"
          /\ [cmd[c] EXCEPT !.pc = "bootstrap"].creds = cmd[c].creds
      BY <1>1, <1>7 DEF Fetch, Active
    <2> QED BY <1>1, <1>7, <2>1, QuietMove DEF Fetch, Goto
  <1>8. CASE Bootstrap(c)
    <2>1. \A key : /\ [cmd[c] EXCEPT !.pc = "put", !.key = key].pc = "put"
                   /\ [cmd[c] EXCEPT !.pc = "put", !.key = key].creds = cmd[c].creds
      BY <1>1, <1>8 DEF Bootstrap, Active
    <2>2. cmd[c].pc = "bootstrap" /\ UNCHANGED <<file, live>>
      BY <1>8 DEF Bootstrap
    <2>3. CASE End(c)
      BY <1>1, <2>2, <2>3, QuietMove
    <2>4. CASE \E key : cmd' = [cmd EXCEPT ![c] = [cmd[c] EXCEPT !.pc = "put", !.key = key]]
      <3>1. PICK key : cmd' = [cmd EXCEPT ![c] = [cmd[c] EXCEPT !.pc = "put", !.key = key]]
        BY <2>4
      <3> QED BY <2>1, <2>2, <3>1, QuietMove
    <2>5. End(c) \/ \E key : cmd' = [cmd EXCEPT ![c] = [cmd[c] EXCEPT !.pc = "put", !.key = key]]
      BY <1>8 DEF Bootstrap
    <2> QED BY <2>3, <2>4, <2>5
  <1>9. CASE Revoke(c)
    <2> DEFINE r == [cmd[c] EXCEPT !.pc = "clear_keychain"]
    <2>1. r.pc = "clear_keychain" /\ r.creds = cmd[c].creds /\ r.name = cmd[c].name
      BY <1>1, <1>9 DEF Revoke, Active
    <2>2. cmd'[c] = r /\ \A d \in Commands \ {c} : cmd'[d] = cmd[d]
      BY <1>1, <1>9 DEF Revoke, Goto
    <2> HIDE DEF r
    <2>3. UnsavedTokensUnshared'
      BY <1>9, <2>1, <2>2 DEF Revoke, TokenInv, UnsavedTokensUnshared
    <2>4. TokenKept'
      BY <1>9, <2>1, <2>2 DEF Revoke, TokenInv, RevokersLogOut, TokenKept, ReplacedBy, LoggedOutBy
    <2> QED BY <2>3, <2>4
  <1>10. CASE ClearKeychain(c)
    <2>1. PICK r : /\ cmd' = [cmd EXCEPT ![c] = r]
                   /\ \/ r.pc = "idle" /\ cmd[c].name # "logout"
                      \/ r.pc = "remove" /\ r.creds = cmd[c].creds /\ r.name = cmd[c].name
      <3>1. cmd[c] \in Active
        BY <1>1, <1>10 DEF ClearKeychain
      <3>2. CASE cmd[c].name # "logout"
        BY <1>1, <1>10, <3>2 DEF ClearKeychain
      <3>3. ASSUME NEW failed \in BOOLEAN,
                   cmd' = [cmd EXCEPT ![c] = [cmd[c] EXCEPT !.pc = "remove", !.warned = failed]]
            PROVE  \E r : /\ cmd' = [cmd EXCEPT ![c] = r]
                          /\ r.pc = "remove" /\ r.creds = cmd[c].creds /\ r.name = cmd[c].name
        <4> DEFINE r == [cmd[c] EXCEPT !.pc = "remove", !.warned = failed]
        <4>1. r.pc = "remove" /\ r.creds = cmd[c].creds /\ r.name = cmd[c].name
          BY <3>1 DEF Active
        <4>2. cmd' = [cmd EXCEPT ![c] = r]
          BY <3>3
        <4> HIDE DEF r
        <4> QED BY <4>1, <4>2
      <3>4. CASE cmd[c].name = "logout"
        <4>1. \E failed \in BOOLEAN :
                 cmd' = [cmd EXCEPT ![c] = [cmd[c] EXCEPT !.pc = "remove", !.warned = failed]]
          BY <1>10, <3>4 DEF ClearKeychain
        <4> QED BY <3>3, <4>1
      <3> QED BY <3>2, <3>4
    <2>2. cmd'[c] = r /\ \A d \in Commands \ {c} : cmd'[d] = cmd[d]
      BY <1>1, <2>1
    <2>3. UnsavedTokensUnshared'
      BY <1>10, <2>1, <2>2 DEF ClearKeychain, TokenInv, UnsavedTokensUnshared
    <2>4. TokenKept'
      BY <1>10, <2>1, <2>2 DEF ClearKeychain, TokenInv, TokenKept, ReplacedBy, LoggedOutBy
    <2> QED BY <2>3, <2>4
  <1>11. CASE Remove(c)
    <2> DEFINE r == [cmd[c] EXCEPT !.pc = "clear_session"]
    <2>1. r.pc = "clear_session" /\ r.creds = cmd[c].creds
      BY <1>1, <1>11 DEF Remove, Active
    <2>2. cmd'[c] = r /\ \A d \in Commands \ {c} : cmd'[d] = cmd[d]
      BY <1>1, <1>11 DEF Remove, Goto
    <2> HIDE DEF r
    <2>3. UnsavedTokensUnshared'
      BY <1>11, <2>1, <2>2 DEF Remove, TokenInv, UnsavedTokensUnshared
    <2>4. TokenKept'
      BY <1>11 DEF Remove, TokenKept
    <2> QED BY <2>3, <2>4
  <1>12. CASE ClearSession(c)
    <2>1. [cmd[c] EXCEPT !.pc = "logged_out"].pc = "logged_out"
          /\ [cmd[c] EXCEPT !.pc = "logged_out"].creds = cmd[c].creds
      BY <1>1, <1>12 DEF ClearSession, Active
    <2> QED BY <1>1, <1>12, <2>1, QuietMove DEF ClearSession, Goto
  <1> QED BY <1>2, <1>3, <1>4, <1>5, <1>6, <1>7, <1>8, <1>9, <1>10, <1>11, <1>12 DEF Step

(* TokenInv is inductive while no answer is lost and nobody is killed. *)
LEMMA TokenInvStep ==
    ASSUME Failures \cap {"reply", "kill"} = {}
    PROVE  TokenInv /\ [Next]_vars => TokenInv'
  <1> SUFFICES ASSUME TokenInv, [Next]_vars PROVE TokenInv'
    OBVIOUS
  <1>0. TypeOK' /\ RevokersLogOut'
    BY TypedStep, RevokersStep DEF TokenInv
  <1> SUFFICES UnsavedTokensUnshared' /\ TokenKept'
    BY <1>0 DEF TokenInv
  <1>1. CASE UNCHANGED vars
    BY <1>1 DEF vars, TokenInv, UnsavedTokensUnshared, TokenKept, ReplacedBy, LoggedOutBy
  <1>2. ASSUME NEW c \in Commands, Start(c) \/ Step(c)
        PROVE  UnsavedTokensUnshared' /\ TokenKept'
    BY <1>2, StartKeepsToken, StepKeepsToken
  <1>3. ASSUME NEW c \in Commands, Return(c) PROVE UnsavedTokensUnshared' /\ TokenKept'
    <2>1. Idle.pc = "idle"
      BY DEF Idle
    <2> QED BY <1>3, <2>1, QuietMove DEF Return, End, Become, Read, server
  <1>4. ASSUME NEW c \in Commands, Kill(c) PROVE FALSE
    BY <1>4 DEF Kill
  <1>5. CASE \E a \in Accounts : Rewrap(a)
    BY <1>5 DEF Rewrap, TokenInv, UnsavedTokensUnshared, TokenKept, ReplacedBy, LoggedOutBy
  <1>6. CASE DaemonForgets
    BY <1>6 DEF DaemonForgets, server, TokenInv, UnsavedTokensUnshared, TokenKept,
                ReplacedBy, LoggedOutBy
  <1>7. CASE Age
    <2>1. file # NoFile /\ file'.token = file.token
      BY <1>7, FileTyped DEF Age, TokenInv, CredentialsWith
    <2> QED BY <1>7, <2>1 DEF Age, server, TokenInv, UnsavedTokensUnshared, TokenKept,
                              ReplacedBy, LoggedOutBy
  <1> QED BY <1>1, <1>2, <1>3, <1>4, <1>5, <1>6, <1>7 DEF Next

(* Refreshes, logins and logouts that race for the file never leave a dead *)
(* refresh token in it, as long as no command is killed and no answer of   *)
(* the server is lost (auth.rs:77-95, storage.rs:76-87).                   *)
THEOREM SessionNotLost ==
    ASSUME Failures \cap {"reply", "kill"} = {}
    PROVE  Spec => []TokenKept
  <1>1. Init => TokenInv
    BY InitTyped DEF Init, TokenInv, RevokersLogOut, UnsavedTokensUnshared, TokenKept, Idle
  <1>2. TokenInv => TokenKept
    BY DEF TokenInv
  <1> QED BY <1>1, <1>2, TokenInvStep, PTL DEF Spec

----------------------------------------------------------------------------
(* A data key is kept under a session of its account, or of one that has   *)
(* crossed it.                                                             *)

(* A store in which every key is where it may be                           *)
Keyed(store) == \A s \in DOMAIN store : OwnKey(store[s], s.account)

(* Keys are removed, and added under a session where they may be.          *)
LEMMA KeyedStores ==
    ASSUME NEW store, Keyed(store), NEW session
    PROVE  /\ Keyed(Without(store, session))
           /\ \A key : OwnKey(key, session.account) => Keyed(With(store, session, key))
  BY DEF Keyed, Without, With

(* What has crossed remains so, and a store that does not change is keyed. *)
LEMMA KeyedStays ==
    ASSUME KeyUnderItsSession, crossed \subseteq crossed', UNCHANGED stores
    PROVE  KeyUnderItsSession'
  BY DEF KeyUnderItsSession, stores

(* A command goes on as r, and leaves the file alone.                      *)
LEMMA KeyMove ==
    ASSUME TypeOK, KeyOfCredentials, NEW c \in Commands, NEW r, cmd' = [cmd EXCEPT ![c] = r],
           UNCHANGED <<file, crossed>>, HoldsItsKey(r)
    PROVE  KeyOfCredentials'
  <1>1. cmd'[c] = r /\ \A d \in Commands \ {c} : cmd'[d] = cmd[d]
    BY DEF TypeOK
  <1>2. HoldsItsKey(r)'
    BY DEF HoldsItsKey, LoggedIn, OwnKey
  <1>3. ASSUME NEW d \in Commands \ {c} PROVE HoldsItsKey(cmd[d])'
    <2>1. HoldsItsKey(cmd[d])
      BY DEF KeyOfCredentials
    <2>2. cmd'[d] = cmd[d]
      BY <1>1
    <2> QED BY <2>1, <2>2 DEF HoldsItsKey, LoggedIn, OwnKey
  <1> QED BY <1>1, <1>2, <1>3 DEF KeyOfCredentials, HoldsItsKey, LoggedIn, OwnKey

(* A command takes over the key of the account whose session is loaded.    *)
LEMMA StartKeepsKey ==
    ASSUME KeyInv, NEW c \in Commands, Start(c)
    PROVE  KeyOfCredentials' /\ KeyUnderItsSession'
  <1> USE DEF Become, Read
  <1>1. UNCHANGED <<file, stores, crossed>>
    BY DEF Start, StartLogin, NotLoggedIn, StartRequest, StartUnlock, StartUse, StartForget,
           StartLogout, vars, stores
  <1>2. KeyUnderItsSession'
    BY <1>1, KeyedStays DEF KeyInv
  <1>3. CASE NotLoggedIn(c)
    BY <1>2, <1>3 DEF NotLoggedIn, vars, KeyInv, KeyOfCredentials, HoldsItsKey, LoggedIn, OwnKey
  <1>4. ASSUME ~NotLoggedIn(c) PROVE KeyOfCredentials'
    <2>1. PICK name, pc, creds : /\ cmd' = [cmd EXCEPT ![c] = Running(name, pc, creds)]
                                 /\ pc = "reload" => creds = file
      BY <1>4 DEF Start, StartLogin, StartRequest, StartUnlock, StartUse, StartForget,
                  StartLogout
    <2> DEFINE r == Running(name, pc, creds)
    <2>2. r.key = r.creds.account /\ (r.pc = "reload" => r.creds = file)
      BY <2>1 DEF Running
    <2>3. cmd' = [cmd EXCEPT ![c] = r]
      BY <2>1
    <2> HIDE DEF r
    <2>4. HoldsItsKey(r)
      BY <2>2 DEF HoldsItsKey, OwnKey
    <2> QED BY <1>1, <2>3, <2>4, KeyMove DEF KeyInv
  <1> QED BY <1>2, <1>3, <1>4

(* A command saves its credentials: another that reads them again finds    *)
(* those of its own account, or has been crossed.                          *)
LEMMA SaveKeepsKey ==
    ASSUME KeyInv, NEW c \in Commands, Save(c), cmd[c] \in Active
    PROVE  KeyOfCredentials' /\ KeyUnderItsSession'
  <1>1. /\ file' = cmd[c].creds /\ cmd[c].pc = "save"
        /\ crossed' = crossed \cup Crossings(c) /\ UNCHANGED stores
    BY DEF Save
  <1>2. cmd[c].key = cmd[c].creds.account
    BY <1>1 DEF KeyInv, KeyOfCredentials, HoldsItsKey
  <1>3. ASSUME NEW d \in Commands \ {c} PROVE HoldsItsKey(cmd[d])'
    <2>1. cmd'[d] = cmd[d] /\ HoldsItsKey(cmd[d])
      BY DEF Save, Goto, End, Become, KeyInv, TypeOK, KeyOfCredentials
    <2>2. ASSUME cmd[d].pc = "reload", (LoggedIn(Url[cmd[d].creds.account]))'
          PROVE  (OwnKey(cmd[d].key, file.account))'
      <3>1. UrlOf(d) = UrlOf(c)
        BY <1>1, <2>1, <2>2 DEF LoggedIn, UrlOf
      <3>2. CASE cmd[d].key = cmd[c].creds.account
        BY <1>1, <2>1, <3>2 DEF OwnKey
      <3>3. CASE cmd[d].key # cmd[c].creds.account
        <4>1. <<cmd[d].key, cmd[c].creds.account>> \in Crossings(c)
          BY <2>2, <3>1, <3>3 DEF Crossings
        <4> QED BY <1>1, <2>1, <4>1 DEF OwnKey
      <3> QED BY <3>2, <3>3
    <2> DEFINE old == cmd[d]
    <2>3. HoldsItsKey(old)' <=> HoldsItsKey(cmd[d])'
      OBVIOUS
    <2>4. \A key, account : OwnKey(key, account) => OwnKey(key, account)'
      BY <1>1 DEF OwnKey
    <2> QED BY <2>1, <2>2, <2>4 DEF HoldsItsKey
  <1>4. HoldsItsKey(cmd[c])'
    <2>1. CASE cmd[c].name \in {"unlock", "store"}
      <3>1. cmd'[c] = [cmd[c] EXCEPT !.pc = "reload"]
        BY <2>1 DEF Save, Goto, Become, KeyInv, TypeOK
      <3>2. cmd'[c].key = cmd[c].key /\ cmd'[c].creds = cmd[c].creds
        BY <3>1 DEF Active
      <3> QED BY <1>1, <1>2, <3>2 DEF HoldsItsKey, OwnKey
    <2>2. CASE cmd[c].name \notin {"unlock", "store"}
      <3>1. cmd'[c].pc = "idle"
        BY <2>2 DEF Save, End, Become, Idle, KeyInv, TypeOK
      <3> QED BY <3>1 DEF HoldsItsKey
    <2> QED BY <2>1, <2>2
  <1>5. KeyUnderItsSession'
    BY <1>1, KeyedStays DEF KeyInv
  <1> QED BY <1>3, <1>4, <1>5 DEF KeyOfCredentials

(* The step of a command that is under way: credentials are replaced by    *)
(* others of the same account, and when they are read again, by those of   *)
(* the account that has the file.                                          *)
LEMMA StepKeepsKey ==
    ASSUME KeyInv, NEW c \in Commands, Step(c)
    PROVE  KeyOfCredentials' /\ KeyUnderItsSession'
  <1> USE DEF Become, End, Read, server, stores
  <1>1. /\ cmd[c] \in Active /\ cmd[c].pc # "idle"
        /\ Idle.pc = "idle"
    <2>1. cmd[c].pc # "idle"
      BY DEF Step, Authenticate, Refresh, Save, Reload, Put, Fetch, Bootstrap,
             Revoke, ClearKeychain, Remove, ClearSession
    <2> QED BY <2>1, CommandCases DEF CommandOK, Idle, KeyInv
  <1>2. /\ OwnKey(cmd[c].key, cmd[c].creds.account)
        /\ cmd[c].pc \in {"authenticate", "refresh", "save", "reload"} =>
               cmd[c].key = cmd[c].creds.account
        /\ cmd[c].pc = "reload" /\ LoggedIn(UrlOf(c)) => OwnKey(cmd[c].key, file.account)
        /\ cmd[c].creds \in CredentialsWith(0 .. issued)
    BY <1>1 DEF KeyInv, KeyOfCredentials, HoldsItsKey, UrlOf, Active
  <1>3. ASSUME End(c), UNCHANGED <<file, crossed>> PROVE KeyOfCredentials'
    <2>1. HoldsItsKey(Idle)
      BY <1>1 DEF HoldsItsKey
    <2> QED BY <1>3, <2>1, KeyMove DEF KeyInv
  <1>4. ASSUME NEW r, cmd' = [cmd EXCEPT ![c] = r], UNCHANGED <<file, crossed>>,
               r.pc # "reload", OwnKey(r.key, r.creds.account),
               r.pc \in {"authenticate", "refresh", "save"} => r.key = r.creds.account
        PROVE  KeyOfCredentials'
    <2>1. HoldsItsKey(r)
      BY <1>4 DEF HoldsItsKey
    <2> QED BY <1>4, <2>1, KeyMove DEF KeyInv
  <1>5. ASSUME NEW label, Goto(c, label), UNCHANGED <<file, crossed>>,
               label \notin {"authenticate", "refresh", "save", "reload"}
        PROVE  KeyOfCredentials'
    <2> DEFINE r == [cmd[c] EXCEPT !.pc = label]
    <2>1. r.key = cmd[c].key /\ r.creds = cmd[c].creds /\ r.pc = label
      BY <1>1 DEF Active
    <2>2. cmd' = [cmd EXCEPT ![c] = r]
      BY <1>5 DEF Goto
    <2> HIDE DEF r
    <2> QED BY <1>2, <1>4, <1>5, <2>1, <2>2
  <1>6. CASE Authenticate(c)
    <2>1. UNCHANGED <<file, stores, crossed>> /\ cmd[c].key = cmd[c].creds.account
      BY <1>2, <1>6 DEF Authenticate
    <2>2. ASSUME NEW token, NEW wrap,
                 cmd' = [cmd EXCEPT ![c] = [cmd[c] EXCEPT !.pc = "save",
                            !.creds = Credentials(cmd[c].creds.account, token, wrap)]]
          PROVE  KeyOfCredentials'
      <3> DEFINE r == [cmd[c] EXCEPT !.pc = "save",
                          !.creds = Credentials(cmd[c].creds.account, token, wrap)]
      <3>1. r.key = r.creds.account /\ r.pc = "save"
        BY <1>1, <2>1 DEF Active, Credentials
      <3>2. cmd' = [cmd EXCEPT ![c] = r]
        BY <2>2
      <3> HIDE DEF r
      <3> QED BY <1>4, <2>1, <3>1, <3>2 DEF OwnKey
    <2> QED BY <1>3, <1>6, <2>1, <2>2, KeyedStays DEF Authenticate, KeyInv
  <1>7. CASE Refresh(c)
    <2>1. UNCHANGED <<file, stores, crossed>> /\ cmd[c].key = cmd[c].creds.account
      BY <1>2, <1>7 DEF Refresh
    <2>2. ASSUME NEW token, NEW old,
                 cmd' = [cmd EXCEPT ![c] = [cmd[c] EXCEPT !.pc = "save", !.replaced = old,
                            !.creds = Refreshed(cmd[c].creds, token)]]
          PROVE  KeyOfCredentials'
      <3> DEFINE r == [cmd[c] EXCEPT !.pc = "save", !.replaced = old,
                          !.creds = Refreshed(cmd[c].creds, token)]
      <3>1. r.key = cmd[c].key /\ r.creds = Refreshed(cmd[c].creds, token) /\ r.pc = "save"
        BY <1>1 DEF Active
      <3>2. Refreshed(cmd[c].creds, token).account = cmd[c].creds.account
        BY <1>2 DEF Refreshed, CredentialsWith
      <3>3. cmd' = [cmd EXCEPT ![c] = r]
        BY <2>2
      <3> HIDE DEF r
      <3> QED BY <1>4, <2>1, <3>1, <3>2, <3>3 DEF OwnKey
    <2> QED BY <1>3, <1>7, <2>1, <2>2, KeyedStays DEF Refresh, KeyInv
  <1>8. CASE Reload(c)
    <2>1. UNCHANGED <<file, stores, crossed>> /\ cmd[c].pc = "reload"
      BY <1>8 DEF Reload
    <2>2. CASE LoggedIn(UrlOf(c))
      <3> DEFINE r == [cmd[c] EXCEPT !.pc = "put", !.creds = file]
      <3>1. r.key = cmd[c].key /\ r.creds = file /\ r.pc = "put"
        BY <1>1 DEF Active
      <3>2. OwnKey(cmd[c].key, file.account)
        BY <1>2, <2>1, <2>2
      <3>3. cmd' = [cmd EXCEPT ![c] = r]
        BY <1>8, <2>2 DEF Reload
      <3> HIDE DEF r
      <3> QED BY <1>4, <2>1, <3>1, <3>2, <3>3, KeyedStays DEF KeyInv
    <2> QED BY <1>3, <1>8, <2>1, <2>2, KeyedStays DEF Reload, KeyInv
  <1>9. CASE Bootstrap(c)
    <2>1. UNCHANGED <<file, stores, crossed>>
      BY <1>9 DEF Bootstrap
    <2> DEFINE session == Session(cmd[c].creds)
               r == [cmd[c] EXCEPT !.pc = "put", !.key = keychain[session]]
    <2>2. CASE session \in DOMAIN keychain
      <3>1. r.key = keychain[session] /\ r.creds = cmd[c].creds /\ r.pc = "put"
        BY <1>1 DEF Active
      <3>2. OwnKey(keychain[session], cmd[c].creds.account)
        BY <1>2, <2>2, SessionTyped DEF KeyInv, KeyUnderItsSession, OwnKey
      <3>3. cmd' = [cmd EXCEPT ![c] = r]
        BY <1>9, <2>2 DEF Bootstrap
      <3> HIDE DEF r
      <3> QED BY <1>4, <2>1, <3>1, <3>2, <3>3, KeyedStays DEF KeyInv
    <2> QED BY <1>3, <1>9, <2>1, <2>2, KeyedStays DEF Bootstrap, KeyInv
  <1>10. Keyed(keychain) /\ Keyed(daemon)
    BY DEF KeyInv, KeyUnderItsSession, Keyed, OwnKey
  <1>11. CASE Put(c)
    <2>1. Session(cmd[c].creds).account = cmd[c].creds.account
      BY <1>2, SessionTyped
    <2>2. /\ Keyed(With(keychain, Session(cmd[c].creds), cmd[c].key))
          /\ Keyed(With(daemon, Session(cmd[c].creds), cmd[c].key))
      BY <1>2, <1>10, <2>1, KeyedStores
    <2>3. KeyUnderItsSession'
      BY <1>10, <1>11, <2>2 DEF Put, Keyed, OwnKey, KeyUnderItsSession
    <2> QED BY <1>3, <1>11, <2>3 DEF Put
  <1>12. CASE ClearKeychain(c)
    <2>1. ASSUME NEW failed,
                 cmd' = [cmd EXCEPT ![c] = [cmd[c] EXCEPT !.pc = "remove", !.warned = failed]]
          PROVE  KeyOfCredentials'
      <3> DEFINE r == [cmd[c] EXCEPT !.pc = "remove", !.warned = failed]
      <3>1. r.key = cmd[c].key /\ r.creds = cmd[c].creds /\ r.pc = "remove"
        BY <1>1 DEF Active
      <3>2. cmd' = [cmd EXCEPT ![c] = r] /\ UNCHANGED <<file, crossed>>
        BY <1>12, <2>1 DEF ClearKeychain
      <3> HIDE DEF r
      <3> QED BY <1>2, <1>4, <3>1, <3>2
    <2>2. KeyOfCredentials'
      BY <1>3, <1>12, <2>1 DEF ClearKeychain
    <2>3. Keyed(Without(keychain, Session(file)))
      BY <1>10, KeyedStores
    <2>4. KeyUnderItsSession'
      BY <1>10, <1>12, <2>3 DEF ClearKeychain, Keyed, OwnKey, KeyUnderItsSession
    <2> QED BY <2>2, <2>4
  <1>13. CASE Fetch(c) \/ Revoke(c)
    <2>1. UNCHANGED <<file, stores, crossed>>
      BY <1>13 DEF Fetch, Revoke
    <2>2. End(c) \/ Goto(c, "bootstrap") \/ Goto(c, "clear_keychain")
      BY <1>13 DEF Fetch, Revoke
    <2> QED BY <1>3, <1>5, <2>1, <2>2, KeyedStays DEF KeyInv
  <1>14. CASE ClearSession(c)
    <2>1. Keyed(Without(daemon, Session(cmd[c].creds)))
      BY <1>10, KeyedStores
    <2>2. KeyUnderItsSession'
      BY <1>10, <1>14, <2>1 DEF ClearSession, Keyed, OwnKey, KeyUnderItsSession
    <2> QED BY <1>5, <1>14, <2>2 DEF ClearSession
  <1>15. CASE Remove(c)
    <2>1. /\ file' = NoFile /\ UNCHANGED <<stores, crossed>>
          /\ \A d \in Commands \ {c} : cmd'[d] = cmd[d]
          /\ cmd'[c] = [cmd[c] EXCEPT !.pc = "clear_session"]
      BY <1>15 DEF Remove, Goto, KeyInv, TypeOK
    <2>2. cmd'[c].pc = "clear_session" /\ cmd'[c].key = cmd[c].key /\ cmd'[c].creds = cmd[c].creds
      BY <1>1, <2>1 DEF Active
    <2>3. HoldsItsKey(cmd[c])'
      BY <1>2, <2>1, <2>2 DEF HoldsItsKey, OwnKey
    <2>4. ASSUME NEW d \in Commands \ {c} PROVE HoldsItsKey(cmd[d])'
      BY <2>1 DEF KeyInv, KeyOfCredentials, HoldsItsKey, LoggedIn, OwnKey
    <2> QED BY <2>1, <2>3, <2>4, KeyedStays DEF KeyOfCredentials, KeyInv
  <1> QED BY <1>1, <1>6, <1>7, <1>8, <1>9, <1>11, <1>12, <1>13, <1>14, <1>15, SaveKeepsKey DEF Step

(* KeyInv is inductive.                                                    *)
LEMMA KeyInvStep == KeyInv /\ [Next]_vars => KeyInv'
  <1> SUFFICES ASSUME KeyInv, [Next]_vars PROVE KeyOfCredentials' /\ KeyUnderItsSession'
    BY TypedStep DEF KeyInv
  <1>1. CASE UNCHANGED vars
    BY <1>1 DEF vars, KeyInv, KeyOfCredentials, HoldsItsKey, LoggedIn, OwnKey, KeyUnderItsSession
  <1>2. ASSUME NEW c \in Commands, Start(c) \/ Step(c)
        PROVE  KeyOfCredentials' /\ KeyUnderItsSession'
    BY <1>2, StartKeepsKey, StepKeepsKey
  <1>3. ASSUME NEW c \in Commands, Return(c) \/ Kill(c)
        PROVE  KeyOfCredentials' /\ KeyUnderItsSession'
    <2>1. /\ cmd' = [cmd EXCEPT ![c] = Idle] /\ UNCHANGED <<file, stores, crossed>>
          /\ HoldsItsKey(Idle)
      BY <1>3 DEF Return, Kill, End, Become, Read, Idle, HoldsItsKey
    <2> QED BY <2>1, KeyMove, KeyedStays DEF KeyInv
  <1>4. CASE \E a \in Accounts : Rewrap(a)
    <2>1. UNCHANGED <<file, keychain, daemon, cmd, crossed>>
      BY <1>4 DEF Rewrap, stores
    <2> QED BY <2>1 DEF KeyInv, KeyOfCredentials, HoldsItsKey, LoggedIn, OwnKey, KeyUnderItsSession
  <1>5. CASE Age
    <2>1. file # NoFile /\ file'.account = file.account /\ UNCHANGED <<stores, cmd, crossed>>
      BY <1>5, FileTyped DEF Age, KeyInv, CredentialsWith
    <2>2. ASSUME NEW c \in Commands PROVE HoldsItsKey(cmd[c])'
      BY <2>1 DEF KeyInv, KeyOfCredentials, HoldsItsKey, LoggedIn, OwnKey
    <2> QED BY <2>1, <2>2, KeyedStays DEF KeyOfCredentials, KeyInv
  <1>6. CASE DaemonForgets
    <2>1. PICK s : daemon' = Without(daemon, s)
      BY <1>6 DEF DaemonForgets
    <2>2. Keyed(daemon')
      BY <2>1, KeyedStores DEF KeyInv, KeyUnderItsSession, Keyed, OwnKey
    <2> QED BY <1>6, <2>2 DEF DaemonForgets, KeyInv, KeyOfCredentials, HoldsItsKey, LoggedIn, OwnKey,
                              KeyUnderItsSession, Keyed
  <1> QED BY <1>1, <1>2, <1>3, <1>4, <1>5, <1>6 DEF Next

(* Whatever unlocks, stores, logs in and out at the same time, and         *)
(* whichever accounts share a URL: the key of one account is filed under   *)
(* the session of another only if that one logged in at the same URL       *)
(* between the unwrapping of the key and the second reading of the         *)
(* credentials, which are looked up by URL alone (unlock.rs:12-38,         *)
(* storage.rs:47-53).                                                      *)
THEOREM KeysUnderTheirSession == Spec => []KeyUnderItsSession
  <1>1. Init => KeyInv
    BY InitTyped DEF Init, KeyInv, KeyOfCredentials, HoldsItsKey, KeyUnderItsSession, Idle
  <1>2. KeyInv => KeyUnderItsSession
    BY DEF KeyInv
  <1> QED BY <1>1, <1>2, KeyInvStep, PTL DEF Spec

----------------------------------------------------------------------------
(* A logout forgets the data key, when commands do not overlap. *)

(* The value that stands for a missing file is no credentials. *)
NoFileIsNoCredentials == NoFile \notin CredentialsWith(Nat)

(* Credentials whose data key was never wrapped anew *)
LEMMA FirstWrapping ==
    /\ \A name, pc, creds : Running(name, pc, creds).creds = creds
                             /\ Running(name, pc, creds).pc = pc
    /\ \A a, token, wrap : Credentials(a, token, wrap).wrap = wrap
    /\ \A creds : Session(creds).wrap = creds.wrap
    /\ Idle.pc = "idle"
  BY DEF Running, Credentials, Session, Idle

(* A command that goes on with other credentials has their wrapping. *)
LEMMA WrapMove ==
    ASSUME TypeOK, NeverRewrapped, NEW c \in Commands, NEW r, cmd' = [cmd EXCEPT ![c] = r],
           r.pc # "idle" => r.creds.wrap = 0
    PROVE  \A d \in Commands : cmd'[d].pc # "idle" => cmd'[d].creds.wrap = 0
  <1>1. cmd'[c] = r /\ \A d \in Commands \ {c} : cmd'[d] = cmd[d]
    BY DEF TypeOK
  <1> QED BY <1>1 DEF NeverRewrapped

(* The commands: what they load, receive and read again *)
LEMMA CommandsKeepWrapping ==
    ASSUME TypeOK, NeverRewrapped, NEW c \in Commands, Start(c) \/ Step(c) \/ Return(c) \/ Kill(c)
    PROVE  \A d \in Commands : cmd'[d].pc # "idle" => cmd'[d].creds.wrap = 0
  <1> USE DEF Become
  <1>1. ASSUME End(c)
        PROVE  \A d \in Commands : cmd'[d].pc # "idle" => cmd'[d].creds.wrap = 0
    BY <1>1, FirstWrapping, WrapMove DEF End
  <1>2. ASSUME Start(c)
        PROVE  \A d \in Commands : cmd'[d].pc # "idle" => cmd'[d].creds.wrap = 0
    <2>1. CASE NotLoggedIn(c)
      BY <2>1 DEF NotLoggedIn, vars, NeverRewrapped
    <2>2. ASSUME ~NotLoggedIn(c)
          PROVE  \E name, pc, creds :
                    creds.wrap = 0 /\ cmd' = [cmd EXCEPT ![c] = Running(name, pc, creds)]
      <3>1. ASSUME StartLogin(c)
            PROVE  \E name, pc, creds :
                      creds.wrap = 0 /\ cmd' = [cmd EXCEPT ![c] = Running(name, pc, creds)]
        <4>1. PICK a \in Accounts :
                 cmd' = [cmd EXCEPT ![c] = Running("login", "authenticate", Credentials(a, 0, 0))]
          BY <3>1 DEF StartLogin
        <4>2. Credentials(a, 0, 0).wrap = 0
          BY DEF Credentials
        <4> QED BY <4>1, <4>2
      <3>2. ASSUME StartRequest(c) \/ StartUnlock(c) \/ StartUse(c) \/ StartForget(c)
                      \/ StartLogout(c)
            PROVE  \E name, pc, creds :
                      creds.wrap = 0 /\ cmd' = [cmd EXCEPT ![c] = Running(name, pc, creds)]
        <4>1. /\ file # NoFile
              /\ \E name, pc : cmd' = [cmd EXCEPT ![c] = Running(name, pc, file)]
          BY <3>2 DEF StartRequest, StartUnlock, StartUse, StartForget, StartLogout
        <4> QED BY <4>1 DEF NeverRewrapped
      <3> QED BY <1>2, <2>2, <3>1, <3>2 DEF Start
    <2>3. ASSUME NEW name, NEW pc, NEW creds, creds.wrap = 0,
                 cmd' = [cmd EXCEPT ![c] = Running(name, pc, creds)]
          PROVE  \A d \in Commands : cmd'[d].pc # "idle" => cmd'[d].creds.wrap = 0
      <3> DEFINE r == Running(name, pc, creds)
      <3>1. r.creds.wrap = 0
        BY <2>3, FirstWrapping
      <3>2. cmd' = [cmd EXCEPT ![c] = r]
        BY <2>3
      <3> HIDE DEF r
      <3> QED BY <3>1, <3>2, WrapMove
    <2> QED BY <2>1, <2>2, <2>3
  <1>3. ASSUME Step(c)
        PROVE  \A d \in Commands : cmd'[d].pc # "idle" => cmd'[d].creds.wrap = 0
    <2>1. cmd[c] \in Active /\ cmd[c].pc # "idle"
      <3>1. cmd[c].pc # "idle"
        BY <1>3 DEF Step, Authenticate, Refresh, Save, Reload, Put, Fetch, Bootstrap,
                    Revoke, ClearKeychain, Remove, ClearSession
      <3> QED BY <3>1, CommandCases DEF CommandOK
    <2>2. cmd[c].creds.wrap = 0 /\ cmd[c].creds \in CredentialsWith(0 .. issued)
      BY <2>1 DEF NeverRewrapped, Active
    <2>3. ASSUME NEW r, cmd' = [cmd EXCEPT ![c] = r], r.creds = cmd[c].creds
          PROVE  \A d \in Commands : cmd'[d].pc # "idle" => cmd'[d].creds.wrap = 0
      BY <2>2, <2>3, WrapMove
    <2>4. \A label : [cmd[c] EXCEPT !.pc = label].creds = cmd[c].creds
      BY <2>1 DEF Active
    <2>5. CASE Authenticate(c)
      <3>1. ASSUME NEW token,
                   cmd' = [cmd EXCEPT ![c] = [cmd[c] EXCEPT !.pc = "save",
                      !.creds = Credentials(cmd[c].creds.account, token,
                                            wrapping[cmd[c].creds.account])]]
            PROVE  \A d \in Commands : cmd'[d].pc # "idle" => cmd'[d].creds.wrap = 0
        <4> DEFINE w == wrapping[cmd[c].creds.account]
                   r == [cmd[c] EXCEPT !.pc = "save",
                            !.creds = Credentials(cmd[c].creds.account, token, w)]
        <4>1. w = 0
          BY <2>2 DEF NeverRewrapped, CredentialsWith
        <4>2. r.creds = Credentials(cmd[c].creds.account, token, w) /\ r.creds.wrap = w
          BY <2>1 DEF Active, Credentials
        <4>3. cmd' = [cmd EXCEPT ![c] = r]
          BY <3>1
        <4> HIDE DEF w, r
        <4> QED BY <4>1, <4>2, <4>3, WrapMove
      <3> QED BY <1>1, <2>5, <3>1 DEF Authenticate
    <2>6. CASE Refresh(c)
      <3>1. ASSUME NEW old, NEW token,
                   cmd' = [cmd EXCEPT ![c] = [cmd[c] EXCEPT !.pc = "save", !.replaced = old,
                                                 !.creds = Refreshed(cmd[c].creds, token)]]
            PROVE  \A d \in Commands : cmd'[d].pc # "idle" => cmd'[d].creds.wrap = 0
        <4> DEFINE r == [cmd[c] EXCEPT !.pc = "save", !.replaced = old,
                                       !.creds = Refreshed(cmd[c].creds, token)]
        <4>1. r.creds = Refreshed(cmd[c].creds, token)
          BY <2>1 DEF Active
        <4>2. Refreshed(cmd[c].creds, token).wrap = 0
          BY <2>2 DEF Refreshed, CredentialsWith
        <4>3. cmd' = [cmd EXCEPT ![c] = r]
          BY <3>1
        <4> HIDE DEF r
        <4> QED BY <4>1, <4>2, <4>3, WrapMove
      <3> QED BY <1>1, <2>6, <3>1 DEF Refresh
    <2>7. CASE Reload(c)
      <3>1. CASE LoggedIn(UrlOf(c))
        <4> DEFINE r == [cmd[c] EXCEPT !.pc = "put", !.creds = file]
        <4>1. r.creds = file /\ file.wrap = 0
          BY <2>1, <3>1 DEF Active, LoggedIn, NeverRewrapped
        <4>2. cmd' = [cmd EXCEPT ![c] = r]
          BY <2>7, <3>1 DEF Reload
        <4> HIDE DEF r
        <4> QED BY <4>1, <4>2, WrapMove
      <3> QED BY <1>1, <2>7, <3>1 DEF Reload
    <2>8. CASE Bootstrap(c)
      <3>1. \A key : [cmd[c] EXCEPT !.pc = "put", !.key = key].creds = cmd[c].creds
        BY <2>1 DEF Active
      <3> QED BY <1>1, <2>3, <2>8, <3>1 DEF Bootstrap
    <2>9. CASE ClearKeychain(c)
      <3>1. \A failed : [cmd[c] EXCEPT !.pc = "remove", !.warned = failed].creds = cmd[c].creds
        BY <2>1 DEF Active
      <3> QED BY <1>1, <2>3, <2>9, <3>1 DEF ClearKeychain
    <2>10. CASE Save(c) \/ Put(c) \/ Fetch(c) \/ Revoke(c) \/ Remove(c) \/ ClearSession(c)
      BY <1>1, <2>3, <2>4, <2>10 DEF Save, Put, Fetch, Revoke, Remove, ClearSession, Goto
    <2> QED BY <1>3, <2>5, <2>6, <2>7, <2>8, <2>9, <2>10 DEF Step
  <1> QED BY <1>1, <1>2, <1>3 DEF Return, Kill

(* Storing under the session of credentials, and removing, keep the names. *)
LEMMA StoresKeepWrapping ==
    ASSUME NEW store, \A s \in DOMAIN store : s.wrap = 0, NEW session, NEW key
    PROVE  /\ \A s \in DOMAIN Without(store, session) : s \in DOMAIN store /\ s.wrap = 0
           /\ session.wrap = 0 => \A s \in DOMAIN With(store, session, key) : s.wrap = 0
  BY DEF Without, With

(* As long as nothing is wrapped anew, every session is of wrapping 0. *)
LEMMA WrappingStep ==
    ASSUME \A a \in Accounts : MaxWraps[a] = 0, TypeOK, NeverRewrapped, [Next]_vars
    PROVE  NeverRewrapped'
  <1> USE DEF Read, server, stores
  <1>1. UNCHANGED wrapping
    <2>1. ASSUME NEW a \in Accounts PROVE ~Rewrap(a)
      BY <2>1 DEF Rewrap, NeverRewrapped
    <2> QED BY <2>1 DEF Next, vars, Age, DaemonForgets, Start, Step, Return, Kill, StartLogin,
               NotLoggedIn, StartRequest, StartUnlock, StartUse, StartForget, StartLogout,
               Authenticate, Refresh, Save, Reload, Put, Fetch, Bootstrap, Revoke,
               ClearKeychain, Remove, ClearSession
  <1>2. \A d \in Commands : cmd'[d].pc # "idle" => cmd'[d].creds.wrap = 0
    <2>1. CASE UNCHANGED cmd
      BY <2>1 DEF NeverRewrapped
    <2>2. ASSUME NEW c \in Commands, Start(c) \/ Step(c) \/ Return(c) \/ Kill(c)
          PROVE  \A d \in Commands : cmd'[d].pc # "idle" => cmd'[d].creds.wrap = 0
      BY <2>2, CommandsKeepWrapping
    <2> QED BY <2>1, <2>2 DEF Next, vars, Age, DaemonForgets, Rewrap
  <1>3. file' # NoFile => file'.wrap = 0
    <2>1. CASE UNCHANGED file \/ file' = NoFile
      BY <2>1 DEF NeverRewrapped
    <2>2. ASSUME NEW c \in Commands, Save(c)
          PROVE  file'.wrap = 0
      BY <2>2 DEF Save, NeverRewrapped
    <2>3. ASSUME Age
          PROVE  file'.wrap = 0
      <3>1. file.wrap = 0 /\ file \in CredentialsWith(1 .. issued)
        BY <2>3, FileTyped DEF Age, NeverRewrapped
      <3> QED BY <2>3, <3>1 DEF Age, CredentialsWith
    <2> QED BY <2>1, <2>2, <2>3
            DEF Next, vars, Rewrap, DaemonForgets, Start, Step, Return, Kill, StartLogin,
               NotLoggedIn, StartRequest, StartUnlock, StartUse, StartForget, StartLogout,
               Authenticate, Refresh, Reload, Put, Fetch, Bootstrap, Revoke,
               ClearKeychain, Remove, ClearSession
  <1>4. \A s \in DOMAIN keychain' : s.wrap = 0
    <2>1. CASE UNCHANGED keychain
      BY <2>1 DEF NeverRewrapped
    <2>2. ASSUME NEW c \in Commands, Put(c)
          PROVE  \A s \in DOMAIN keychain' : s.wrap = 0
      <3>1. Session(cmd[c].creds).wrap = 0
        BY <2>2, FirstWrapping DEF Put, NeverRewrapped
      <3> QED BY <2>2, <3>1, StoresKeepWrapping DEF Put, NeverRewrapped
    <2>3. ASSUME NEW c \in Commands, ClearKeychain(c)
          PROVE  \A s \in DOMAIN keychain' : s.wrap = 0
      BY <2>3, StoresKeepWrapping DEF ClearKeychain, NeverRewrapped
    <2> QED BY <2>1, <2>2, <2>3
            DEF Next, vars, Rewrap, Age, DaemonForgets, Start, Step, Return, Kill, StartLogin,
               NotLoggedIn, StartRequest, StartUnlock, StartUse, StartForget, StartLogout,
               Authenticate, Refresh, Save, Reload, Fetch, Bootstrap, Revoke,
               Remove, ClearSession
  <1>5. \A s \in DOMAIN daemon' : s.wrap = 0
    <2>1. CASE UNCHANGED daemon
      BY <2>1 DEF NeverRewrapped
    <2>2. ASSUME NEW c \in Commands, Put(c)
          PROVE  \A s \in DOMAIN daemon' : s.wrap = 0
      <3>1. Session(cmd[c].creds).wrap = 0
        BY <2>2, FirstWrapping DEF Put, NeverRewrapped
      <3> QED BY <2>2, <3>1, StoresKeepWrapping DEF Put, NeverRewrapped
    <2>3. ASSUME NEW s, daemon' = Without(daemon, s)
          PROVE  \A t \in DOMAIN daemon' : t.wrap = 0
      BY <2>3, StoresKeepWrapping DEF NeverRewrapped
    <2> QED BY <2>1, <2>2, <2>3
            DEF Next, vars, Rewrap, Age, DaemonForgets, Start, Step, Return, Kill, StartLogin,
               NotLoggedIn, StartRequest, StartUnlock, StartUse, StartForget, StartLogout,
               Authenticate, Refresh, Save, Reload, Fetch, Bootstrap, Revoke,
               ClearKeychain, Remove, ClearSession
  <1> QED BY <1>1, <1>2, <1>3, <1>4, <1>5 DEF NeverRewrapped

(* What a logout has yet to show depends on where it stands. *)
LogoutLabels == {"revoke", "clear_keychain", "remove", "clear_session", "logged_out"}

(* A command that goes on, or starts, outside of a logout has nothing to   *)
(* show.                                                                   *)
LEMMA NotALogout ==
    ASSUME \A b, d \in Commands : b = d, NEW c \in Commands, cmd'[c].pc \notin LogoutLabels
    PROVE  LogoutUnderWay'
  <1>1. \A d \in Commands : cmd'[d].pc \notin LogoutLabels
    OBVIOUS
  <1> QED BY <1>1 DEF LogoutUnderWay, LogoutLabels

(* Logout loads the credentials whose keychain entry and session it clears. *)
LEMMA StartKeepsLogout ==
    ASSUME LogoutInv, \A b, d \in Commands : b = d, NEW c \in Commands, Start(c)
    PROVE  LogoutUnderWay'
  <1> USE DEF Become, Read, LogoutInv
  <1>1. CASE NotLoggedIn(c)
    BY <1>1 DEF NotLoggedIn, vars, LogoutUnderWay
  <1>2. CASE StartForget(c) \/ StartLogout(c)
    <2>1. PICK name, pc :
             /\ cmd' = [cmd EXCEPT ![c] = Running(name, pc, file)]
             /\ file # NoFile /\ UNCHANGED file /\ pc \in {"revoke", "clear_keychain"}
      BY <1>2 DEF StartForget, StartLogout
    <2>2. /\ Running(name, pc, file).creds = file
          /\ Running(name, pc, file).pc = pc
      BY FirstWrapping
    <2>3. \A d \in Commands : cmd'[d] = Running(name, pc, file)
      BY <2>1 DEF TypeOK
    <2> QED BY <2>1, <2>2, <2>3 DEF LogoutUnderWay
  <1>3. CASE StartLogin(c) \/ StartRequest(c) \/ StartUnlock(c) \/ StartUse(c)
    <2>1. PICK name, pc, creds :
             /\ cmd' = [cmd EXCEPT ![c] = Running(name, pc, creds)]
             /\ pc \in {"authenticate", "refresh", "reload", "fetch"}
      BY <1>3 DEF StartLogin, StartRequest, StartUnlock, StartUse
    <2> DEFINE r == Running(name, pc, creds)
    <2>2. cmd'[c] = r /\ r.pc \notin LogoutLabels
      BY <2>1, FirstWrapping DEF LogoutLabels, TypeOK
    <2> HIDE DEF r
    <2> QED BY <2>2, NotALogout
  <1> QED BY <1>1, <1>2, <1>3 DEF Start

(* The keychain entry of the credentials in the file is the only one of    *)
(* their account.                                                          *)
LEMMA OneEntry ==
    ASSUME NEW store, IsStore(store), \A s \in DOMAIN store : s.wrap = 0,
           NEW creds, creds.wrap = 0
    PROVE  Forgets(Without(store, Session(creds)), creds.account)
  <1> SUFFICES ASSUME NEW s \in DOMAIN Without(store, Session(creds))
               PROVE  s.account # creds.account
    BY DEF Forgets
  <1>1. s \in DOMAIN store /\ s # Session(creds)
    BY DEF Without
  <1>2. s \in [account : Accounts, wrap : Nat] /\ s.wrap = 0
    BY <1>1 DEF IsStore, Sessions
  <1>3. s = [account |-> s.account, wrap |-> 0]
    BY <1>2
  <1> QED BY <1>1, <1>3 DEF Session

(* The steps of a command that runs alone *)
LEMMA StepKeepsLogout ==
    ASSUME LogoutInv, \A b, d \in Commands : b = d, NEW c \in Commands, Step(c)
    PROVE  LogoutUnderWay'
  <1> USE DEF Become, Read, server, stores, LogoutInv
  <1>1. cmd[c] \in Active /\ TypeOK
    <2>1. cmd[c].pc # "idle"
      BY DEF Step, Authenticate, Refresh, Save, Reload, Put, Fetch, Bootstrap,
             Revoke, ClearKeychain, Remove, ClearSession
    <2> QED BY <2>1, CommandCases DEF CommandOK
  <1>2. \A d \in Commands : d = c
    OBVIOUS
  <1>3. ASSUME cmd'[c].pc \in {"idle", "save", "reload", "put", "bootstrap"}
        PROVE  LogoutUnderWay'
    BY <1>3, NotALogout DEF LogoutLabels
  <1>4. End(c) => cmd'[c].pc = "idle"
    BY <1>1, FirstWrapping DEF End, TypeOK
  <1>5. ASSUME NEW label, Goto(c, label)
        PROVE  /\ cmd'[c].pc = label /\ cmd'[c].creds = cmd[c].creds
               /\ cmd'[c].warned = cmd[c].warned
    BY <1>1, <1>5 DEF Goto, TypeOK, Active
  <1>6. CASE Authenticate(c)
    <2>1. End(c) \/ cmd'[c].pc = "save"
      BY <1>1, <1>6 DEF Authenticate, TypeOK, Active
    <2> QED BY <1>3, <1>4, <2>1
  <1>7. CASE Refresh(c)
    <2>1. End(c) \/ cmd'[c].pc = "save"
      BY <1>1, <1>7 DEF Refresh, TypeOK, Active
    <2> QED BY <1>3, <1>4, <2>1
  <1>8. CASE Save(c) \/ Put(c) \/ Fetch(c)
    <2>1. End(c) \/ Goto(c, "reload") \/ Goto(c, "bootstrap")
      BY <1>8 DEF Save, Put, Fetch
    <2> QED BY <1>3, <1>4, <1>5, <2>1
  <1>9. CASE Reload(c) \/ Bootstrap(c)
    <2>1. ASSUME NEW record, Become(c, record), record.pc = "put"
          PROVE  cmd'[c].pc = "put"
      BY <1>1, <2>1 DEF Become, TypeOK
    <2>2. DOMAIN cmd[c] = {"pc", "name", "creds", "replaced", "key", "warned"}
      BY <1>1 DEF TypeOK, Active
    <2>3. \A creds, key : /\ [cmd[c] EXCEPT !.pc = "put", !.creds = creds].pc = "put"
                          /\ [cmd[c] EXCEPT !.pc = "put", !.key = key].pc = "put"
      BY <2>2
    <2>4. End(c) \/ \E record : Become(c, record) /\ record.pc = "put"
      BY <1>9, <2>3 DEF Reload, Bootstrap
    <2> QED BY <1>3, <1>4, <2>1, <2>4
  <1>10. CASE Revoke(c)
    <2>1. cmd[c].pc = "revoke" /\ Goto(c, "clear_keychain") /\ UNCHANGED file
      BY <1>10 DEF Revoke
    <2>2. file # NoFile /\ file.account = cmd[c].creds.account
      BY <2>1 DEF LogoutUnderWay
    <2>3. /\ cmd'[c].pc = "clear_keychain" /\ cmd'[c].creds = cmd[c].creds
          /\ cmd'[c].warned = cmd[c].warned
      BY <1>5, <2>1
    <2> QED BY <1>2, <2>1, <2>2, <2>3 DEF LogoutUnderWay
  <1>11. CASE ClearKeychain(c)
    <2>1. /\ file # NoFile /\ file.account = cmd[c].creds.account /\ file.wrap = 0
          /\ LoggedIn(UrlOf(c))
      BY <1>11 DEF ClearKeychain, LogoutUnderWay, NeverRewrapped, LoggedIn, UrlOf
    <2>2. IsStore(keychain) /\ \A s \in DOMAIN keychain : s.wrap = 0
      BY <1>1 DEF TypeOK, NeverRewrapped
    <2>3. Forgets(Without(keychain, Session(file)), cmd[c].creds.account)
      BY <2>1, <2>2, OneEntry
    <2>4. ASSUME NEW failed \in BOOLEAN,
                 cmd' = [cmd EXCEPT ![c] = [cmd[c] EXCEPT !.pc = "remove", !.warned = failed]],
                 ~failed => keychain' = Without(keychain, Session(file))
          PROVE  LogoutUnderWay'
      <3> DEFINE r == [cmd[c] EXCEPT !.pc = "remove", !.warned = failed]
      <3>1. r.pc = "remove" /\ r.warned = failed /\ r.creds = cmd[c].creds
        BY <1>1 DEF Active
      <3>2. \A d \in Commands : cmd'[d] = r
        BY <1>1, <2>4 DEF TypeOK
      <3> HIDE DEF r
      <3> QED BY <2>3, <2>4, <3>1, <3>2 DEF LogoutUnderWay
    <2>5. ASSUME End(c) PROVE LogoutUnderWay'
      BY <1>3, <1>4, <2>5
    <2> QED BY <1>11, <2>1, <2>4, <2>5 DEF ClearKeychain
  <1>12. CASE Remove(c)
    <2>1. /\ cmd[c].pc = "remove" /\ Goto(c, "clear_session")
          /\ file' = NoFile /\ UNCHANGED keychain
      BY <1>12 DEF Remove
    <2>2. ~cmd[c].warned => Forgets(keychain, cmd[c].creds.account)
      BY <2>1 DEF LogoutUnderWay
    <2>3. /\ cmd'[c].pc = "clear_session" /\ cmd'[c].creds = cmd[c].creds
          /\ cmd'[c].warned = cmd[c].warned
      BY <1>5, <2>1
    <2> QED BY <1>2, <2>1, <2>2, <2>3 DEF LogoutUnderWay
  <1>13. CASE ClearSession(c)
    <2>1. /\ cmd[c].pc = "clear_session" /\ Goto(c, "logged_out")
          /\ daemon' = Without(daemon, Session(cmd[c].creds)) /\ UNCHANGED <<file, keychain>>
      BY <1>13 DEF ClearSession
    <2>2. /\ ~cmd[c].warned => Forgets(keychain, cmd[c].creds.account)
          /\ file = NoFile
      BY <2>1 DEF LogoutUnderWay
    <2>3. cmd[c].creds.wrap = 0 /\ IsStore(daemon) /\ \A s \in DOMAIN daemon : s.wrap = 0
      BY <1>1, <2>1 DEF TypeOK, NeverRewrapped
    <2>4. Forgets(daemon', cmd[c].creds.account)
      BY <2>1, <2>3, OneEntry
    <2>5. /\ cmd'[c].pc = "logged_out" /\ cmd'[c].creds = cmd[c].creds
          /\ cmd'[c].warned = cmd[c].warned
      BY <1>5, <2>1
    <2> QED BY <1>2, <2>1, <2>2, <2>4, <2>5 DEF LogoutUnderWay
  <1> QED BY <1>6, <1>7, <1>8, <1>9, <1>10, <1>11, <1>12, <1>13 DEF Step

(* Nothing but the command itself interferes with it. *)
LEMMA LogoutInvStep ==
    ASSUME \A a \in Accounts : MaxWraps[a] = 0, NoFileIsNoCredentials, \A c, d \in Commands : c = d
    PROVE  LogoutInv /\ [Next]_vars => LogoutInv'
  <1> SUFFICES ASSUME LogoutInv, [Next]_vars PROVE LogoutUnderWay'
    BY TypedStep, WrappingStep DEF LogoutInv
  <1>1. CASE UNCHANGED vars
    BY <1>1 DEF vars, LogoutInv, LogoutUnderWay
  <1>2. ASSUME NEW c \in Commands, Start(c) \/ Step(c)
        PROVE  LogoutUnderWay'
    BY <1>2, StartKeepsLogout, StepKeepsLogout
  <1>3. ASSUME NEW c \in Commands, Return(c) \/ Kill(c)
        PROVE  LogoutUnderWay'
    <2>1. cmd'[c] = Idle /\ Idle.pc \notin LogoutLabels
      BY <1>3, FirstWrapping DEF Return, Kill, End, Become, LogoutLabels, LogoutInv, TypeOK
    <2> QED BY <2>1, NotALogout
  <1>4. CASE \E a \in Accounts : Rewrap(a)
    BY <1>4 DEF Rewrap, LogoutInv, NeverRewrapped
  <1>5. CASE Age
    <2>1. /\ file # NoFile /\ file \in CredentialsWith(1 .. issued)
          /\ UNCHANGED <<keychain, daemon, cmd>>
      BY <1>5, FileTyped DEF Age, stores, LogoutInv
    <2>2. file'.account = file.account /\ file' \in CredentialsWith(Nat)
      BY <1>5, <2>1 DEF Age, CredentialsWith, Ages
    <2>3. file' # NoFile
      BY <2>2 DEF NoFileIsNoCredentials
    <2> QED BY <2>1, <2>2, <2>3 DEF LogoutInv, LogoutUnderWay
  <1>6. CASE DaemonForgets
    <2>1. PICK s : daemon' = Without(daemon, s)
      BY <1>6 DEF DaemonForgets
    <2>2. \A a : Forgets(daemon, a) => Forgets(daemon', a)
      BY <2>1 DEF Forgets, Without
    <2>3. UNCHANGED <<file, keychain, cmd>>
      BY <1>6 DEF DaemonForgets
    <2> QED BY <2>2, <2>3 DEF LogoutInv, LogoutUnderWay
  <1> QED BY <1>1, <1>2, <1>3, <1>4, <1>5, <1>6 DEF Next

(* Of commands that run one after the other, through every failure and     *)
(* kill, a logout that reports success without a warning leaves neither    *)
(* credentials nor data key of its account behind, as long as the data key *)
(* was not wrapped anew since it was stored (main.rs:1056-1082).           *)
THEOREM LogoutsForget ==
    ASSUME \A a \in Accounts : MaxWraps[a] = 0, NoFileIsNoCredentials, \A c, d \in Commands : c = d
    PROVE  Spec => []LogoutForgets
  <1>1. Init => LogoutInv
    BY InitTyped, FirstWrapping DEF Init, LogoutInv, NeverRewrapped, LogoutUnderWay
  <1>2. LogoutInv => LogoutForgets
    <2> SUFFICES ASSUME LogoutInv, NEW c \in Commands, cmd[c].pc = "logged_out", ~cmd[c].warned
                 PROVE  /\ file = NoFile
                        /\ \A store \in {keychain, daemon} : \A s \in DOMAIN store :
                              s.account # cmd[c].creds.account
      BY DEF LogoutForgets
    <2> QED BY DEF LogoutInv, LogoutUnderWay, Forgets
  <1> QED BY <1>1, <1>2, LogoutInvStep, PTL DEF Spec
=============================================================================
