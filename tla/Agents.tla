------------------------------- MODULE Agents -------------------------------
(***************************************************************************)
(* Agents of the command line: registration, approval, use, revocation and *)
(* logout.  The machine keeps one registration, in agent.json, and the     *)
(* seed that the agent's keys derive from apart from it, in the keychain   *)
(* of the platform or, when that cannot be reached, in a file.  Nothing    *)
(* is locked between the two, nor between commands, any of which may be    *)
(* killed.  The owner's approval seals the keys of the lists for the       *)
(* agent; the server and the owner's session are external.                 *)
(***************************************************************************)
EXTENDS CommandLine

CONSTANTS
    Urls,
    Holder,       \* [Lists -> Users]: whose role in a list is owner
    HolderMembership,  \* the membership ciphertext of that user, or None
    MaxAgents,    \* bounds of the model: agents that enroll,
    MaxAgentRuns, \* commands started,
    MaxLogins     \* and changes of the owner's session

(* The key of an own list is derived, that of a list handed over sealed.   *)
ASSUME MembershipAssumption ==
    /\ Holder \in [Lists -> Users]
    /\ \A l \in Lists :
          HolderMembership[l] = IF Deriver[l] = Holder[l] THEN None
                                ELSE SealMembership(Holder[l], DerivedListKey(Deriver[l], l))

VARIABLES
    session,      \* the user whose credentials are saved, or None
    agent,        \* agent.json, or None
    keychain, files,  \* the agents whose seed is in either
    server,       \* the agents as the server knows them
    scarred,      \* whether a command left agent.json and the seed apart
    logins

agentVars == <<session, agent, keychain, files, server, cmd, scarred, runs, logins>>

AgentIds == 1 .. MaxAgents
Enrolled == {a \in AgentIds : server[a] # None}
Unknown == UNCHANGED server
NoRun == UNCHANGED <<session, runs, logins>>

(* AgentCredentials::registered: not yet approved, without a token         *)
Registered(id, url) == [id |-> id, url |-> url, owner |-> None, token |-> None]

(* found: the agent that this command found in agent.json, 0 for none.     *)
(* overtaken: agent.json or a seed was written by another command since.   *)
(* warned: something could not be cleared.  skipped: the keychain could    *)
(* not be reached.                                                         *)
AgentCommand(pc, url, credentials) ==
    [pc |-> pc, url |-> url, id |-> IF credentials = None THEN 0 ELSE credentials.id,
     credentials |-> credentials, found |-> IF agent = None THEN 0 ELSE agent.id,
     source |-> None, grants |-> None, stray |-> FALSE,
     overtaken |-> FALSE, warned |-> FALSE, skipped |-> FALSE]

AgentsInit ==
    /\ session \in Users \cup {None}
    /\ agent = None
    /\ keychain = {} /\ files = {}
    /\ server = [a \in AgentIds |-> None]
    /\ cmd = [c \in Commands |-> Idle]
    /\ scarred = FALSE /\ runs = 0 /\ logins = 0

(* The command c writes agent.json or a seed, and goes on as record.       *)
Wrote(c, record) ==
    cmd' = [d \in Commands |->
              IF d = c THEN record
              ELSE IF cmd[d] = Idle THEN Idle ELSE [cmd[d] EXCEPT !.overtaken = TRUE]]

Store == <<agent, keychain, files>>

Launch(c, record) ==
    /\ cmd[c] = Idle /\ runs < MaxAgentRuns
    /\ Become(c, record)
    /\ runs' = runs + 1
    /\ UNCHANGED <<session, logins, scarred, server>> /\ UNCHANGED Store

----------------------------------------------------------------------------
(* agent register *)

FreeHere(url) == IF agent = None THEN TRUE ELSE agent.url # url  \* mutant: another server's registration is not in the way

(* ensure_agent_registration_slot_available *)
SlotAvailable(url) == agent = None

StartRegister(c) ==
    \E url \in Urls : SlotAvailable(url) /\ Launch(c, AgentCommand("enroll", url, None))

(* register_agent *)
Enroll(c) ==
    /\ cmd[c].pc = "enroll"
    /\ \E a \in AgentIds \ Enrolled :
          /\ \A b \in AgentIds \ Enrolled : a <= b
          /\ server' = [server EXCEPT ![a] = [status |-> "pending", url |-> cmd[c].url,
                                              owner |-> None, grants |-> [l \in Lists |-> None], stray |-> FALSE]]
          /\ Become(c, [cmd[c] EXCEPT !.pc = "register", !.id = a,
                           !.credentials = Registered(a, cmd[c].url)])
    /\ NoRun /\ UNCHANGED scarred /\ UNCHANGED Store

(* save_agent_credentials *)
SaveRegistration(c) ==
    /\ cmd[c].pc = "register"
    /\ agent' = cmd[c].credentials
    /\ Wrote(c, [cmd[c] EXCEPT !.pc = "seed"])
    /\ NoRun /\ Unknown /\ UNCHANGED <<keychain, files, scarred>>

(* save_agent_seed: in the keychain, or in the file when the keychain is   *)
(* out of reach.  Each may fail, the removal of the file too.              *)
SaveSeed(c) ==
    /\ cmd[c].pc = "seed"
    /\ \E in \in {"keychain", "file"} :
          /\ keychain' = IF in = "keychain" THEN keychain \cup {cmd[c].id} ELSE keychain
          /\ files' = IF in = "keychain" THEN files \ {cmd[c].id} ELSE files \cup {cmd[c].id}
    /\ Wrote(c, Idle)
    /\ NoRun /\ Unknown /\ UNCHANGED <<agent, scarred>>

KeepsRegistration(c) ==  \* mutant: the failure is only reported
    /\ cmd[c].pc = "seed" /\ Become(c, Idle)
    /\ NoRun /\ Unknown /\ UNCHANGED <<agent, keychain, files, scarred>>

FailSeed(c) ==
    /\ cmd[c].pc = "seed"
    /\ keychain' \in {keychain, keychain \cup {cmd[c].id}}
    /\ Wrote(c, [cmd[c] EXCEPT !.pc = "cleanup"])
    /\ NoRun /\ Unknown /\ UNCHANGED <<agent, files, scarred>>

(* clear_agent_credentials, whatever agent.json holds by then              *)
ClearRegistration(c) ==
    /\ cmd[c].pc = "cleanup"
    /\ agent' = None
    /\ Wrote(c, Idle)
    /\ NoRun /\ Unknown /\ UNCHANGED <<keychain, files, scarred>>

----------------------------------------------------------------------------
(* agent approve, agent revoke *)

(* load_data_key of the saved session                                      *)
StartApprove(c) ==
    /\ session # None
    /\ \E a \in Enrolled :
          Launch(c, [AgentCommand("grants", server[a].url, None) EXCEPT
                        !.id = a, !.found = 0, !.source = session])

HeldBy(user) == {l \in Lists : Holder[l] = user}

(* build_agent_grants_for_enrollment: the session is read again to list    *)
(* the work lists.  A key that cannot be had fails the command.            *)
BuildGrants(c) ==
    /\ cmd[c].pc = "grants" /\ session # None
    /\ LET key(l) == UserListKey(cmd[c].source, l, HolderMembership[l]) IN
          /\ \A l \in HeldBy(session) : key(l) # None
          /\ Become(c, [cmd[c] EXCEPT !.pc = "approve", !.stray = cmd[c].source # session,
                           !.grants = [l \in Lists |->
                               IF l \in HeldBy(session) THEN SealGrant(cmd[c].id, l, key(l)) ELSE None]])
    /\ NoRun /\ Unknown /\ UNCHANGED scarred /\ UNCHANGED Store

(* approve_agent_enrollment, with the session as it is now: the server     *)
(* takes grants of lists that this user owns, for a pending enrollment.    *)
Approve(c) ==
    /\ cmd[c].pc = "approve" /\ session # None
    /\ server[cmd[c].id].status = "pending"
    /\ \A l \in Lists : cmd[c].grants[l] # None => Holder[l] = session
    /\ server' = [server EXCEPT ![cmd[c].id] =
                     [@ EXCEPT !.status = "approved", !.owner = session,
                               !.grants = cmd[c].grants,
                               !.stray = cmd[c].stray \/ session # cmd[c].source]]
    /\ Become(c, Idle)
    /\ NoRun /\ UNCHANGED scarred /\ UNCHANGED Store

(* cmd_agent_revoke of an agent in the owner's list                        *)
Revoke(c) ==
    /\ cmd[c] = Idle /\ runs < MaxAgentRuns /\ session # None
    /\ \E a \in Enrolled :
          /\ server[a].owner = session
          /\ server' = [server EXCEPT ![a].status = "revoked"]
    /\ runs' = runs + 1
    /\ UNCHANGED <<session, logins, scarred, cmd>> /\ UNCHANGED Store

----------------------------------------------------------------------------
(* Commands of the agent, auth logout *)

(* select_principal_credentials among what is saved for the URL            *)
Selections == {"auto", "agent"}
Selected(url, selection) ==
    /\ agent # None /\ agent.url = url
    /\ selection = "auto" => session = None

StartUse(c) ==
    \E url \in Urls, selection \in Selections :
        Selected(url, selection) /\ Launch(c, AgentCommand("use", url, agent))

(* load_agent_seed: the keychain first, then the file                      *)
FindsSeed(id) == id \in keychain \/ id \in files

DropsOwner(credentials, owner) == [credentials EXCEPT !.token = "fresh"]  \* mutant: the owner is not noted

(* set_active_access_token *)
Active(credentials, owner) == [credentials EXCEPT !.owner = owner, !.token = "fresh"]

(* refresh_agent_credentials_if_needed: mint_agent_access_token            *)
Mint(c) ==
    /\ cmd[c].pc = "use"
    /\ cmd[c].credentials.token # "fresh"
    /\ FindsSeed(cmd[c].id)
    /\ server[cmd[c].id].status = "approved"
    /\ Become(c, [cmd[c] EXCEPT !.pc = "save",
                     !.credentials = Active(@, server[cmd[c].id].owner)])
    /\ NoRun /\ Unknown /\ UNCHANGED scarred /\ UNCHANGED Store

(* save_agent_credentials_blocking *)
SaveToken(c) ==
    /\ cmd[c].pc = "save"
    /\ agent' = cmd[c].credentials
    /\ Wrote(c, [cmd[c] EXCEPT !.pc = "use"])
    /\ scarred' = (scarred \/ cmd[c].overtaken)
    /\ NoRun /\ Unknown /\ UNCHANGED <<keychain, files>>

(* The agent opens the grant of a list that it is shown.                   *)
Use(c) ==
    /\ cmd[c].pc = "use"
    /\ cmd[c].credentials.token = "fresh"
    /\ FindsSeed(cmd[c].id)
    /\ Become(c, Idle)
    /\ NoRun /\ Unknown /\ UNCHANGED scarred /\ UNCHANGED Store

StartLogout(c) ==
    \E url \in Urls, selection \in Selections :
        Selected(url, selection) /\ Launch(c, AgentCommand("clear", url, agent))

ClearsOnePlace(c) ==  \* mutant: a keychain that answers has no file beside it
    /\ cmd[c].pc = "clear"
    /\ \E reached \in BOOLEAN :
          /\ keychain' = IF reached THEN keychain \ {cmd[c].id} ELSE keychain
          /\ files' = IF reached THEN files ELSE files \ {cmd[c].id}
          /\ Wrote(c, [cmd[c] EXCEPT !.pc = "remove", !.skipped = ~reached])
    /\ NoRun /\ Unknown /\ UNCHANGED <<agent, scarred>>

(* clear_agent_seed: a keychain out of reach is passed over in silence.    *)
ClearSeed(c) ==
    /\ cmd[c].pc = "clear"
    /\ \E reached \in BOOLEAN :
          /\ keychain' = IF reached THEN keychain \ {cmd[c].id} ELSE keychain
          /\ files' = files \ {cmd[c].id}
          /\ Wrote(c, [cmd[c] EXCEPT !.pc = "remove", !.skipped = ~reached])
    /\ NoRun /\ Unknown /\ UNCHANGED <<agent, scarred>>

(* What could not be cleared is a warning, and the logout goes on.         *)
WarnSeed(c) ==
    /\ cmd[c].pc = "clear"
    /\ keychain' \in {keychain, keychain \ {cmd[c].id}}
    /\ Become(c, [cmd[c] EXCEPT !.pc = "remove", !.warned = TRUE])
    /\ NoRun /\ Unknown /\ UNCHANGED <<agent, files, scarred>>

RemoveAgent(c) ==
    /\ cmd[c].pc = "remove"
    /\ agent' = None
    /\ Wrote(c, [cmd[c] EXCEPT !.pc = "loggedout"])
    /\ NoRun /\ Unknown /\ UNCHANGED <<keychain, files, scarred>>

ReturnLogout(c) ==
    /\ cmd[c].pc = "loggedout"
    /\ Become(c, Idle)
    /\ NoRun /\ Unknown /\ UNCHANGED scarred /\ UNCHANGED Store

(* A request or a write fails, or the command is killed.                   *)
Stop(c) ==
    /\ cmd[c].pc \notin {"idle", "loggedout"}
    /\ Become(c, Idle)
    /\ scarred' = (scarred \/ cmd[c].pc \in {"seed", "cleanup", "remove"})
    /\ NoRun /\ Unknown /\ UNCHANGED Store

----------------------------------------------------------------------------
(* Others *)

(* auth login, auth logout of the user                                     *)
ChangeUser ==
    /\ logins < MaxLogins /\ logins' = logins + 1
    /\ session' \in (Users \cup {None}) \ {session}
    /\ UNCHANGED <<server, cmd, scarred, runs>> /\ UNCHANGED Store

(* The access token comes within a minute of its end.                      *)
Age ==
    /\ agent # None /\ agent.token = "fresh"
    /\ agent' = [agent EXCEPT !.token = "stale"]
    /\ UNCHANGED <<server, cmd, scarred, keychain, files>> /\ NoRun

AgentsNext ==
    \/ \E c \in Commands :
          \/ StartRegister(c) \/ Enroll(c) \/ SaveRegistration(c) \/ SaveSeed(c)
          \/ FailSeed(c) \/ ClearRegistration(c)
          \/ StartApprove(c) \/ BuildGrants(c) \/ Approve(c) \/ Revoke(c)
          \/ StartUse(c) \/ Mint(c) \/ SaveToken(c) \/ Use(c)
          \/ StartLogout(c) \/ ClearSeed(c) \/ WarnSeed(c) \/ RemoveAgent(c)
          \/ ReturnLogout(c) \/ Stop(c)
    \/ ChangeUser \/ Age

AgentsSpec == AgentsInit /\ [][AgentsNext]_agentVars

----------------------------------------------------------------------------
(* Correctness *)

(* Type correctness: the credentials never hold a token without the owner, *)
(* a state that every command of the agent would refuse.                   *)
AgentsTyped ==
    /\ session \in Users \cup {None}
    /\ agent # None => agent.id \in Enrolled /\ (agent.token # None => agent.owner \in Users)
    /\ keychain \subseteq Enrolled /\ files \subseteq Enrolled

(* The registration in agent.json has its seed, so that the agent can sign *)
(* in again: except while a command is between its two writes, after one   *)
(* was stopped there, and after a token was saved over a newer file.       *)
SeedWithCredentials ==
    agent # None /\ ~scarred =>
        \/ agent.id \in keychain \cup files
        \/ \E c \in Commands : cmd[c] # Idle /\ cmd[c].id = agent.id
                                /\ cmd[c].pc \in {"seed", "cleanup", "remove"}

(* A logout without a warning leaves no seed of the agent on the machine,  *)
(* if it reached the keychain and nothing was written while it ran.        *)
LogoutForgetsSeed ==
    \A c \in Commands :
        cmd[c].pc = "loggedout" /\ ~cmd[c].warned /\ ~cmd[c].skipped /\ ~cmd[c].overtaken
            => cmd[c].id \notin keychain \cup files

(* A command replaces or removes a registration that it is not about only  *)
(* if it did not find it when it looked at agent.json: the registration    *)
(* was saved, or saved again, while this command ran.  One that was there  *)
(* before is safe from a register, whatever server it is for, from the     *)
(* cleanup of a registration that failed, from a late token, and from a    *)
(* logout of another agent.  (A write marks the other commands overtaken,  *)
(* but moves only the one that writes.)                                    *)
Writes(c) == cmd'[c].pc # cmd[c].pc
RegistrationKept ==
    [][agent # None /\ (IF agent' = None THEN TRUE ELSE agent'.id # agent.id) =>
          \E c \in Commands :
              Writes(c) /\ (cmd[c].id = agent.id \/ cmd[c].found # agent.id)]_agentVars

(* A grant at the server opens with the agent's key to the key of its      *)
(* list, derived or handed over, and every list that the approver owns has *)
(* one, unless the session changed between the three times that an         *)
(* approval reads it.                                                      *)
GrantsGiveListKey ==
    \A a \in Enrolled : server[a].owner # None /\ ~server[a].stray =>
        \A l \in Lists :
            OpenGrant(a, l, server[a].grants[l]) =
                IF Holder[l] = server[a].owner THEN DerivedListKey(Deriver[l], l) ELSE None
=============================================================================
