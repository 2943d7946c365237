------------------------- MODULE CommandLineProofs -------------------------
(***************************************************************************)
(* What is proved of the commands of agents and of tasks, and of the walk  *)
(* over the assigned tasks, for any number of commands, users, agents,     *)
(* lists, tasks and changes by others, and pages of any length.            *)
(***************************************************************************)
EXTENDS Agents, Tasks, MyTasks, SequenceTheorems, TLAPS

----------------------------------------------------------------------------
(* Agents *)

AgentFields == {"id", "url", "owner", "token"}
EnrollmentFields == {"status", "url", "owner", "grants", "stray"}
CommandFields ==
    {"pc", "url", "id", "credentials", "found", "source", "grants", "stray", "overtaken", "warned",
     "skipped"}

TaskFields == {"list", "title", "payload", "files", "place", "assignment", "torn", "stray"}
CommentFields == {"body", "stray"}
SealedFields == {"key", "context", "body"}

(* None is no user and no agent, neither credentials nor an enrollment, a  *)
(* task or a comment, and neither a key nor a ciphertext.                  *)
NoneIsNoValue ==
    /\ None \notin Users \cup Agents /\ None # "fresh"
    /\ \A r : DOMAIN r \in {EnrollmentFields, AgentFields, TaskFields, CommentFields, SealedFields} => r # None
    /\ \A user, list : None # DataKey(user) /\ None # DerivedListKey(user, list)
    /\ \A id : None # RecipientKey(id)
    /\ \A key, context, body : None # Seal(key, context, body)

IsCredentials(r) ==
    DOMAIN r = AgentFields /\ r.id \in Enrolled /\ (r.token # None => r.owner \in Users)

IsEnrollment(r) ==
    /\ DOMAIN r = EnrollmentFields
    /\ r.stray \in BOOLEAN
    /\ r.owner \in Users \cup {None}
    /\ r.status = "approved" => r.owner \in Users

(* The grants of an approval in one session                                *)
GrantsFor(id, owner) ==
    [l \in Lists |-> IF Holder[l] = owner THEN SealGrant(id, l, DerivedListKey(Deriver[l], l)) ELSE None]

Granted(a) == server[a].owner # None /\ ~server[a].stray => server[a].grants = GrantsFor(a, server[a].owner)

MachineTyped ==
    /\ session \in Users \cup {None}
    /\ agent # None => IsCredentials(agent)
    /\ keychain \subseteq Enrolled /\ files \subseteq Enrolled
    /\ scarred \in BOOLEAN
    /\ DOMAIN server = AgentIds
    /\ \A a \in Enrolled : IsEnrollment(server[a]) /\ Granted(a)
    /\ DOMAIN cmd = Commands

(* A command knows its agent, and until another command writes, what it    *)
(* knows of agent.json is so: its agent is registered, or none is.         *)
IsCommand(r) ==
    /\ DOMAIN r = CommandFields
    /\ r.pc \in {"enroll", "register", "seed", "cleanup", "grants", "approve", "use", "save",
                 "clear", "remove", "loggedout"}
    /\ r.stray \in BOOLEAN /\ r.overtaken \in BOOLEAN
    /\ r.pc # "enroll" => r.id \in Enrolled
    /\ r.pc = "enroll" => r.found = 0
    /\ r.pc \in {"register", "seed", "cleanup", "use", "save", "clear", "remove"} =>
          r.found \in {0, r.id}
    /\ r.pc \in {"register", "seed", "cleanup", "use", "save", "clear", "remove"} =>
          IsCredentials(r.credentials) /\ r.credentials.id = r.id
    /\ r.pc \in {"enroll", "register"} /\ ~r.overtaken => agent = None
    /\ r.pc \in {"seed", "cleanup", "use", "save", "clear", "remove"} /\ ~r.overtaken =>
          agent # None /\ agent.id = r.id
    /\ r.pc \in {"remove", "loggedout"} /\ ~r.warned /\ ~r.skipped /\ ~r.overtaken =>
          r.id \notin keychain \cup files
    /\ r.pc = "approve" /\ ~r.stray => r.grants = GrantsFor(r.id, r.source)

CommandKnows(c) == cmd[c] = Idle \/ IsCommand(cmd[c])

AgentsInv ==
    /\ MachineTyped
    /\ \A c \in Commands : CommandKnows(c)
    /\ SeedWithCredentials

(* What a command between its two writes is about                          *)
Between(r, id) == r # Idle /\ r.id = id /\ r.pc \in {"seed", "cleanup", "remove"}

(* A command that runs is not idle.                                        *)
LEMMA RunningIsCommand ==
    ASSUME AgentsInv, NEW c \in Commands, cmd[c].pc # "idle"
    PROVE  cmd[c] # Idle /\ IsCommand(cmd[c])
BY DEF AgentsInv, CommandKnows, Idle

(* What a command knows survives what does not touch it.                   *)
LEMMA Untouched ==
    ASSUME AgentsInv, NEW d \in Commands, cmd'[d] = cmd[d], Enrolled \subseteq Enrolled',
           agent = None <=> agent' = None, agent # None => agent'.id = agent.id,
           keychain' \subseteq keychain, files' \subseteq files
    PROVE  CommandKnows(d)'
<1>1. CASE cmd[d] = Idle BY <1>1 DEF CommandKnows
<1>2. CASE IsCommand(cmd[d])
    <2>1. IsCommand(cmd[d])' BY <1>2 DEF IsCommand, IsCredentials, GrantsFor
    <2>2. QED BY <2>1 DEF CommandKnows
<1>3. QED BY <1>1, <1>2 DEF AgentsInv, CommandKnows

(* So does it when another command writes.                                 *)
LEMMA OvertakenKnows ==
    ASSUME AgentsInv, NEW d \in Commands, Enrolled \subseteq Enrolled',
           cmd'[d] = IF cmd[d] = Idle THEN Idle ELSE [cmd[d] EXCEPT !.overtaken = TRUE]
    PROVE  CommandKnows(d)'
<1>1. CASE cmd[d] = Idle BY <1>1 DEF CommandKnows
<1>2. CASE cmd[d] # Idle
    <2>1. IsCommand(cmd[d]) BY <1>2 DEF AgentsInv, CommandKnows
    <2>2. /\ DOMAIN cmd'[d] = CommandFields /\ cmd'[d].overtaken = TRUE
          /\ \A field \in CommandFields \ {"overtaken"} : cmd'[d][field] = cmd[d][field]
        BY <1>2, <2>1 DEF IsCommand, CommandFields
    <2>3. IsCommand(cmd[d])'
        <3> DEFINE old == cmd[d]
                   new == cmd'[d]
        <3>1. /\ new.pc = old.pc /\ new.id = old.id /\ new.credentials = old.credentials
              /\ new.source = old.source /\ new.grants = old.grants /\ new.stray = old.stray
              /\ new.found = old.found
            BY <2>2 DEF CommandFields
        <3>2. IsCredentials(old.credentials) => IsCredentials(old.credentials)'
            BY <3>1 DEF IsCredentials
        <3>3. GrantsFor(new.id, new.source) = GrantsFor(old.id, old.source) BY <3>1
        <3>4. QED BY <2>1, <2>2, <3>1, <3>2, <3>3 DEF IsCommand
    <2>4. QED BY <2>3 DEF CommandKnows
<1>3. QED BY <1>1, <1>2

(* agent.json and its seed stay together when neither the seeds nor what   *)
(* stands for them goes.                                                   *)
LEMMA SeedStays ==
    ASSUME AgentsInv, NEW c \in Commands,
           \A d \in Commands \ {c} :
              \/ cmd'[d] = cmd[d]
              \/ cmd'[d] = IF cmd[d] = Idle THEN Idle ELSE [cmd[d] EXCEPT !.overtaken = TRUE],
           agent' # None /\ ~scarred' => agent # None /\ ~scarred /\ agent'.id = agent.id,
           \A id : id \in keychain \cup files \/ Between(cmd[c], id) =>
                      id \in keychain' \cup files' \/ Between(cmd'[c], id)
    PROVE  SeedWithCredentials'
<1> SUFFICES ASSUME agent' # None, ~scarred', agent'.id \notin keychain' \cup files'
             PROVE  \E d \in Commands : Between(cmd'[d], agent'.id)
    BY DEF SeedWithCredentials, Between, Idle
<1>1. agent # None /\ ~scarred /\ agent'.id = agent.id
    OBVIOUS
<1>2. CASE agent.id \in keychain \cup files \/ Between(cmd[c], agent.id)
    BY <1>1, <1>2
<1>3. CASE agent.id \notin keychain \cup files /\ ~Between(cmd[c], agent.id)
    <2>1. PICK d \in Commands : Between(cmd[d], agent.id)
        BY <1>1, <1>3 DEF AgentsInv, SeedWithCredentials, Between
    <2>2. d # c BY <1>3, <2>1
    <2>3. CASE cmd'[d] = cmd[d] BY <1>1, <2>1, <2>3
    <2>4. CASE cmd'[d] = [cmd[d] EXCEPT !.overtaken = TRUE]
        <3>1. IsCommand(cmd[d]) BY <2>1 DEF AgentsInv, CommandKnows, Between
        <3>2. DOMAIN cmd'[d] = CommandFields /\ cmd'[d].pc = cmd[d].pc /\ cmd'[d].id = cmd[d].id
            BY <2>4, <3>1 DEF IsCommand, CommandFields
        <3>3. Between(cmd'[d], agent.id) BY <2>1, <3>2 DEF Between, Idle
        <3>4. QED BY <1>1, <3>3
    <2>5. QED BY <2>1, <2>2, <2>3, <2>4 DEF Between
<1>4. QED BY <1>2, <1>3

(* The invariant after a step of one command that writes neither agent.json *)
(* nor a seed, and after one that does                                     *)
LEMMA AfterReading ==
    ASSUME AgentsInv, NEW c \in Commands, NEW r, Become(c, r),
           MachineTyped', Enrolled \subseteq Enrolled', CommandKnows(c)', SeedWithCredentials',
           agent = None <=> agent' = None, agent # None => agent'.id = agent.id,
           keychain' \subseteq keychain, files' \subseteq files
    PROVE  AgentsInv'
<1>1. ASSUME NEW d \in Commands \ {c} PROVE CommandKnows(d)'
    <2>1. cmd'[d] = cmd[d] BY DEF Become, AgentsInv, MachineTyped
    <2>2. QED BY <2>1, Untouched
<1>2. QED BY <1>1 DEF AgentsInv

LEMMA AfterWriting ==
    ASSUME AgentsInv, NEW c \in Commands, NEW r, Wrote(c, r),
           MachineTyped', Enrolled \subseteq Enrolled', CommandKnows(c)', SeedWithCredentials'
    PROVE  AgentsInv'
<1>1. ASSUME NEW d \in Commands \ {c} PROVE CommandKnows(d)'
    <2>1. cmd'[d] = IF cmd[d] = Idle THEN Idle ELSE [cmd[d] EXCEPT !.overtaken = TRUE]
        BY DEF Wrote
    <2>2. QED BY <2>1, OvertakenKnows
<1>2. QED BY <1>1 DEF AgentsInv

(* A step that changes nothing but what the command c knows.               *)
LEMMA QuietKeeps ==
    ASSUME AgentsInv, NEW c \in Commands, NEW r, Become(c, r),
           UNCHANGED <<agent, keychain, files, server>>, session' \in Users \cup {None},
           r = Idle \/ IsCommand(r),
           scarred' \in BOOLEAN, scarred => scarred',
           cmd[c] # Idle /\ cmd[c].pc \in {"seed", "cleanup", "remove"} => scarred'
    PROVE  AgentsInv'
<1>1. cmd'[c] = r /\ DOMAIN cmd' = Commands BY DEF Become, AgentsInv, MachineTyped
<1>2. Enrolled' = Enrolled BY DEF Enrolled
<1>3. MachineTyped' BY <1>1, <1>2 DEF AgentsInv, MachineTyped, IsCredentials, IsEnrollment, Granted
<1>4. IsCommand(r) => IsCommand(cmd[c])' BY <1>1, <1>2 DEF IsCommand, IsCredentials
<1>5. CommandKnows(c)' BY <1>1, <1>4 DEF CommandKnows
<1>6. \A d \in Commands \ {c} : cmd'[d] = cmd[d] BY DEF Become, AgentsInv, MachineTyped
<1>7. SeedWithCredentials'
    <2> SUFFICES ASSUME agent # None, ~scarred'
                 PROVE  SeedWithCredentials'
        BY DEF SeedWithCredentials
    <2>1. \A id : ~Between(cmd[c], id) BY DEF Between
    <2>2. QED BY <1>6, <2>1, SeedStays
<1>8. QED BY <1>2, <1>3, <1>5, <1>7, AfterReading

(* The record of a command that begins                                     *)
LEMMA AgentCommandFields ==
    ASSUME NEW pc, NEW url, NEW credentials
    PROVE  /\ DOMAIN AgentCommand(pc, url, credentials) = CommandFields
           /\ AgentCommand(pc, url, credentials).pc = pc
           /\ AgentCommand(pc, url, credentials).credentials = credentials
           /\ AgentCommand(pc, url, credentials).found = IF agent = None THEN 0 ELSE agent.id
           /\ credentials # None => AgentCommand(pc, url, credentials).id = credentials.id
           /\ AgentCommand(pc, url, credentials).stray \in BOOLEAN /\ ~AgentCommand(pc, url, credentials).stray
           /\ AgentCommand(pc, url, credentials).overtaken \in BOOLEAN /\ ~AgentCommand(pc, url, credentials).overtaken
BY DEF AgentCommand, CommandFields

LEMMA LaunchKeeps ==
    ASSUME AgentsInv, NEW c \in Commands, NEW r, Launch(c, r), IsCommand(r)
    PROVE  AgentsInv'
BY QuietKeeps DEF Launch, Store, AgentsInv, MachineTyped

LEMMA StartsKeep ==
    ASSUME AgentsInv, NEW c \in Commands,
           StartRegister(c) \/ StartApprove(c) \/ StartUse(c) \/ StartLogout(c)
    PROVE  AgentsInv'
<1>1. CASE StartRegister(c)
    <2>1. PICK url \in Urls : SlotAvailable(url) /\ Launch(c, AgentCommand("enroll", url, None))
        BY <1>1 DEF StartRegister
    <2> DEFINE r == AgentCommand("enroll", url, None)
    <2>2. /\ DOMAIN r = CommandFields /\ r.pc = "enroll" /\ r.stray = FALSE /\ r.overtaken = FALSE
          /\ r.found = 0
        BY <2>1, AgentCommandFields DEF SlotAvailable
    <2>3. IsCommand(r)
        <3> HIDE DEF r
        <3>1. QED BY <2>1, <2>2 DEF IsCommand, SlotAvailable
    <2>4. QED BY <2>1, <2>3, LaunchKeeps
<1>2. CASE StartApprove(c)
    <2> DEFINE r(a) == [AgentCommand("grants", server[a].url, None) EXCEPT
                           !.id = a, !.found = 0, !.source = session]
    <2>1. PICK a \in Enrolled : Launch(c, r(a))
        BY <1>2 DEF StartApprove
    <2> DEFINE old == AgentCommand("grants", server[a].url, None)
    <2>2. DOMAIN old = CommandFields /\ old.pc = "grants" /\ old.stray = FALSE /\ old.overtaken = FALSE
        BY AgentCommandFields
    <2>3. /\ DOMAIN r(a) = CommandFields /\ r(a).pc = "grants" /\ r(a).id = a
          /\ r(a).stray = FALSE /\ r(a).overtaken = FALSE
        <3> HIDE DEF old
        <3>1. r(a) = [old EXCEPT !.id = a, !.found = 0, !.source = session] BY DEF old
        <3> HIDE DEF r
        <3>2. QED BY <2>2, <3>1 DEF CommandFields
    <2> HIDE DEF r
    <2>4. IsCommand(r(a)) BY <2>1, <2>3 DEF IsCommand
    <2>5. QED BY <2>1, <2>4, LaunchKeeps
<1>3. ASSUME NEW pc \in {"use", "clear"}, NEW url, NEW selection, Selected(url, selection),
             Launch(c, AgentCommand(pc, url, agent))
      PROVE  AgentsInv'
    <2>1. agent # None /\ IsCredentials(agent)
        BY <1>3 DEF Selected, AgentsInv, MachineTyped
    <2>2. agent.id \in Enrolled BY <2>1 DEF IsCredentials
    <2> DEFINE r == AgentCommand(pc, url, agent)
    <2>3. /\ DOMAIN r = CommandFields /\ r.pc = pc /\ r.credentials = agent /\ r.id = agent.id
          /\ r.found = agent.id /\ r.stray = FALSE /\ r.overtaken = FALSE
        BY <2>1, AgentCommandFields
    <2>4. IsCommand(r)
        <3> HIDE DEF r
        <3>1. QED BY <2>1, <2>2, <2>3 DEF IsCommand
    <2>5. QED BY <1>3, <2>4, LaunchKeeps
<1>4. QED BY <1>1, <1>2, <1>3 DEF StartUse, StartLogout

(* The key of a list, from what its owner has                              *)
LEMMA HolderKey ==
    ASSUME NoneIsNoValue, NEW l \in Lists
    PROVE  UserListKey(Holder[l], l, HolderMembership[l]) = DerivedListKey(Deriver[l], l)
<1> DEFINE key == DerivedListKey(Deriver[l], l)
           dataKey == DataKey(Holder[l])
<1>1. CASE Deriver[l] = Holder[l] BY <1>1, MembershipAssumption DEF UserListKey
<1>2. CASE Deriver[l] # Holder[l]
    <2>1. HolderMembership[l] = Seal(dataKey, "membership", key)
        BY <1>2, MembershipAssumption DEF SealMembership
    <2>2. dataKey # None
        BY DEF NoneIsNoValue
    <2>3. Seal(dataKey, "membership", key) # None BY DEF NoneIsNoValue
    <2>4. QED BY <2>1, <2>2, <2>3 DEF UserListKey, Open, Seal
<1>3. QED BY <1>1, <1>2

(* The server takes the enrollment or the change r of an agent.            *)
LEMMA ServerChanges ==
    ASSUME NoneIsNoValue, AgentsInv, NEW a \in AgentIds, NEW r, IsEnrollment(r),
           r.owner # None /\ ~r.stray => r.grants = GrantsFor(a, r.owner),
           server' = [server EXCEPT ![a] = r]
    PROVE  /\ DOMAIN server' = AgentIds
           /\ Enrolled' = Enrolled \cup {a}
           /\ \A b \in Enrolled' : IsEnrollment(server'[b]) /\ Granted(b)'
<1>1. DOMAIN server' = AgentIds /\ server'[a] = r /\ \A b \in AgentIds \ {a} : server'[b] = server[b]
    BY DEF AgentsInv, MachineTyped
<1>2. r # None BY DEF IsEnrollment, NoneIsNoValue
<1>3. Enrolled' = Enrolled \cup {a} BY <1>1, <1>2 DEF Enrolled
<1>4. Granted(a)' BY <1>1 DEF Granted
<1>5. ASSUME NEW b \in Enrolled, b # a PROVE IsEnrollment(server'[b]) /\ Granted(b)'
    <2>1. server'[b] = server[b] BY <1>1, <1>5 DEF Enrolled
    <2>2. QED BY <2>1, <1>5 DEF Granted, AgentsInv, MachineTyped
<1>6. QED BY <1>1, <1>3, <1>4, <1>5

LEMMA EnrollKeeps ==
    ASSUME NoneIsNoValue, AgentsInv, NEW c \in Commands, Enroll(c)
    PROVE  AgentsInv'
<1> DEFINE r(a) == [cmd[c] EXCEPT !.pc = "register", !.id = a,
                                  !.credentials = Registered(a, cmd[c].url)]
           e == [status |-> "pending", url |-> cmd[c].url, owner |-> None,
                 grants |-> [l \in Lists |-> None], stray |-> FALSE]
<1>1. PICK a \in AgentIds : server' = [server EXCEPT ![a] = e] /\ Become(c, r(a))
    BY DEF Enroll
<1>2. cmd[c] # Idle /\ IsCommand(cmd[c]) /\ cmd[c].pc = "enroll"
    BY RunningIsCommand DEF Enroll
<1>3. DOMAIN e = EnrollmentFields /\ e.owner = None /\ e.stray \in BOOLEAN /\ e.status = "pending"
    BY DEF EnrollmentFields
<1>4. IsEnrollment(e) BY <1>3 DEF IsEnrollment
<1> HIDE DEF e
<1>5. /\ DOMAIN server' = AgentIds /\ Enrolled' = Enrolled \cup {a}
      /\ \A b \in Enrolled' : IsEnrollment(server'[b]) /\ Granted(b)'
    BY <1>1, <1>3, <1>4, ServerChanges
<1>6. cmd'[c] = r(a) /\ DOMAIN cmd' = Commands /\ \A d \in Commands \ {c} : cmd'[d] = cmd[d]
    BY <1>1 DEF Become, AgentsInv, MachineTyped
<1>7. MachineTyped'
    BY <1>5, <1>6 DEF Enroll, NoRun, Store, AgentsInv, MachineTyped, IsCredentials
<1>8. /\ DOMAIN r(a) = CommandFields /\ r(a).pc = "register" /\ r(a).id = a
      /\ r(a).credentials = Registered(a, cmd[c].url)
      /\ r(a).stray = cmd[c].stray /\ r(a).found = cmd[c].found /\ r(a).overtaken = cmd[c].overtaken
    BY <1>2 DEF IsCommand, CommandFields
<1>9. IsCredentials(Registered(a, cmd[c].url))' /\ Registered(a, cmd[c].url).id = a
    BY <1>5 DEF IsCredentials, Registered, AgentFields
<1> HIDE DEF r
<1>10. IsCommand(cmd[c])'
    <2>1. IsCredentials(cmd[c].credentials)' BY <1>5, <1>6, <1>8 DEF IsCredentials, Registered, AgentFields
    <2>2. QED BY <1>2, <1>5, <1>6, <1>8, <1>9, <2>1 DEF Enroll, Store, IsCommand
<1>11. CommandKnows(c)' BY <1>10 DEF CommandKnows
<1>12. SeedWithCredentials'
    <2>1. \A id : ~Between(cmd[c], id) BY <1>2 DEF Between
    <2>2. UNCHANGED <<agent, keychain, files, scarred>> BY DEF Enroll, Store
    <2>3. QED BY <1>6, <2>1, <2>2, SeedStays
<1>13. QED BY <1>1, <1>5, <1>7, <1>11, <1>12, AfterReading DEF Enroll, Store

LEMMA BuildGrantsKeeps ==
    ASSUME NoneIsNoValue, AgentsInv, NEW c \in Commands, BuildGrants(c)
    PROVE  AgentsInv'
<1> DEFINE key(l) == UserListKey(cmd[c].source, l, HolderMembership[l])
           grants == [l \in Lists |->
                         IF l \in HeldBy(session) THEN SealGrant(cmd[c].id, l, key(l)) ELSE None]
           r == [cmd[c] EXCEPT !.pc = "approve", !.stray = cmd[c].source # session, !.grants = grants]
<1>1. Become(c, r) BY DEF BuildGrants
<1>2. cmd[c] # Idle /\ IsCommand(cmd[c]) /\ cmd[c].pc = "grants"
    BY RunningIsCommand DEF BuildGrants
<1>3. /\ DOMAIN r = CommandFields /\ r.pc = "approve" /\ r.id = cmd[c].id
      /\ r.stray = (cmd[c].source # session) /\ r.overtaken = cmd[c].overtaken
      /\ r.source = cmd[c].source /\ r.grants = grants
    BY <1>2 DEF IsCommand, CommandFields
<1>4. ASSUME cmd[c].source = session PROVE grants = GrantsFor(cmd[c].id, session)
    <2>1. ASSUME NEW l \in Lists, l \in HeldBy(session)
          PROVE  Holder[l] = session /\ key(l) = DerivedListKey(Deriver[l], l)
        BY <1>4, <2>1, HolderKey DEF HeldBy
    <2>2. \A l \in Lists : l \in HeldBy(session) <=> Holder[l] = session BY DEF HeldBy
    <2> HIDE DEF key
    <2>3. QED BY <2>1, <2>2 DEF GrantsFor
<1> HIDE DEF r, grants
<1>5. IsCommand(r) BY <1>2, <1>3, <1>4 DEF IsCommand
<1>6. QED BY <1>1, <1>2, <1>5, QuietKeeps
          DEF BuildGrants, NoRun, Unknown, Store, AgentsInv, MachineTyped

LEMMA ApproveKeeps ==
    ASSUME NoneIsNoValue, AgentsInv, NEW c \in Commands, Approve(c)
    PROVE  AgentsInv'
<1> DEFINE a == cmd[c].id
           e == [server[a] EXCEPT !.status = "approved", !.owner = session, !.grants = cmd[c].grants,
                                  !.stray = cmd[c].stray \/ session # cmd[c].source]
<1>1. cmd[c] # Idle /\ IsCommand(cmd[c]) /\ cmd[c].pc = "approve"
    BY RunningIsCommand DEF Approve
<1>2. a \in Enrolled /\ a \in AgentIds BY <1>1 DEF IsCommand, Enrolled
<1>3. DOMAIN server[a] = EnrollmentFields BY <1>2 DEF AgentsInv, MachineTyped, IsEnrollment
<1>4. server' = [server EXCEPT ![a] = e] /\ session # None /\ Become(c, Idle)
    BY DEF Approve
<1>5. /\ DOMAIN e = EnrollmentFields /\ e.status = "approved" /\ e.owner = session
      /\ e.grants = cmd[c].grants /\ e.stray = (cmd[c].stray \/ session # cmd[c].source)
    BY <1>3 DEF EnrollmentFields
<1>6. session \in Users BY <1>4 DEF AgentsInv, MachineTyped
<1> HIDE DEF e
<1>7. IsEnrollment(e) BY <1>5, <1>6 DEF IsEnrollment
<1>8. e.owner # None /\ ~e.stray => e.grants = GrantsFor(a, e.owner)
    BY <1>1, <1>5 DEF IsCommand
<1>9. /\ DOMAIN server' = AgentIds /\ Enrolled' = Enrolled
      /\ \A b \in Enrolled' : IsEnrollment(server'[b]) /\ Granted(b)'
    <2>1. /\ DOMAIN server' = AgentIds /\ Enrolled' = Enrolled \cup {a}
          /\ \A b \in Enrolled' : IsEnrollment(server'[b]) /\ Granted(b)'
        BY <1>2, <1>4, <1>7, <1>8, ServerChanges
    <2>2. QED BY <1>2, <2>1
<1>10. DOMAIN cmd' = Commands /\ cmd'[c] = Idle /\ \A d \in Commands \ {c} : cmd'[d] = cmd[d]
    BY <1>4 DEF Become, AgentsInv, MachineTyped
<1>11. MachineTyped'
    BY <1>9, <1>10 DEF Approve, NoRun, Store, AgentsInv, MachineTyped, IsCredentials
<1>12. SeedWithCredentials'
    <2>1. \A id : ~Between(cmd[c], id) BY <1>1 DEF Between
    <2>2. UNCHANGED <<agent, keychain, files, scarred>> BY DEF Approve, Store
    <2>3. QED BY <1>10, <2>1, <2>2, SeedStays
<1>13. CommandKnows(c)' BY <1>10 DEF CommandKnows
<1>14. QED BY <1>4, <1>9, <1>11, <1>12, <1>13, AfterReading DEF Approve, Store

LEMMA RevokeKeeps ==
    ASSUME NoneIsNoValue, AgentsInv, NEW c \in Commands, Revoke(c)
    PROVE  AgentsInv'
<1>1. PICK a \in Enrolled : server' = [server EXCEPT ![a].status = "revoked"]
    BY DEF Revoke
<1> DEFINE e == [server[a] EXCEPT !.status = "revoked"]
<1>2. a \in AgentIds /\ IsEnrollment(server[a]) /\ Granted(a)
    BY DEF AgentsInv, MachineTyped, Enrolled
<1>3. server' = [server EXCEPT ![a] = e] BY <1>1
<1>4. /\ DOMAIN e = EnrollmentFields /\ e.status = "revoked" /\ e.owner = server[a].owner
      /\ e.stray = server[a].stray /\ e.grants = server[a].grants
    BY <1>2 DEF IsEnrollment, EnrollmentFields
<1> HIDE DEF e
<1>5. IsEnrollment(e) BY <1>2, <1>4 DEF IsEnrollment
<1>6. e.owner # None /\ ~e.stray => e.grants = GrantsFor(a, e.owner) BY <1>2, <1>4 DEF Granted
<1>7. /\ DOMAIN server' = AgentIds /\ Enrolled' = Enrolled
      /\ \A b \in Enrolled' : IsEnrollment(server'[b]) /\ Granted(b)'
    <2>1. /\ DOMAIN server' = AgentIds /\ Enrolled' = Enrolled \cup {a}
          /\ \A b \in Enrolled' : IsEnrollment(server'[b]) /\ Granted(b)'
        BY <1>2, <1>3, <1>5, <1>6, ServerChanges
    <2>2. QED BY <2>1
<1>8. UNCHANGED <<session, agent, keychain, files, scarred, cmd>> BY DEF Revoke, Store
<1>9. MachineTyped' BY <1>7, <1>8 DEF AgentsInv, MachineTyped, IsCredentials
<1>10. \A d \in Commands : CommandKnows(d)' BY <1>7, <1>8, Untouched
<1>11. SeedWithCredentials' BY <1>8 DEF AgentsInv, SeedWithCredentials
<1>12. QED BY <1>9, <1>10, <1>11 DEF AgentsInv

LEMMA MintKeeps ==
    ASSUME AgentsInv, NEW c \in Commands, Mint(c)
    PROVE  AgentsInv'
<1> DEFINE credentials == Active(cmd[c].credentials, server[cmd[c].id].owner)
           r == [cmd[c] EXCEPT !.pc = "save", !.credentials = credentials]
<1>1. Become(c, r) BY DEF Mint
<1>2. cmd[c] # Idle /\ IsCommand(cmd[c]) /\ cmd[c].pc = "use"
    BY RunningIsCommand DEF Mint
<1>3. server[cmd[c].id].owner \in Users
    BY <1>2 DEF Mint, IsCommand, AgentsInv, MachineTyped, IsEnrollment
<1>4. IsCredentials(credentials) /\ credentials.id = cmd[c].id
    <2>1. IsCredentials(cmd[c].credentials) /\ cmd[c].credentials.id = cmd[c].id
        BY <1>2 DEF IsCommand
    <2>2. /\ DOMAIN credentials = AgentFields /\ credentials.id = cmd[c].id
          /\ credentials.owner = server[cmd[c].id].owner
        BY <2>1 DEF Active, IsCredentials, AgentFields
    <2>3. cmd[c].id \in Enrolled BY <1>2 DEF IsCommand
    <2>4. QED BY <1>3, <2>2, <2>3 DEF IsCredentials
<1>5. /\ DOMAIN r = CommandFields /\ r.pc = "save" /\ r.id = cmd[c].id
      /\ r.stray = cmd[c].stray /\ r.found = cmd[c].found /\ r.overtaken = cmd[c].overtaken /\ r.credentials = credentials
    BY <1>2 DEF IsCommand, CommandFields
<1> HIDE DEF r, credentials
<1>6. IsCommand(r) BY <1>2, <1>4, <1>5 DEF IsCommand
<1>7. QED BY <1>1, <1>2, <1>6, QuietKeeps
          DEF Mint, NoRun, Unknown, Store, AgentsInv, MachineTyped

LEMMA EndsKeep ==
    ASSUME AgentsInv, NEW c \in Commands, Use(c) \/ ReturnLogout(c) \/ Stop(c)
    PROVE  AgentsInv'
<1>1. CASE Use(c)
    BY <1>1, QuietKeeps DEF Use, NoRun, Unknown, Store, AgentsInv, MachineTyped
<1>2. CASE ReturnLogout(c)
    BY <1>2, QuietKeeps DEF ReturnLogout, NoRun, Unknown, Store, AgentsInv, MachineTyped
<1>3. CASE Stop(c)
    BY <1>3, QuietKeeps DEF Stop, NoRun, Unknown, Store, AgentsInv, MachineTyped
<1>4. QED BY <1>1, <1>2, <1>3

(* What holds after a step of the command c that writes                    *)
LEMMA WriteKeeps ==
    ASSUME AgentsInv, NEW c \in Commands, NEW r, Wrote(c, r) \/ Become(c, r),
           UNCHANGED <<server, session>>, agent' # None => IsCredentials(agent'),
           keychain' \subseteq Enrolled, files' \subseteq Enrolled, scarred' \in BOOLEAN
    PROVE  MachineTyped' /\ Enrolled' = Enrolled /\ cmd'[c] = r
<1>1. Enrolled' = Enrolled BY DEF Enrolled
<1>2. cmd'[c] = r /\ DOMAIN cmd' = Commands BY DEF Wrote, Become, AgentsInv, MachineTyped
<1>3. agent' # None => IsCredentials(agent)' BY <1>1 DEF IsCredentials
<1>4. QED BY <1>1, <1>2, <1>3 DEF AgentsInv, MachineTyped, IsEnrollment, Granted

LEMMA SaveRegistrationKeeps ==
    ASSUME NoneIsNoValue, AgentsInv, NEW c \in Commands, SaveRegistration(c)
    PROVE  AgentsInv'
<1> DEFINE r == [cmd[c] EXCEPT !.pc = "seed"]
<1>1. cmd[c] # Idle /\ IsCommand(cmd[c]) /\ cmd[c].pc = "register"
    BY RunningIsCommand DEF SaveRegistration
<1>2. IsCredentials(cmd[c].credentials) /\ cmd[c].credentials.id = cmd[c].id
    BY <1>1 DEF IsCommand
<1>3. Wrote(c, r) /\ agent' = cmd[c].credentials
      /\ UNCHANGED <<server, session, keychain, files, scarred>>
    BY DEF SaveRegistration, NoRun, Unknown
<1>4. /\ DOMAIN r = CommandFields /\ r.pc = "seed" /\ r.id = cmd[c].id
      /\ r.stray = cmd[c].stray /\ r.found = cmd[c].found /\ r.overtaken = cmd[c].overtaken
      /\ r.credentials = cmd[c].credentials
    BY <1>1 DEF IsCommand, CommandFields
<1> HIDE DEF r
<1>5. MachineTyped' /\ Enrolled' = Enrolled /\ cmd'[c] = r
    BY <1>2, <1>3, WriteKeeps DEF AgentsInv, MachineTyped
<1>6. agent' # None
    <2>1. cmd[c].credentials # None BY <1>2 DEF IsCredentials, NoneIsNoValue
    <2>2. QED BY <1>3, <2>1
<1>7. IsCommand(cmd[c])'
    BY <1>1, <1>2, <1>3, <1>4, <1>5, <1>6 DEF IsCommand, IsCredentials
<1>8. SeedWithCredentials'
    BY <1>2, <1>3, <1>4, <1>5 DEF SeedWithCredentials, Idle, CommandFields
<1>9. QED BY <1>3, <1>5, <1>7, <1>8, AfterWriting DEF CommandKnows

(* The seed is written or removed by the command c, agent.json is not.     *)
LEMMA SeedStepsKeep ==
    ASSUME AgentsInv, NEW c \in Commands, SaveSeed(c) \/ FailSeed(c) \/ ClearSeed(c)
    PROVE  AgentsInv'
<1>1. cmd[c] # Idle /\ IsCommand(cmd[c])
    BY RunningIsCommand DEF SaveSeed, FailSeed, ClearSeed
<1>2. \A d \in Commands \ {c} :
         Wrote(c, cmd'[c]) => cmd'[d] = IF cmd[d] = Idle THEN Idle ELSE [cmd[d] EXCEPT !.overtaken = TRUE]
    BY DEF Wrote
<1>3. UNCHANGED <<server, session, agent, scarred>>
    BY DEF SaveSeed, FailSeed, ClearSeed, NoRun, Unknown
<1>4. CASE SaveSeed(c)
    <2>1. Wrote(c, Idle) /\ cmd[c].pc = "seed" BY <1>4 DEF SaveSeed
    <2>2. /\ keychain' \cup files' = keychain \cup files \cup {cmd[c].id} \/ cmd[c].id \in keychain' \cup files'
          /\ \A id : id \in keychain \cup files => id \in keychain' \cup files'
          /\ cmd[c].id \in keychain' \cup files'
          /\ keychain' \subseteq keychain \cup {cmd[c].id} /\ files' \subseteq files \cup {cmd[c].id}
        BY <1>4 DEF SaveSeed
    <2>3. cmd[c].id \in Enrolled BY <1>1, <2>1 DEF IsCommand
    <2>4. MachineTyped' /\ Enrolled' = Enrolled /\ cmd'[c] = Idle
        BY <1>3, <2>1, <2>2, <2>3, WriteKeeps DEF AgentsInv, MachineTyped, IsCredentials
    <2>5. \A id : id \in keychain \cup files \/ Between(cmd[c], id) => id \in keychain' \cup files'
        BY <2>2 DEF Between
    <2>6. SeedWithCredentials' BY <1>2, <1>3, <2>1, <2>4, <2>5, SeedStays
    <2>7. QED BY <2>1, <2>4, <2>6, AfterWriting DEF CommandKnows
<1>5. CASE FailSeed(c)
    <2> DEFINE r == [cmd[c] EXCEPT !.pc = "cleanup"]
    <2>1. Wrote(c, r) /\ cmd[c].pc = "seed" BY <1>5 DEF FailSeed
    <2>2. cmd[c].id \in Enrolled BY <1>1, <2>1 DEF IsCommand
    <2>3. /\ keychain \subseteq keychain' /\ files' = files
          /\ keychain' \subseteq keychain \cup {cmd[c].id}
        BY <1>5 DEF FailSeed
    <2>4. /\ DOMAIN r = CommandFields /\ r.pc = "cleanup" /\ r.id = cmd[c].id
          /\ r.stray = cmd[c].stray /\ r.found = cmd[c].found /\ r.overtaken = cmd[c].overtaken
          /\ r.credentials = cmd[c].credentials
        BY <1>1 DEF IsCommand, CommandFields
    <2> HIDE DEF r
    <2>5. MachineTyped' /\ Enrolled' = Enrolled /\ cmd'[c] = r
        BY <1>3, <2>1, <2>2, <2>3, WriteKeeps DEF AgentsInv, MachineTyped, IsCredentials
    <2>6. IsCommand(cmd[c])'
        BY <1>1, <1>3, <2>1, <2>4, <2>5 DEF IsCommand, IsCredentials
    <2>7. \A id : Between(cmd[c], id) => Between(cmd'[c], id)
        BY <2>4, <2>5 DEF Between, Idle, CommandFields
    <2>8. SeedWithCredentials' BY <1>2, <1>3, <2>1, <2>3, <2>5, <2>7, SeedStays
    <2>9. QED BY <2>1, <2>5, <2>6, <2>8, AfterWriting DEF CommandKnows
<1>6. CASE ClearSeed(c)
    <2> DEFINE r(reached) == [cmd[c] EXCEPT !.pc = "remove", !.skipped = ~reached]
    <2>1. PICK reached \in BOOLEAN :
             /\ keychain' = IF reached THEN keychain \ {cmd[c].id} ELSE keychain
             /\ files' = files \ {cmd[c].id}
             /\ Wrote(c, r(reached))
        BY <1>6 DEF ClearSeed
    <2>2. cmd[c].pc = "clear" BY <1>6 DEF ClearSeed
    <2>3. /\ DOMAIN r(reached) = CommandFields /\ r(reached).pc = "remove" /\ r(reached).id = cmd[c].id
          /\ r(reached).stray = cmd[c].stray /\ r(reached).found = cmd[c].found /\ r(reached).overtaken = cmd[c].overtaken
          /\ r(reached).credentials = cmd[c].credentials /\ r(reached).skipped = ~reached
        BY <1>1 DEF IsCommand, CommandFields
    <2> HIDE DEF r
    <2>4. MachineTyped' /\ Enrolled' = Enrolled /\ cmd'[c] = r(reached)
        BY <1>3, <2>1, WriteKeeps DEF AgentsInv, MachineTyped, IsCredentials
    <2>5. IsCommand(cmd[c])'
        BY <1>1, <1>3, <2>1, <2>2, <2>3, <2>4 DEF IsCommand, IsCredentials
    <2>6. /\ \A id : ~Between(cmd[c], id)
          /\ Between(cmd'[c], cmd[c].id)
          /\ \A id : id \in keychain \cup files => id \in keychain' \cup files' \/ id = cmd[c].id
        BY <2>1, <2>2, <2>3, <2>4 DEF Between, Idle, CommandFields
    <2>7. SeedWithCredentials' BY <1>2, <1>3, <2>1, <2>4, <2>6, SeedStays
    <2>8. QED BY <2>1, <2>4, <2>5, <2>7, AfterWriting DEF CommandKnows
<1>7. QED BY <1>4, <1>5, <1>6

(* agent.json goes.                                                        *)
LEMMA RemovalKeeps ==
    ASSUME AgentsInv, NEW c \in Commands, ClearRegistration(c) \/ RemoveAgent(c)
    PROVE  AgentsInv'
<1>1. cmd[c] # Idle /\ IsCommand(cmd[c])
    BY RunningIsCommand DEF ClearRegistration, RemoveAgent
<1>2. agent' = None /\ UNCHANGED <<server, session, keychain, files, scarred>>
    BY DEF ClearRegistration, RemoveAgent, NoRun, Unknown
<1>3. SeedWithCredentials' BY <1>2 DEF SeedWithCredentials
<1>4. CASE ClearRegistration(c)
    <2>1. Wrote(c, Idle) BY <1>4 DEF ClearRegistration
    <2>2. MachineTyped' /\ Enrolled' = Enrolled /\ cmd'[c] = Idle
        BY <1>2, <2>1, WriteKeeps DEF AgentsInv, MachineTyped
    <2>3. QED BY <1>3, <2>1, <2>2, AfterWriting DEF CommandKnows
<1>5. CASE RemoveAgent(c)
    <2> DEFINE r == [cmd[c] EXCEPT !.pc = "loggedout"]
    <2>1. Wrote(c, r) /\ cmd[c].pc = "remove" BY <1>5 DEF RemoveAgent
    <2>2. /\ DOMAIN r = CommandFields /\ r.pc = "loggedout" /\ r.id = cmd[c].id
          /\ r.stray = cmd[c].stray /\ r.found = cmd[c].found /\ r.overtaken = cmd[c].overtaken
          /\ r.warned = cmd[c].warned /\ r.skipped = cmd[c].skipped
        BY <1>1 DEF IsCommand, CommandFields
    <2> HIDE DEF r
    <2>3. MachineTyped' /\ Enrolled' = Enrolled /\ cmd'[c] = r
        BY <1>2, <2>1, WriteKeeps DEF AgentsInv, MachineTyped
    <2>4. IsCommand(cmd[c])' BY <1>1, <1>2, <2>1, <2>2, <2>3 DEF IsCommand
    <2>5. QED BY <1>3, <2>1, <2>3, <2>4, AfterWriting DEF CommandKnows
<1>6. QED BY <1>4, <1>5

LEMMA SaveTokenKeeps ==
    ASSUME NoneIsNoValue, AgentsInv, NEW c \in Commands, SaveToken(c)
    PROVE  AgentsInv'
<1> DEFINE r == [cmd[c] EXCEPT !.pc = "use"]
<1>1. cmd[c] # Idle /\ IsCommand(cmd[c]) /\ cmd[c].pc = "save"
    BY RunningIsCommand DEF SaveToken
<1>2. IsCredentials(cmd[c].credentials) /\ cmd[c].credentials.id = cmd[c].id
    BY <1>1 DEF IsCommand
<1>3. /\ Wrote(c, r) /\ agent' = cmd[c].credentials /\ scarred' = (scarred \/ cmd[c].overtaken)
      /\ UNCHANGED <<server, session, keychain, files>>
    BY DEF SaveToken, NoRun, Unknown
<1>4. /\ DOMAIN r = CommandFields /\ r.pc = "use" /\ r.id = cmd[c].id
      /\ r.stray = cmd[c].stray /\ r.found = cmd[c].found /\ r.overtaken = cmd[c].overtaken
      /\ r.credentials = cmd[c].credentials
    BY <1>1 DEF IsCommand, CommandFields
<1> HIDE DEF r
<1>5. scarred \in BOOLEAN /\ cmd[c].overtaken \in BOOLEAN
    BY <1>1 DEF AgentsInv, MachineTyped, IsCommand
<1>6. MachineTyped' /\ Enrolled' = Enrolled /\ cmd'[c] = r
    BY <1>2, <1>3, <1>5, WriteKeeps DEF AgentsInv, MachineTyped
<1>7. agent' # None
    <2>1. cmd[c].credentials # None BY <1>2 DEF IsCredentials, NoneIsNoValue
    <2>2. QED BY <1>3, <2>1
<1>8. IsCommand(cmd[c])'
    BY <1>1, <1>2, <1>3, <1>4, <1>6, <1>7 DEF IsCommand, IsCredentials
<1>9. ~scarred' => agent # None /\ ~scarred /\ agent'.id = agent.id
    BY <1>1, <1>2, <1>3 DEF IsCommand
<1>10. \A id : ~Between(cmd[c], id) BY <1>1 DEF Between
<1>11. \A d \in Commands \ {c} :
          cmd'[d] = IF cmd[d] = Idle THEN Idle ELSE [cmd[d] EXCEPT !.overtaken = TRUE]
    BY <1>3 DEF Wrote
<1>12. SeedWithCredentials' BY <1>3, <1>9, <1>10, <1>11, SeedStays
<1>13. QED BY <1>3, <1>6, <1>8, <1>12, AfterWriting DEF CommandKnows

LEMMA WarnSeedKeeps ==
    ASSUME AgentsInv, NEW c \in Commands, WarnSeed(c)
    PROVE  AgentsInv'
<1> DEFINE r == [cmd[c] EXCEPT !.pc = "remove", !.warned = TRUE]
<1>1. cmd[c] # Idle /\ IsCommand(cmd[c]) /\ cmd[c].pc = "clear"
    BY RunningIsCommand DEF WarnSeed
<1>2. Become(c, r) /\ UNCHANGED <<server, session, agent, files, scarred>>
    BY DEF WarnSeed, NoRun, Unknown
<1>3. keychain' \subseteq keychain /\ keychain \subseteq keychain' \cup {cmd[c].id}
    BY DEF WarnSeed
<1>4. /\ DOMAIN r = CommandFields /\ r.pc = "remove" /\ r.id = cmd[c].id
      /\ r.stray = cmd[c].stray /\ r.found = cmd[c].found /\ r.overtaken = cmd[c].overtaken
      /\ r.credentials = cmd[c].credentials /\ r.warned = TRUE
    BY <1>1 DEF IsCommand, CommandFields
<1> HIDE DEF r
<1>5. MachineTyped' /\ Enrolled' = Enrolled /\ cmd'[c] = r
    BY <1>2, <1>3, WriteKeeps DEF AgentsInv, MachineTyped, IsCredentials
<1>6. IsCommand(cmd[c])' BY <1>1, <1>2, <1>4, <1>5 DEF IsCommand, IsCredentials
<1>7. \A d \in Commands \ {c} : cmd'[d] = cmd[d] BY <1>2 DEF Become, AgentsInv, MachineTyped
<1>8. /\ \A id : ~Between(cmd[c], id)
      /\ Between(cmd'[c], cmd[c].id)
    BY <1>1, <1>4, <1>5 DEF Between, Idle, CommandFields
<1>9. \A id : id \in keychain \cup files \/ Between(cmd[c], id) =>
                 id \in keychain' \cup files' \/ Between(cmd'[c], id)
    BY <1>2, <1>3, <1>8
<1>10. SeedWithCredentials' BY <1>2, <1>7, <1>9, SeedStays
<1>11. QED BY <1>2, <1>3, <1>5, <1>6, <1>10, AfterReading DEF CommandKnows

LEMMA OthersKeep ==
    ASSUME NoneIsNoValue, AgentsInv, ChangeUser \/ Age \/ UNCHANGED agentVars
    PROVE  AgentsInv'
<1>1. /\ UNCHANGED <<server, cmd, scarred, keychain, files>> /\ session' \in Users \cup {None}
      /\ agent = None <=> agent' = None
      /\ agent # None => agent'.id = agent.id /\ IsCredentials(agent')
    <2>1. CASE Age
        <3>1. agent # None /\ IsCredentials(agent) /\ agent' = [agent EXCEPT !.token = "stale"] /\ agent.token = "fresh"
            BY <2>1 DEF Age, AgentsInv, MachineTyped
        <3>2. /\ DOMAIN agent' = AgentFields /\ agent'.id = agent.id /\ agent'.owner = agent.owner
              /\ agent'.token = "stale"
            BY <3>1 DEF IsCredentials, AgentFields
        <3>3. agent.owner \in Users
            <4>1. agent.token # None => agent.owner \in Users BY <3>1 DEF IsCredentials
            <4>2. agent.token # None BY <3>1 DEF NoneIsNoValue
            <4>3. QED BY <4>1, <4>2
        <3>4. agent' # None BY <3>2 DEF NoneIsNoValue
        <3>5. QED BY <2>1, <3>1, <3>2, <3>3, <3>4 DEF Age, NoRun, IsCredentials, AgentsInv, MachineTyped
    <2>2. CASE ChangeUser
        BY <2>2 DEF ChangeUser, Store, AgentsInv, MachineTyped
    <2>3. CASE UNCHANGED agentVars
        BY <2>3 DEF agentVars, AgentsInv, MachineTyped
    <2>4. QED BY <2>1, <2>2, <2>3
<1>2. Enrolled' = Enrolled BY <1>1 DEF Enrolled
<1>3. MachineTyped'
    BY <1>1, <1>2 DEF AgentsInv, MachineTyped, IsCredentials, IsEnrollment, Granted
<1>4. \A d \in Commands : CommandKnows(d)' BY <1>1, <1>2, Untouched
<1>5. SeedWithCredentials' BY <1>1 DEF AgentsInv, SeedWithCredentials
<1>6. QED BY <1>3, <1>4, <1>5 DEF AgentsInv

(* The invariant of the agents' commands: the types, what every command    *)
(* knows, and the seed beside the registration                             *)
THEOREM AgentsInvariant ==
    ASSUME NoneIsNoValue
    PROVE  AgentsSpec => []AgentsInv
<1>1. ASSUME AgentsInit PROVE AgentsInv
    <2>1. Enrolled = {} BY <1>1 DEF AgentsInit, Enrolled
    <2>2. DOMAIN server = AgentIds /\ DOMAIN cmd = Commands /\ \A c \in Commands : cmd[c] = Idle
        BY <1>1 DEF AgentsInit
    <2>3. QED BY <1>1, <2>1, <2>2 DEF AgentsInit, AgentsInv, MachineTyped, CommandKnows, SeedWithCredentials
<1>2. ASSUME AgentsInv, [AgentsNext]_agentVars PROVE AgentsInv'
    <2>1. ASSUME NEW c \in Commands,
                 StartRegister(c) \/ StartApprove(c) \/ StartUse(c) \/ StartLogout(c)
          PROVE  AgentsInv'
        BY <1>2, <2>1, StartsKeep
    <2>2. ASSUME NEW c \in Commands, Enroll(c) PROVE AgentsInv'
        BY <1>2, <2>2, EnrollKeeps
    <2>3. ASSUME NEW c \in Commands, SaveRegistration(c) PROVE AgentsInv'
        BY <1>2, <2>3, SaveRegistrationKeeps
    <2>4. ASSUME NEW c \in Commands, SaveSeed(c) \/ FailSeed(c) \/ ClearSeed(c) PROVE AgentsInv'
        BY <1>2, <2>4, SeedStepsKeep
    <2>5. ASSUME NEW c \in Commands, ClearRegistration(c) \/ RemoveAgent(c) PROVE AgentsInv'
        BY <1>2, <2>5, RemovalKeeps
    <2>6. ASSUME NEW c \in Commands, BuildGrants(c) PROVE AgentsInv'
        BY <1>2, <2>6, BuildGrantsKeeps
    <2>7. ASSUME NEW c \in Commands, Approve(c) PROVE AgentsInv'
        BY <1>2, <2>7, ApproveKeeps
    <2>8. ASSUME NEW c \in Commands, Revoke(c) PROVE AgentsInv'
        BY <1>2, <2>8, RevokeKeeps
    <2>9. ASSUME NEW c \in Commands, Mint(c) PROVE AgentsInv'
        BY <1>2, <2>9, MintKeeps
    <2>10. ASSUME NEW c \in Commands, SaveToken(c) PROVE AgentsInv'
        BY <1>2, <2>10, SaveTokenKeeps
    <2>11. ASSUME NEW c \in Commands, WarnSeed(c) PROVE AgentsInv'
        BY <1>2, <2>11, WarnSeedKeeps
    <2>12. ASSUME NEW c \in Commands, Use(c) \/ ReturnLogout(c) \/ Stop(c) PROVE AgentsInv'
        BY <1>2, <2>12, EndsKeep
    <2>13. CASE ChangeUser \/ Age \/ UNCHANGED agentVars
        BY <1>2, <2>13, OthersKeep
    <2>14. QED BY <1>2, <2>1, <2>2, <2>3, <2>4, <2>5, <2>6, <2>7, <2>8, <2>9, <2>10, <2>11, <2>12, <2>13
               DEF AgentsNext
<1>3. QED BY <1>1, <1>2, PTL DEF AgentsSpec

(* Whatever commands run, stop or overtake each other, agent.json never    *)
(* has a token without the owner, and no seed is of an unknown agent.      *)
THEOREM AgentsAreTyped ==
    ASSUME NoneIsNoValue
    PROVE  AgentsSpec => []AgentsTyped
<1>1. AgentsInv => AgentsTyped BY DEF AgentsInv, MachineTyped, IsCredentials, AgentsTyped
<1>2. QED BY <1>1, AgentsInvariant, PTL

(* The registration in agent.json has its seed, or a command is between    *)
(* its two writes, or one was stopped there or wrote over a newer file.    *)
THEOREM SeedIsThere ==
    ASSUME NoneIsNoValue
    PROVE  AgentsSpec => []SeedWithCredentials
<1>1. AgentsInv => SeedWithCredentials BY DEF AgentsInv
<1>2. QED BY <1>1, AgentsInvariant, PTL

(* A logout that warned of nothing, reached the keychain and was not       *)
(* overtaken has left no seed, with any number of other commands.          *)
THEOREM LogoutForgotSeed ==
    ASSUME NoneIsNoValue
    PROVE  AgentsSpec => []LogoutForgetsSeed
<1>1. AgentsInv => LogoutForgetsSeed
    <2> SUFFICES ASSUME AgentsInv, NEW c \in Commands, cmd[c].pc = "loggedout"
                 PROVE  ~cmd[c].warned /\ ~cmd[c].skipped /\ ~cmd[c].overtaken =>
                            cmd[c].id \notin keychain \cup files
        BY DEF LogoutForgetsSeed
    <2>1. IsCommand(cmd[c]) BY RunningIsCommand
    <2>2. QED BY <2>1 DEF IsCommand
<1>2. QED BY <1>1, AgentsInvariant, PTL

(* Every grant that the server keeps opens with the agent's key to the key *)
(* of its list, and there is one for each list that the approver owns.     *)
THEOREM GrantsOpen ==
    ASSUME NoneIsNoValue
    PROVE  AgentsSpec => []GrantsGiveListKey
<1>1. AgentsInv => GrantsGiveListKey
    <2> SUFFICES ASSUME AgentsInv, NEW a \in Enrolled, NEW l \in Lists,
                        server[a].owner # None, ~server[a].stray
                 PROVE  OpenGrant(a, l, server[a].grants[l]) =
                            IF Holder[l] = server[a].owner THEN DerivedListKey(Deriver[l], l) ELSE None
        BY DEF GrantsGiveListKey
    <2>1. server[a].grants = GrantsFor(a, server[a].owner)
        BY DEF AgentsInv, MachineTyped, Granted
    <2>2. CASE Holder[l] # server[a].owner
        <3>1. server[a].grants[l] = None BY <2>1, <2>2 DEF GrantsFor
        <3>2. QED BY <2>2, <3>1 DEF OpenGrant, Open
    <2>3. CASE Holder[l] = server[a].owner
        <3>1. server[a].grants[l] = SealGrant(a, l, DerivedListKey(Deriver[l], l))
            BY <2>1, <2>3 DEF GrantsFor
        <3>2. QED BY <2>3, <3>1 DEF OpenGrant, SealGrant, NoneIsNoValue, Open, Seal
    <2>4. QED BY <2>2, <2>3
<1>2. QED BY <1>1, AgentsInvariant, PTL

(* The command that replaces or removes the registration, the one whose    *)
(* step it is, is about this agent, or did not find it in agent.json when  *)
(* it looked: what was there before a command is safe from it.             *)
THEOREM RegistrationsKept ==
    ASSUME NoneIsNoValue
    PROVE  AgentsSpec => RegistrationKept
<1> DEFINE Replaced == agent # None /\ (IF agent' = None THEN TRUE ELSE agent'.id # agent.id)
           Entitled == \E c \in Commands :
                          Writes(c) /\ (cmd[c].id = agent.id \/ cmd[c].found # agent.id)
<1>1. ASSUME AgentsInv, AgentsNext, Replaced PROVE Entitled
    <2>1. ASSUME NEW c \in Commands,
                 SaveRegistration(c) \/ ClearRegistration(c) \/ SaveToken(c) \/ RemoveAgent(c)
          PROVE  Entitled
        <3>1. cmd[c] # Idle /\ IsCommand(cmd[c])
              /\ cmd[c].pc \in {"register", "cleanup", "save", "remove"}
            BY <1>1, <2>1, RunningIsCommand
               DEF SaveRegistration, ClearRegistration, SaveToken, RemoveAgent
        <3>2. cmd[c].found \in {0, cmd[c].id} BY <3>1 DEF IsCommand
        <3>3. agent.id # 0
            BY <1>1 DEF AgentsInv, MachineTyped, IsCredentials, Enrolled, AgentIds
        <3>4. cmd[c].id = agent.id \/ cmd[c].found # agent.id BY <3>2, <3>3
        <3>5. DOMAIN cmd[c] = CommandFields BY <3>1 DEF IsCommand
        <3>6. Writes(c)
            BY <2>1, <3>1, <3>5 DEF SaveRegistration, ClearRegistration, SaveToken, RemoveAgent, Wrote,
                                    Idle, CommandFields, Writes
        <3>7. QED BY <3>4, <3>6
    <2>2. ASSUME NEW c \in Commands,
                 \/ StartRegister(c) \/ Enroll(c) \/ SaveSeed(c) \/ FailSeed(c)
                 \/ StartApprove(c) \/ BuildGrants(c) \/ Approve(c) \/ Revoke(c)
                 \/ StartUse(c) \/ Mint(c) \/ Use(c)
                 \/ StartLogout(c) \/ ClearSeed(c) \/ WarnSeed(c) \/ ReturnLogout(c) \/ Stop(c)
          PROVE  FALSE
        <3>1. agent' = agent
            BY <2>2 DEF StartRegister, Enroll, SaveSeed, FailSeed, StartApprove, BuildGrants, Approve,
                        Revoke, StartUse, Mint, Use, StartLogout, ClearSeed, WarnSeed, ReturnLogout,
                        Stop, Launch, Store
        <3>2. QED BY <1>1, <3>1
    <2>3. CASE ChangeUser BY <1>1, <2>3 DEF ChangeUser, Store
    <2>4. CASE Age
        <3>1. agent'.id = agent.id /\ agent' # None
            BY <1>1, <2>4 DEF Age, AgentsInv, MachineTyped, IsCredentials, AgentFields, NoneIsNoValue
        <3>2. QED BY <1>1, <3>1
    <2>5. QED BY <1>1, <2>1, <2>2, <2>3, <2>4 DEF AgentsNext
<1>2. AgentsInv /\ [AgentsNext]_agentVars => [Replaced => Entitled]_agentVars
    BY <1>1 DEF agentVars
<1>3. QED BY <1>2, AgentsInvariant, PTL DEF AgentsSpec, RegistrationKept

----------------------------------------------------------------------------
(* Tasks *)

TaskCommandFields ==
    {"pc", "name", "id", "list", "title", "text", "source", "token", "key", "base",
     "overtaken", "witnessed", "shown"}

IsSealed(sealed, context) ==
    DOMAIN sealed = SealedFields /\ sealed.context = context

(* The files that the payload of a task refers to                          *)
Referred(key, body) == {BlobRef(key, a) : a \in body.attachments}

IsStored(task) ==
    /\ DOMAIN task = TaskFields
    /\ task.list \in Lists
    /\ IsSealed(task.title, "title") /\ IsSealed(task.payload, "task")
    /\ DOMAIN task.payload.body = {"title", "text", "attachments"}
    /\ task.torn \in BOOLEAN /\ task.stray \in BOOLEAN
    /\ ~task.stray => task.title.key = ListKey(task.list) /\ task.payload.key = ListKey(task.list)
    /\ ~task.torn =>
          /\ task.title.body = task.payload.body.title
          /\ Referred(task.payload.key, task.payload.body) = task.files

IsComment(comment, list) ==
    /\ DOMAIN comment = CommentFields
    /\ IsSealed(comment.body, "comment")
    /\ DOMAIN comment.body.body = {"text", "mentions"}
    /\ comment.stray \in BOOLEAN
    /\ ~comment.stray => comment.body.key = ListKey(list)

ContentsTyped ==
    /\ principal \in Principals \cup {None}
    /\ DOMAIN tasks = TaskIds /\ DOMAIN comments = TaskIds /\ DOMAIN cmd = Commands
    /\ \A i \in Existing : IsStored(tasks[i]) /\ (comments[i] # None => IsComment(comments[i], tasks[i].list))
    /\ \A i \in TaskIds : comments[i] # None => i \in Existing

(* What a command that did not stray has is the key of its list; what an   *)
(* update that nothing overtook is about to write over is what it read.    *)
IsTaskCommand(r) ==
    /\ DOMAIN r = TaskCommandFields
    /\ r.list \in Lists
    /\ r.source \in Principals
    /\ r.overtaken \in BOOLEAN
    /\ r.name # "create" =>
          /\ r.id \in TaskIds \ Unused
          /\ r.id \in Existing => tasks[r.id].list = r.list
    /\ r.pc \notin {"connect", "fetch"} /\ r.name = "accept" => r.pc = "send" \/ r.witnessed
    /\ r.pc # "connect" /\ r.name \in NeedKey =>
          r.key # None /\ (r.source = r.token => r.key = ListKey(r.list))
    /\ r.name = "create" => r.title \in Titles \cup {"blank"} /\ r.text \in Texts \cup {None}
    /\ r.name = "create" /\ r.pc # "connect" => r.title # "blank"
    /\ r.name = "update" => r.title \in Given(Titles) /\ r.text \in Given(Texts)
    /\ r.name = "update" /\ r.pc = "send" =>
          /\ r.title # "blank"
          /\ DOMAIN r.base = {"title", "text", "attachments"}
          /\ r.id \in Existing /\ ~r.overtaken =>
                tasks[r.id].payload.key = r.key /\ tasks[r.id].payload.body = r.base
    /\ r.name = "recomment" /\ r.pc = "send" =>
          /\ DOMAIN r.base = {"text", "mentions"}
          /\ r.id \in Existing /\ <<"comment", r.id>> \notin retired /\ ~r.overtaken =>
                /\ comments[r.id] # None
                /\ comments[r.id].body.key = r.key /\ comments[r.id].body.body = r.base

TaskCommandKnows(c) == cmd[c] = Idle \/ IsTaskCommand(cmd[c])

TasksInv ==
    /\ ContentsTyped
    /\ \A i \in Existing : <<"task", i>> \notin retired
    /\ \A i \in Existing : comments[i] # None => <<"comment", i>> \notin retired
    /\ \A c \in Commands : TaskCommandKnows(c)

(* A command that runs is not idle.                                        *)
LEMMA TaskRuns ==
    ASSUME TasksInv, NEW c \in Commands, cmd[c].pc # "idle"
    PROVE  cmd[c] # Idle /\ IsTaskCommand(cmd[c])
BY DEF TasksInv, TaskCommandKnows, Idle

(* Whoever the list is shown to finds its key with what he has.            *)
LEMMA ResolvedKey ==
    ASSUME NoneIsNoValue, NEW l \in Lists, NEW p \in Members[l]
    PROVE  Resolve(p, p, l) = ListKey(l)
<1> DEFINE key == DerivedListKey(Deriver[l], l)
<1>1. Membership[p][l] = IF p = Deriver[l] THEN None
                         ELSE IF p \in Users THEN SealMembership(p, key) ELSE SealGrant(p, l, key)
    BY MembersAssumption
<1>2. CASE p \in Users /\ p = Deriver[l]
    BY <1>1, <1>2 DEF Resolve, UserListKey, ListKey
<1>3. CASE p \in Users /\ p # Deriver[l]
    <2>1. Membership[p][l] = Seal(DataKey(p), "membership", key)
        BY <1>1, <1>3 DEF SealMembership
    <2>2. Open(DataKey(p), "membership", Seal(DataKey(p), "membership", key)) = key
        <3>1. DataKey(p) # None /\ Seal(DataKey(p), "membership", key) # None BY DEF NoneIsNoValue
        <3>2. QED BY <3>1 DEF Open, Seal
    <2>3. Seal(DataKey(p), "membership", key) # None BY DEF NoneIsNoValue
    <2>4. QED BY <1>3, <2>1, <2>2, <2>3 DEF Resolve, UserListKey, ListKey
<1>4. CASE p \notin Users
    <2>1. p # Deriver[l] BY <1>4, DeriverAssumption
    <2>2. Membership[p][l] = Seal(RecipientKey(p), <<"grant", l>>, key)
        BY <1>1, <1>4, <2>1 DEF SealGrant
    <2>3. RecipientKey(p) # None /\ Seal(RecipientKey(p), <<"grant", l>>, key) # None
        BY DEF NoneIsNoValue
    <2>4. Open(RecipientKey(p), <<"grant", l>>, Seal(RecipientKey(p), <<"grant", l>>, key)) = key
        BY <2>3 DEF Open, Seal
    <2>5. QED BY <1>4, <2>2, <2>4 DEF Resolve, OpenGrant, ListKey
<1>5. QED BY <1>2, <1>3, <1>4

(* What is opened with the key it is sealed with                           *)
LEMMA OpenSealed ==
    ASSUME NoneIsNoValue, NEW key, key # None, NEW context, NEW body
    PROVE  Open(key, context, Seal(key, context, body)) = body
BY DEF Open, Seal, NoneIsNoValue

(* Ids that are used stay so, and what a command has not seen overtaken    *)
(* stays as it is.                                                         *)
Lasting ==
    /\ \A i \in TaskIds \ Unused :
          /\ i \notin Unused'
          /\ i \in Existing' => i \in Existing /\ tasks'[i].list = tasks[i].list
    /\ retired \subseteq retired'

Unseen(r) ==
    /\ r.name = "update" /\ r.pc = "send" /\ ~r.overtaken /\ r.id \in Existing' =>
          tasks'[r.id].payload = tasks[r.id].payload
    /\ r.name = "recomment" /\ r.pc = "send" /\ ~r.overtaken /\ r.id \in Existing'
          /\ <<"comment", r.id>> \notin retired' =>
          comments'[r.id] = comments[r.id]

LEMMA TaskCommandStays ==
    ASSUME TasksInv, NEW d \in Commands, Lasting, Unseen(cmd'[d]),
           \/ cmd'[d] = cmd[d]
           \/ cmd[d] # Idle /\ cmd'[d] = [cmd[d] EXCEPT !.overtaken = TRUE]
    PROVE  TaskCommandKnows(d)'
<1>1. CASE cmd[d] = Idle BY <1>1 DEF TaskCommandKnows
<1>2. CASE cmd[d] # Idle
    <2> DEFINE old == cmd[d]
               new == cmd'[d]
    <2>1. IsTaskCommand(old) BY <1>2 DEF TasksInv, TaskCommandKnows
    <2>2. /\ DOMAIN new = TaskCommandFields
          /\ \A field \in TaskCommandFields \ {"overtaken"} : new[field] = old[field]
          /\ new.overtaken = old.overtaken \/ new.overtaken = TRUE
        BY <1>2, <2>1 DEF IsTaskCommand, TaskCommandFields
    <2>3. /\ new.pc = old.pc /\ new.name = old.name /\ new.id = old.id /\ new.list = old.list
          /\ new.title = old.title /\ new.text = old.text /\ new.source = old.source
          /\ new.token = old.token /\ new.key = old.key /\ new.base = old.base
          /\ new.witnessed = old.witnessed
        BY <2>2 DEF TaskCommandFields
    <2>4. new.overtaken \in BOOLEAN /\ (~new.overtaken => ~old.overtaken)
        BY <2>1, <2>2 DEF IsTaskCommand
    <2>5. IsTaskCommand(cmd[d])'
        BY <2>1, <2>2, <2>3, <2>4 DEF IsTaskCommand, Lasting, Unseen
    <2>6. QED BY <2>5 DEF TaskCommandKnows
<1>3. QED BY <1>1, <1>2

(* A step that changes nothing but what the command c knows                *)
LEMMA TaskQuiet ==
    ASSUME TasksInv, NEW c \in Commands, NEW r, Become(c, r), UNCHANGED <<tasks, comments, retired>>,
           principal' \in Principals \cup {None}, r = Idle \/ IsTaskCommand(r)
    PROVE  TasksInv'
<1>1. cmd'[c] = r /\ DOMAIN cmd' = Commands /\ \A d \in Commands \ {c} : cmd'[d] = cmd[d]
    BY DEF Become, TasksInv, ContentsTyped
<1>2. Existing' = Existing /\ Unused' = Unused BY DEF Existing, Unused
<1>3. ContentsTyped' BY <1>1, <1>2 DEF TasksInv, ContentsTyped
<1>4. ASSUME NEW d \in Commands PROVE TaskCommandKnows(d)'
    <2>1. CASE d = c
        <3>1. IsTaskCommand(r) => IsTaskCommand(cmd[c])' BY <1>1, <1>2 DEF IsTaskCommand
        <3>2. QED BY <1>1, <2>1, <3>1 DEF TaskCommandKnows
    <2>2. CASE d # c
        <3>1. cmd'[d] = cmd[d] BY <1>1, <2>2
        <3>2. Lasting /\ Unseen(cmd'[d]) BY <1>2 DEF Lasting, Unseen
        <3>3. QED BY <3>1, <3>2, TaskCommandStays
    <2>3. QED BY <2>1, <2>2
<1>5. QED BY <1>2, <1>3, <1>4 DEF TasksInv

(* The record of a command that begins                                     *)
LEMMA TaskCommandBegins ==
    ASSUME TasksInv, NEW name, NEW id, NEW l \in Lists, NEW title, NEW text,
           principal # None,
           name # "create" => id \in Existing /\ tasks[id].list = l,
           name = "create" => title \in Titles \cup {"blank"} /\ text \in Texts \cup {None},
           name = "update" => title \in Given(Titles) /\ text \in Given(Texts)
    PROVE  IsTaskCommand(TaskCommand(name, id, l, title, text))
<1> DEFINE r == TaskCommand(name, id, l, title, text)
<1>1. /\ DOMAIN r = TaskCommandFields /\ r.pc = "connect" /\ r.name = name /\ r.id = id /\ r.list = l
      /\ r.title = title /\ r.text = text /\ r.source = principal /\ r.overtaken \in BOOLEAN
    BY DEF TaskCommand, TaskCommandFields
<1>2. principal \in Principals BY DEF TasksInv, ContentsTyped
<1> HIDE DEF r
<1>3. IsTaskCommand(r) BY <1>1, <1>2 DEF IsTaskCommand, Existing, Unused
<1>4. QED BY <1>3 DEF r

LEMMA StartKeeps ==
    ASSUME TasksInv, NEW c \in Commands, Start(c)
    PROVE  TasksInv'
<1>1. ASSUME NEW name, NEW id, NEW l \in Lists, NEW title, NEW text, Issue(c, name, id, l, title, text),
             name # "create" => id \in Existing /\ tasks[id].list = l,
             name = "create" => title \in Titles \cup {"blank"} /\ text \in Texts \cup {None},
             name = "update" => title \in Given(Titles) /\ text \in Given(Texts)
      PROVE  TasksInv'
    <2>1. principal # None BY <1>1 DEF Issue
    <2>2. IsTaskCommand(TaskCommand(name, id, l, title, text)) BY <1>1, <2>1, TaskCommandBegins
    <2>3. QED BY <1>1, <2>2, TaskQuiet DEF Issue, TasksInv, ContentsTyped
<1>2. \A i \in Existing : tasks[i].list \in Lists BY DEF TasksInv, ContentsTyped, IsStored
<1>3. CASE StartCreate(c) BY <1>1, <1>3 DEF StartCreate
<1>4. CASE StartUpdate(c) BY <1>1, <1>2, <1>4 DEF StartUpdate
<1>5. CASE StartComment(c) BY <1>1, <1>2, <1>5 DEF StartComment
<1>6. CASE StartAccept(c) BY <1>1, <1>2, <1>6 DEF StartAccept
<1>7. CASE StartOther(c) BY <1>1, <1>2, <1>7 DEF StartOther
<1>8. QED BY <1>3, <1>4, <1>5, <1>6, <1>7 DEF Start

(* A command that has its answer is done.                                  *)
LEMMA ShownIsCommand ==
    ASSUME NEW r, IsTaskCommand(r), r.pc # "connect", NEW shown, r.name = "accept" => r.witnessed
    PROVE  IsTaskCommand(Shown(r, shown))
<1> DEFINE s == Shown(r, shown)
<1>1. /\ DOMAIN s = TaskCommandFields /\ s.pc = "done"
      /\ \A field \in TaskCommandFields \ {"pc", "shown"} : s[field] = r[field]
    BY DEF Shown, IsTaskCommand, TaskCommandFields
<1>2. /\ s.name = r.name /\ s.id = r.id /\ s.list = r.list /\ s.title = r.title /\ s.text = r.text
      /\ s.source = r.source /\ s.token = r.token /\ s.key = r.key
      /\ s.overtaken = r.overtaken /\ s.witnessed = r.witnessed
    BY <1>1 DEF TaskCommandFields
<1> HIDE DEF s
<1>3. IsTaskCommand(s) BY <1>1, <1>2 DEF IsTaskCommand
<1>4. QED BY <1>3 DEF s

LEMMA ReadFields ==
    ASSUME TasksInv, NEW c \in Commands, IsTaskCommand(cmd[c]), NEW base
    PROVE  /\ DOMAIN Read(c, base) = TaskCommandFields
           /\ Read(c, base).pc = "send" /\ Read(c, base).base = base /\ Read(c, base).overtaken \in BOOLEAN
           /\ Read(c, base).witnessed = (tasks[cmd[c].id].assignment = "accepted")
           /\ \A field \in TaskCommandFields \ {"pc", "base", "overtaken", "witnessed"} :
                 Read(c, base)[field] = cmd[c][field]
<1> DEFINE old == cmd[c]
<1>1. DOMAIN old = TaskCommandFields BY DEF IsTaskCommand
<1> HIDE DEF old
<1>2. Read(c, base) = [old EXCEPT !.pc = "send", !.base = base, !.overtaken = FALSE,
                         !.witnessed = tasks[cmd[c].id].assignment = "accepted"]
    BY DEF Read, old
<1>3. QED BY <1>1, <1>2 DEF TaskCommandFields, old

(* A command that fetched its task knows it.                               *)
LEMMA ReadIsCommand ==
    ASSUME TasksInv, NEW c \in Commands, NEW name, Fetched(c, name), NEW base,
           name = "update" =>
              /\ cmd[c].title # "blank" /\ base # None
              /\ base = Open(cmd[c].key, "task", tasks[cmd[c].id].payload),
           name = "recomment" =>
              /\ comments[cmd[c].id] # None /\ base # None
              /\ base = Open(cmd[c].key, "comment", comments[cmd[c].id].body)
    PROVE  IsTaskCommand(Read(c, base))
<1> DEFINE old == cmd[c]
           r == Read(c, base)
<1>1. IsTaskCommand(old) /\ old.pc = "fetch" /\ old.name = name BY TaskRuns DEF Fetched
<1>2. DOMAIN r = TaskCommandFields /\ r.pc = "send" /\ r.base = base /\ r.overtaken \in BOOLEAN
    BY <1>1, ReadFields
<1>3. /\ r.name = old.name /\ r.id = old.id /\ r.list = old.list /\ r.title = old.title
      /\ r.text = old.text /\ r.source = old.source /\ r.token = old.token /\ r.key = old.key
    BY <1>1, ReadFields DEF TaskCommandFields
<1>4. ASSUME name = "update"
      PROVE  /\ DOMAIN base = {"title", "text", "attachments"}
             /\ tasks[old.id].payload.key = old.key /\ tasks[old.id].payload.body = base
    <2>1. old.id \in Existing BY <1>1, <1>4 DEF Fetched, IsTaskCommand, Existing
    <2>2. IsStored(tasks[old.id]) BY <2>1 DEF TasksInv, ContentsTyped
    <2>3. QED BY <1>4, <2>2 DEF Open, IsStored
<1>5. ASSUME name = "recomment"
      PROVE  /\ DOMAIN base = {"text", "mentions"}
             /\ comments[old.id].body.key = old.key /\ comments[old.id].body.body = base
    <2>1. old.id \in Existing BY <1>1, <1>5 DEF Fetched, IsTaskCommand, Existing
    <2>2. IsComment(comments[old.id], tasks[old.id].list) BY <1>5, <2>1 DEF TasksInv, ContentsTyped
    <2>3. QED BY <1>5, <2>2 DEF Open, IsComment
<1> HIDE DEF r
<1>6. IsTaskCommand(r) BY <1>1, <1>2, <1>3, <1>4, <1>5 DEF IsTaskCommand
<1>7. QED BY <1>6 DEF r

LEMMA ConnectKeeps ==
    ASSUME NoneIsNoValue, TasksInv, NEW c \in Commands, Connect(c)
    PROVE  TasksInv'
<1> DEFINE old == cmd[c]
           key == ContextKey(old)
           r == [old EXCEPT !.token = principal, !.key = key,
                            !.pc = IF old.name \in Fetching THEN "fetch" ELSE "send"]
<1>1. /\ old.pc = "connect" /\ principal # None /\ principal \in Members[old.list]
      /\ old.name \in NeedKey => key # None
      /\ ~Refused(old) /\ Become(c, r)
      /\ UNCHANGED <<principal, tasks, comments, retired>>
    BY DEF Connect, Unwritten
<1>2. IsTaskCommand(old) BY <1>1, TaskRuns
<1>3. /\ DOMAIN r = TaskCommandFields /\ r.pc \in {"fetch", "send"} /\ r.token = principal /\ r.key = key
      /\ r.pc = "send" => old.name \notin Fetching
      /\ \A field \in TaskCommandFields \ {"pc", "token", "key"} : r[field] = old[field]
    BY <1>2 DEF IsTaskCommand, TaskCommandFields
<1>4. /\ r.name = old.name /\ r.id = old.id /\ r.list = old.list /\ r.title = old.title
      /\ r.text = old.text /\ r.source = old.source /\ r.overtaken = old.overtaken
    BY <1>3 DEF TaskCommandFields
<1>5. old.source = principal => key = ListKey(old.list)
    <2>1. old.list \in Lists BY <1>2 DEF IsTaskCommand
    <2>2. QED BY <1>1, <2>1, ResolvedKey DEF ContextKey
<1>6. old.name = "create" => old.title # "blank" BY <1>1 DEF Refused
<1>7. old.name \in {"update", "recomment", "accept"} => r.pc = "fetch" BY <1>3 DEF Fetching
<1> HIDE DEF r, key
<1>8. IsTaskCommand(r) BY <1>1, <1>2, <1>3, <1>4, <1>5, <1>6, <1>7 DEF IsTaskCommand
<1>9. QED BY <1>1, <1>8, TaskQuiet DEF TasksInv, ContentsTyped

(* The commands that read                                                  *)
LEMMA ReadsKeep ==
    ASSUME NoneIsNoValue, TasksInv, NEW c \in Commands,
           \/ GetTask(c) \/ FetchForUpdate(c) \/ FetchForRecomment(c) \/ FetchForAccept(c)
           \/ FetchForDownload(c) \/ Download(c) \/ ListComments(c) \/ Reload(c)
    PROVE  TasksInv'
<1>1. ASSUME NEW r, Become(c, r), Unwritten, IsTaskCommand(r) PROVE TasksInv'
    BY <1>1, TaskQuiet DEF Unwritten, TasksInv, ContentsTyped
<1>2. ASSUME cmd[c].pc \in {"fetch", "send", "reload"} PROVE IsTaskCommand(cmd[c])
    BY <1>2, TaskRuns
<1>3. CASE GetTask(c)
    <2>1. cmd[c].pc = "fetch" /\ cmd[c].name = "get" BY <1>3 DEF GetTask, Fetched
    <2>2. \A shown : IsTaskCommand(Shown(cmd[c], shown)) BY <1>2, <2>1, ShownIsCommand
    <2>3. QED BY <1>1, <1>3, <2>2 DEF GetTask
<1>4. CASE FetchForUpdate(c)
    <2> DEFINE body == Open(cmd[c].key, "task", tasks[cmd[c].id].payload)
    <2>1. Fetched(c, "update") /\ cmd[c].title # "blank" /\ body # None /\ Become(c, Read(c, body)) /\ Unwritten
        BY <1>4 DEF FetchForUpdate
    <2>2. IsTaskCommand(Read(c, body)) BY <2>1, ReadIsCommand
    <2>3. QED BY <1>1, <2>1, <2>2
<1>5. CASE FetchForRecomment(c)
    <2> DEFINE body == Open(cmd[c].key, "comment", comments[cmd[c].id].body)
    <2>1. Fetched(c, "recomment") /\ comments[cmd[c].id] # None /\ body # None /\ Become(c, Read(c, body)) /\ Unwritten
        BY <1>5 DEF FetchForRecomment
    <2>2. IsTaskCommand(Read(c, body)) BY <2>1, ReadIsCommand
    <2>3. QED BY <1>1, <2>1, <2>2
<1>6. CASE FetchForAccept(c)
    <2>1. Fetched(c, "accept") BY <1>6 DEF FetchForAccept
    <2>2. IsTaskCommand(Read(c, None)) BY <2>1, ReadIsCommand
    <2>3. IsTaskCommand(cmd[c]) BY <1>2, <2>1 DEF Fetched
    <2>4. /\ Read(c, None).pc = "send"
          /\ Read(c, None).witnessed = (tasks[cmd[c].id].assignment = "accepted")
        BY <2>3, ReadFields
    <2>5. ASSUME tasks[cmd[c].id].assignment = "accepted", NEW shown
          PROVE  IsTaskCommand(Shown(Read(c, None), shown))
        BY <2>2, <2>4, <2>5, ShownIsCommand
    <2>6. QED BY <1>1, <1>6, <2>2, <2>5 DEF FetchForAccept
<1>7. CASE FetchForDownload(c)
    <2>1. PICK name \in {"download", "read"} : Fetched(c, name) BY <1>7 DEF FetchForDownload
    <2>2. \A base : IsTaskCommand(Read(c, base)) BY <2>1, ReadIsCommand
    <2>3. QED BY <1>1, <1>7, <2>2 DEF FetchForDownload
<1>8. CASE Download(c)
    <2>1. cmd[c].pc = "send" /\ cmd[c].name \in {"download", "read"} BY <1>8 DEF Download
    <2>2. \A shown : IsTaskCommand(Shown(cmd[c], shown)) BY <1>2, <2>1, ShownIsCommand
    <2>3. QED BY <1>1, <1>8, <2>2 DEF Download
<1>9. CASE ListComments(c)
    <2>1. cmd[c].pc = "send" /\ cmd[c].name = "comments" BY <1>9 DEF ListComments, Sending
    <2>2. \A shown : IsTaskCommand(Shown(cmd[c], shown)) BY <1>2, <2>1, ShownIsCommand
    <2>3. QED BY <1>1, <1>9, <2>2 DEF ListComments
<1>10. CASE Reload(c)
    <2>1. cmd[c].pc = "reload" BY <1>10 DEF Reload
    <2>2. IsTaskCommand(cmd[c]) BY <1>2, <2>1
    <2>3. cmd[c].name = "accept" => cmd[c].witnessed BY <2>1, <2>2 DEF IsTaskCommand
    <2>4. \A shown : IsTaskCommand(Shown(cmd[c], shown)) BY <2>1, <2>2, <2>3, ShownIsCommand
    <2>5. QED BY <1>1, <1>10, <2>4 DEF Reload
<1>11. QED BY <1>3, <1>4, <1>5, <1>6, <1>7, <1>8, <1>9, <1>10

LEMMA TaskEndsKeep ==
    ASSUME TasksInv, NEW c \in Commands, FailTask(c) \/ ReturnTask(c)
    PROVE  TasksInv'
BY TaskQuiet DEF FailTask, ReturnTask, Unwritten, TasksInv, ContentsTyped

(* What a command knows before a write that it has not seen holds after.   *)
LEMMA KnowsAfter ==
    ASSUME NEW d \in Commands, cmd'[d] = Idle \/ IsTaskCommand(cmd'[d]), Lasting, Unseen(cmd'[d])
    PROVE  TaskCommandKnows(d)'
<1>1. CASE cmd'[d] = Idle BY <1>1 DEF TaskCommandKnows
<1>2. CASE IsTaskCommand(cmd'[d])
    <2>1. IsTaskCommand(cmd[d])' BY <1>2 DEF IsTaskCommand, Lasting, Unseen
    <2>2. QED BY <2>1 DEF TaskCommandKnows
<1>3. QED BY <1>1, <1>2

LEMMA OvertakenIsCommand ==
    ASSUME NEW r, IsTaskCommand(r)
    PROVE  /\ IsTaskCommand([r EXCEPT !.overtaken = TRUE])
           /\ [r EXCEPT !.overtaken = TRUE].pc = r.pc
           /\ [r EXCEPT !.overtaken = TRUE].name = r.name
           /\ [r EXCEPT !.overtaken = TRUE].id = r.id
           /\ [r EXCEPT !.overtaken = TRUE].overtaken
<1> DEFINE s == [r EXCEPT !.overtaken = TRUE]
<1>1. /\ DOMAIN s = TaskCommandFields /\ s.overtaken \in BOOLEAN /\ s.overtaken
      /\ \A field \in TaskCommandFields \ {"overtaken"} : s[field] = r[field]
    BY DEF IsTaskCommand, TaskCommandFields
<1>2. /\ s.pc = r.pc /\ s.name = r.name /\ s.id = r.id /\ s.list = r.list /\ s.title = r.title
      /\ s.text = r.text /\ s.source = r.source /\ s.token = r.token /\ s.key = r.key
      /\ s.base = r.base /\ s.witnessed = r.witnessed
    BY <1>1 DEF TaskCommandFields
<1> HIDE DEF s
<1>3. IsTaskCommand(s) BY <1>1, <1>2 DEF IsTaskCommand
<1>4. QED BY <1>1, <1>2, <1>3 DEF s

(* A write overtakes the commands that have read what it writes.           *)
LEMMA Overtaking ==
    ASSUME TasksInv, NEW d \in Commands, NEW names, NEW i, NEW commands,
           cmd' = Overtake(names, i, commands), commands[d] = cmd[d]
    PROVE  /\ \/ cmd'[d] = cmd[d]
              \/ cmd[d] # Idle /\ cmd'[d] = [cmd[d] EXCEPT !.overtaken = TRUE]
           /\ cmd'[d].pc = "send" /\ cmd'[d].name \in names /\ cmd'[d].id = i => cmd'[d].overtaken
<1>1. CASE cmd[d].pc = "send" /\ cmd[d].id = i /\ cmd[d].name \in names
    <2>1. cmd[d] # Idle /\ IsTaskCommand(cmd[d]) BY <1>1, TaskRuns
    <2>2. cmd'[d] = [cmd[d] EXCEPT !.overtaken = TRUE] BY <1>1 DEF Overtake
    <2>3. QED BY <2>1, <2>2, OvertakenIsCommand
<1>2. CASE ~(cmd[d].pc = "send" /\ cmd[d].id = i /\ cmd[d].name \in names)
    <2>1. cmd'[d] = cmd[d] BY <1>2 DEF Overtake
    <2>2. QED BY <1>2, <2>1
<1>3. QED BY <1>1, <1>2

(* A task or its comment is written.                                       *)
LEMMA TaskStored ==
    ASSUME NoneIsNoValue, TasksInv, NEW i \in TaskIds, <<"task", i>> \notin retired,
           NEW t, IsStored(t), i \in Existing => t.list = tasks[i].list,
           tasks' = [tasks EXCEPT ![i] = t], UNCHANGED <<comments, retired>>,
           principal' \in Principals \cup {None}, DOMAIN cmd' = Commands
    PROVE  /\ ContentsTyped' /\ Lasting
           /\ \A j \in Existing' : <<"task", j>> \notin retired'
           /\ \A j \in Existing' : comments'[j] # None => <<"comment", j>> \notin retired'
           /\ tasks'[i] = t /\ \A j \in TaskIds \ {i} : tasks'[j] = tasks[j]
<1>1. DOMAIN tasks' = TaskIds /\ tasks'[i] = t /\ \A j \in TaskIds \ {i} : tasks'[j] = tasks[j]
    BY DEF TasksInv, ContentsTyped
<1>2. t # None BY DEF IsStored, NoneIsNoValue
<1>3. Existing' = Existing \cup {i} BY <1>1, <1>2 DEF Existing
<1>4. Lasting BY <1>1, <1>3 DEF Lasting, Unused, Existing
<1>5. ASSUME NEW j \in Existing'
      PROVE  IsStored(tasks'[j]) /\ (comments[j] # None => IsComment(comments[j], tasks'[j].list))
    <2>1. CASE j = i
        BY <1>1, <2>1 DEF TasksInv, ContentsTyped
    <2>2. CASE j # i
        <3>1. j \in Existing /\ tasks'[j] = tasks[j] BY <1>1, <1>3, <2>2 DEF Existing
        <3>2. QED BY <3>1 DEF TasksInv, ContentsTyped
    <2>3. QED BY <2>1, <2>2
<1>6. ContentsTyped' BY <1>1, <1>3, <1>5 DEF TasksInv, ContentsTyped
<1>7. \A j \in Existing' : comments'[j] # None => <<"comment", j>> \notin retired'
    BY <1>3 DEF TasksInv, ContentsTyped
<1>8. QED BY <1>1, <1>3, <1>4, <1>6, <1>7 DEF TasksInv

LEMMA CommentStored ==
    ASSUME NoneIsNoValue, TasksInv, NEW i \in Existing, <<"comment", i>> \notin retired,
           NEW m, IsComment(m, tasks[i].list),
           comments' = [comments EXCEPT ![i] = m], UNCHANGED <<tasks, retired>>,
           principal' \in Principals \cup {None}, DOMAIN cmd' = Commands
    PROVE  /\ ContentsTyped' /\ Lasting
           /\ \A j \in Existing' : <<"task", j>> \notin retired'
           /\ \A j \in Existing' : comments'[j] # None => <<"comment", j>> \notin retired'
           /\ comments'[i] = m /\ \A j \in TaskIds \ {i} : comments'[j] = comments[j]
<1>1. /\ i \in TaskIds
      /\ DOMAIN comments' = TaskIds /\ comments'[i] = m /\ \A j \in TaskIds \ {i} : comments'[j] = comments[j]
    BY DEF TasksInv, ContentsTyped, Existing
<1>2. Existing' = Existing /\ Unused' = Unused BY DEF Existing, Unused
<1>3. \A j \in Existing : j \in TaskIds BY DEF Existing
<1>4. ContentsTyped' BY <1>1, <1>2, <1>3 DEF TasksInv, ContentsTyped
<1>5. QED BY <1>1, <1>2, <1>3, <1>4 DEF TasksInv, Lasting

(* A payload sealed with another's key and body                            *)
LEMMA SealedIs ==
    ASSUME NEW key, NEW context, NEW body
    PROVE  /\ IsSealed(Seal(key, context, body), context)
           /\ Seal(key, context, body).key = key /\ Seal(key, context, body).body = body
BY DEF IsSealed, Seal, SealedFields

LEMMA CreateTaskKeeps ==
    ASSUME NoneIsNoValue, TasksInv, NEW c \in Commands, CreateTask(c)
    PROVE  TasksInv'
<1> DEFINE body == Body(cmd[c].title, cmd[c].text, {})
           plain == Task(cmd[c].list, cmd[c].key, body, {})
           t == [plain EXCEPT !.stray = Stray(c)]
<1>1. PICK i \in Unused : /\ tasks' = [tasks EXCEPT ![i] = t]
                          /\ cmd' = Answer(c, Project(cmd[c].key, t))
    BY DEF CreateTask
<1>2. cmd[c].pc = "send" /\ cmd[c].name = "create" /\ IsTaskCommand(cmd[c])
    BY TaskRuns DEF CreateTask, Sending
<1>3. i \in TaskIds /\ i \notin Existing /\ <<"task", i>> \notin retired BY <1>1 DEF Unused
<1>4. UNCHANGED <<principal, comments, retired>> BY DEF CreateTask
<1>5. /\ DOMAIN t = TaskFields /\ t.list = cmd[c].list /\ t.files = {} /\ t.torn = FALSE
      /\ t.title = Seal(cmd[c].key, "title", body.title)
      /\ t.payload = Seal(cmd[c].key, "task", body) /\ t.stray = Stray(c)
    BY DEF Task, TaskFields
<1>6. body.title = cmd[c].title /\ body.attachments = {} /\ DOMAIN body = {"title", "text", "attachments"}
    BY DEF Body
<1>7. cmd[c].list \in Lists /\ (~Stray(c) => cmd[c].key = ListKey(cmd[c].list))
    BY <1>2 DEF IsTaskCommand, NeedKey, Stray
<1>8. Referred(cmd[c].key, body) = {} BY <1>6 DEF Referred
<1>9. t.torn \in BOOLEAN /\ t.stray \in BOOLEAN BY <1>5 DEF Stray
<1> HIDE DEF t, body
<1>10. IsStored(t) BY <1>5, <1>6, <1>7, <1>8, <1>9, SealedIs DEF IsStored
<1>11. /\ DOMAIN cmd' = Commands /\ \A d \in Commands \ {c} : cmd'[d] = cmd[d]
       /\ cmd'[c] = Shown(cmd[c], Project(cmd[c].key, t))
    BY <1>1 DEF Answer, TasksInv, ContentsTyped
<1>12. principal' \in Principals \cup {None} BY <1>4 DEF TasksInv, ContentsTyped
<1>13. /\ ContentsTyped' /\ Lasting
       /\ \A j \in Existing' : <<"task", j>> \notin retired'
       /\ \A j \in Existing' : comments'[j] # None => <<"comment", j>> \notin retired'
       /\ tasks'[i] = t /\ \A j \in TaskIds \ {i} : tasks'[j] = tasks[j]
    BY <1>1, <1>3, <1>4, <1>10, <1>11, <1>12, TaskStored
<1>14. ASSUME NEW d \in Commands \ {c} PROVE TaskCommandKnows(d)'
    <2>1. cmd[d] # Idle => IsTaskCommand(cmd[d]) BY DEF TasksInv, TaskCommandKnows
    <2>2. cmd[d] # Idle /\ cmd[d].name # "create" => cmd[d].id \in TaskIds /\ cmd[d].id # i
        BY <1>1, <2>1 DEF IsTaskCommand
    <2>3. Unseen(cmd'[d]) BY <1>4, <1>11, <1>13, <2>2 DEF Unseen, Idle
    <2>4. QED BY <1>11, <1>13, <2>3, TaskCommandStays
<1>15. IsTaskCommand(cmd'[c]) /\ cmd'[c].pc = "done"
    <2>1. IsTaskCommand(cmd'[c]) BY <1>2, <1>11, ShownIsCommand
    <2>2. QED BY <1>2, <1>11, <2>1 DEF Shown, IsTaskCommand, TaskCommandFields
<1>16. TaskCommandKnows(c)' BY <1>13, <1>15, KnowsAfter DEF Unseen
<1>17. QED BY <1>13, <1>14, <1>16 DEF TasksInv

(* What an update writes, if it does not stray and was not overtaken, is   *)
(* as good as what it read.                                                *)
LEMMA ResealIsStored ==
    ASSUME NoneIsNoValue, TasksInv, NEW c \in Commands, Sending(c, "update"), cmd[c].id \in Existing
    PROVE  LET t == tasks[cmd[c].id] IN
           IsStored(Reseal(c, t)) /\ Reseal(c, t).list = t.list
<1> DEFINE t == tasks[cmd[c].id]
           u == Reseal(c, t)
           r == cmd[c]
           body == Updated(r.base, r.title, r.text)
<1>1. IsTaskCommand(r) /\ r.pc = "send" /\ r.name = "update" BY TaskRuns DEF Sending
<1>2. IsStored(t) BY DEF TasksInv, ContentsTyped
<1>3. t.list = r.list /\ (~Stray(c) => r.key = ListKey(r.list))
    BY <1>1 DEF IsTaskCommand, NeedKey, Stray
<1>4. /\ DOMAIN u = TaskFields /\ u.list = t.list /\ u.files = t.files
      /\ u.payload = Seal(r.key, "task", body)
      /\ u.title = IF r.title = None THEN t.title ELSE Seal(r.key, "title", r.title)
      /\ u.torn = (t.torn \/ r.overtaken) /\ u.stray = (t.stray \/ Stray(c))
    BY <1>2 DEF Reseal, IsStored, TaskFields
<1>5. /\ DOMAIN body = {"title", "text", "attachments"}
      /\ body.title = IF r.title = None THEN r.base.title ELSE r.title
      /\ body.attachments = r.base.attachments
    BY <1>1 DEF Updated, IsTaskCommand
<1>6. ~r.overtaken => t.payload.key = r.key /\ t.payload.body = r.base
    BY <1>1 DEF IsTaskCommand
<1>7. u.torn \in BOOLEAN /\ u.stray \in BOOLEAN
    BY <1>1, <1>2, <1>4 DEF IsStored, IsTaskCommand, Stray
<1> HIDE DEF u, body
<1>8. /\ IsSealed(u.payload, "task") /\ u.payload.key = r.key /\ u.payload.body = body
      /\ r.title # None => u.title.key = r.key /\ u.title.body = r.title
      /\ IsSealed(u.title, "title")
    BY <1>2, <1>4, SealedIs DEF IsStored
<1>9. ~u.stray => u.title.key = ListKey(u.list) /\ u.payload.key = ListKey(u.list)
    BY <1>2, <1>3, <1>4, <1>8 DEF IsStored
<1>10. ~u.torn => u.title.body = u.payload.body.title
    BY <1>2, <1>4, <1>5, <1>6, <1>8 DEF IsStored
<1>11. ~u.torn => Referred(u.payload.key, u.payload.body) = u.files
    <2>1. ASSUME ~u.torn PROVE Referred(t.payload.key, t.payload.body) = t.files
        BY <1>2, <1>4, <2>1 DEF IsStored
    <2>2. ASSUME ~u.torn PROVE u.payload.key = t.payload.key /\ u.payload.body.attachments = t.payload.body.attachments
        BY <1>4, <1>5, <1>6, <1>8, <2>2
    <2>3. QED BY <1>4, <2>1, <2>2 DEF Referred
<1>12. IsStored(u) BY <1>2, <1>4, <1>5, <1>7, <1>8, <1>9, <1>10, <1>11 DEF IsStored
<1>13. QED BY <1>4, <1>12 DEF u

LEMMA UpdateKeeps ==
    ASSUME NoneIsNoValue, TasksInv, NEW c \in Commands, Update(c)
    PROVE  TasksInv'
<1> DEFINE i == cmd[c].id
           t == Reseal(c, tasks[i])
           shown == Project(cmd[c].key, tasks'[i])
<1>1. /\ Sending(c, "update") /\ tasks[i] # None
      /\ tasks' = [tasks EXCEPT ![i] = t]
      /\ cmd' = Overtake({"update"}, i, Answer(c, shown))
      /\ UNCHANGED <<principal, comments, retired>>
    BY DEF Update
<1>2. IsTaskCommand(cmd[c]) /\ cmd[c].pc = "send" /\ cmd[c].name = "update"
    BY <1>1, TaskRuns DEF Sending
<1>3. i \in TaskIds /\ i \in Existing BY <1>1, <1>2 DEF IsTaskCommand, Existing
<1>4. IsStored(t) /\ t.list = tasks[i].list BY <1>1, <1>3, ResealIsStored
<1> HIDE DEF t
<1>5. DOMAIN cmd' = Commands BY <1>1 DEF Overtake
<1>6. <<"task", i>> \notin retired /\ principal' \in Principals \cup {None}
    BY <1>1, <1>3 DEF TasksInv, ContentsTyped
<1>7. /\ ContentsTyped' /\ Lasting
      /\ \A j \in Existing' : <<"task", j>> \notin retired'
      /\ \A j \in Existing' : comments'[j] # None => <<"comment", j>> \notin retired'
      /\ tasks'[i] = t /\ \A j \in TaskIds \ {i} : tasks'[j] = tasks[j]
    BY <1>1, <1>3, <1>4, <1>5, <1>6, TaskStored
<1> HIDE DEF shown
<1>8. ASSUME NEW d \in Commands \ {c} PROVE TaskCommandKnows(d)'
    <2>1. Answer(c, shown)[d] = cmd[d] BY DEF Answer, TasksInv, ContentsTyped
    <2>2. /\ \/ cmd'[d] = cmd[d]
             \/ cmd[d] # Idle /\ cmd'[d] = [cmd[d] EXCEPT !.overtaken = TRUE]
          /\ cmd'[d].pc = "send" /\ cmd'[d].name \in {"update"} /\ cmd'[d].id = i => cmd'[d].overtaken
        BY <1>1, <2>1, Overtaking
    <2>3. Unseen(cmd'[d]) BY <1>1, <1>7, <2>2 DEF Unseen, Existing
    <2>4. QED BY <1>7, <2>2, <2>3, TaskCommandStays
<1>9. TaskCommandKnows(c)'
    <2> DEFINE r == Shown(cmd[c], shown)
    <2>1. IsTaskCommand(r) BY <1>2, ShownIsCommand
    <2>2. r.pc = "done" BY <1>2 DEF Shown, IsTaskCommand, TaskCommandFields
    <2>3. cmd'[c] = [r EXCEPT !.overtaken = TRUE] BY <1>1, <1>2 DEF Overtake, Answer, TasksInv, ContentsTyped
    <2> HIDE DEF r
    <2>4. IsTaskCommand(cmd'[c]) /\ cmd'[c].pc = "done" BY <2>1, <2>2, <2>3, OvertakenIsCommand
    <2>5. QED BY <1>7, <2>4, KnowsAfter DEF Unseen
<1>10. QED BY <1>7, <1>8, <1>9 DEF TasksInv

LEMMA CommentIs ==
    ASSUME NEW key, NEW text, NEW mentions, NEW stray \in BOOLEAN, NEW l, ~stray => key = ListKey(l)
    PROVE  IsComment(Comment(key, text, mentions, stray), l)
<1> DEFINE body == [text |-> text, mentions |-> mentions]
           m == Comment(key, text, mentions, stray)
<1>1. /\ DOMAIN m = CommentFields /\ m.body = Seal(key, "comment", body) /\ m.stray = stray
      /\ DOMAIN body = {"text", "mentions"}
    BY DEF Comment, CommentFields
<1> HIDE DEF body, m
<1>2. IsComment(m, l) BY <1>1, SealedIs DEF IsComment
<1>3. QED BY <1>2 DEF m

LEMMA CommentsKeep ==
    ASSUME NoneIsNoValue, TasksInv, NEW c \in Commands, AddComment(c) \/ Recomment(c)
    PROVE  TasksInv'
<1> DEFINE i == cmd[c].id
           m(mentions) == Comment(cmd[c].key, cmd[c].text, mentions, Stray(c))
           shown(n) == ProjectComment(cmd[c].key, n)
<1>1. PICK mentions, n :
         /\ cmd[c].pc = "send" /\ cmd[c].name \in {"comment", "recomment"}
         /\ tasks[i] # None /\ n = m(mentions)
         /\ comments' = [comments EXCEPT ![i] = n]
         /\ \/ /\ cmd[c].name = "comment" /\ comments[i] = None /\ <<"comment", i>> \notin retired
               /\ cmd' = Answer(c, shown(n))
            \/ /\ cmd[c].name = "recomment" /\ comments[i] # None
               /\ cmd' = Overtake({"recomment"}, i, Answer(c, shown(n)))
         /\ UNCHANGED <<principal, tasks, retired>>
    <2>1. CASE AddComment(c) BY <2>1 DEF AddComment, Sending
    <2>2. CASE Recomment(c) BY <2>2 DEF Recomment, Sending
    <2>3. QED BY <2>1, <2>2
<1>2. IsTaskCommand(cmd[c]) BY <1>1, TaskRuns
<1>3. i \in Existing /\ i \in TaskIds BY <1>1, <1>2 DEF IsTaskCommand, Existing
<1>4. <<"comment", i>> \notin retired BY <1>1, <1>3 DEF TasksInv
<1>5. tasks[i].list = cmd[c].list /\ (~Stray(c) => cmd[c].key = ListKey(cmd[c].list))
    BY <1>1, <1>2, <1>3 DEF IsTaskCommand, NeedKey, Stray
<1>6. IsComment(n, tasks[i].list) BY <1>1, <1>5, CommentIs DEF Stray
<1> HIDE DEF m, shown
<1>7. DOMAIN cmd' = Commands BY <1>1 DEF Overtake, Answer, TasksInv, ContentsTyped
<1>8. principal' \in Principals \cup {None} BY <1>1 DEF TasksInv, ContentsTyped
<1>9. /\ ContentsTyped' /\ Lasting
      /\ \A j \in Existing' : <<"task", j>> \notin retired'
      /\ \A j \in Existing' : comments'[j] # None => <<"comment", j>> \notin retired'
      /\ comments'[i] = n /\ \A j \in TaskIds \ {i} : comments'[j] = comments[j]
    BY <1>1, <1>3, <1>4, <1>6, <1>7, <1>8, CommentStored
<1>10. ASSUME NEW d \in Commands \ {c} PROVE TaskCommandKnows(d)'
    <2>1. Answer(c, shown(n))[d] = cmd[d] BY DEF Answer, TasksInv, ContentsTyped
    <2>2. CASE cmd[c].name = "comment"
        <3>1. cmd'[d] = cmd[d] /\ comments[i] = None BY <1>1, <2>1, <2>2
        <3>2. ASSUME cmd[d].name = "recomment", cmd[d].pc = "send", ~cmd[d].overtaken, cmd[d].id \in Existing,
                     <<"comment", cmd[d].id>> \notin retired
              PROVE  cmd[d].id # i
            <4>1. IsTaskCommand(cmd[d]) BY <3>2, TaskRuns
            <4>2. QED BY <3>1, <3>2, <4>1 DEF IsTaskCommand
        <3>3. Unseen(cmd'[d]) BY <1>1, <1>9, <3>1, <3>2 DEF Unseen, Existing
        <3>4. QED BY <1>9, <3>1, <3>3, TaskCommandStays
    <2>3. CASE cmd[c].name = "recomment"
        <3>1. /\ \/ cmd'[d] = cmd[d]
                 \/ cmd[d] # Idle /\ cmd'[d] = [cmd[d] EXCEPT !.overtaken = TRUE]
              /\ cmd'[d].pc = "send" /\ cmd'[d].name \in {"recomment"} /\ cmd'[d].id = i => cmd'[d].overtaken
            BY <1>1, <2>1, <2>3, Overtaking
        <3>2. Unseen(cmd'[d]) BY <1>1, <1>9, <3>1 DEF Unseen, Existing
        <3>3. QED BY <1>9, <3>1, <3>2, TaskCommandStays
    <2>4. QED BY <1>1, <2>2, <2>3
<1>11. TaskCommandKnows(c)'
    <2> DEFINE r == Shown(cmd[c], shown(n))
    <2>1. IsTaskCommand(r) BY <1>1, <1>2, ShownIsCommand
    <2>2. r.pc = "done" BY <1>2 DEF Shown, IsTaskCommand, TaskCommandFields
    <2>3. Answer(c, shown(n))[c] = r BY DEF Answer, TasksInv, ContentsTyped
    <2>4. cmd'[c] = r \/ cmd'[c] = [r EXCEPT !.overtaken = TRUE] BY <1>1, <2>3 DEF Overtake
    <2> HIDE DEF r
    <2>5. IsTaskCommand(cmd'[c]) /\ cmd'[c].pc = "done" BY <2>1, <2>2, <2>4, OvertakenIsCommand
    <2>6. QED BY <1>9, <2>5, KnowsAfter DEF Unseen
<1>12. QED BY <1>9, <1>10, <1>11 DEF TasksInv

(* What is deleted is not used again.                                      *)
LEMMA DeletionsKeep ==
    ASSUME NoneIsNoValue, TasksInv, NEW c \in Commands, Uncomment(c) \/ Delete(c)
    PROVE  TasksInv'
<1> DEFINE i == cmd[c].id
<1>1. /\ cmd[c].pc = "send" /\ cmd[c].name \in {"uncomment", "delete"} /\ tasks[i] # None
      /\ Become(c, Idle) /\ UNCHANGED principal
      /\ comments' = [comments EXCEPT ![i] = None]
      /\ \/ UNCHANGED tasks /\ retired' = retired \cup {<<"comment", i>>}
         \/ tasks' = [tasks EXCEPT ![i] = None] /\ retired' = retired \cup {<<"task", i>>}
    BY DEF Uncomment, Delete, Sending
<1>2. IsTaskCommand(cmd[c]) BY <1>1, TaskRuns
<1>3. i \in Existing /\ i \in TaskIds BY <1>1, <1>2 DEF IsTaskCommand, Existing
<1>4. /\ DOMAIN comments' = TaskIds /\ comments'[i] = None /\ \A j \in TaskIds \ {i} : comments'[j] = comments[j]
      /\ DOMAIN tasks' = TaskIds /\ \A j \in TaskIds \ {i} : tasks'[j] = tasks[j]
      /\ tasks'[i] = tasks[i] \/ (tasks'[i] = None /\ <<"task", i>> \in retired')
    BY <1>1, <1>3 DEF TasksInv, ContentsTyped
<1>5. /\ DOMAIN cmd' = Commands /\ cmd'[c] = Idle /\ \A d \in Commands \ {c} : cmd'[d] = cmd[d]
    BY <1>1 DEF Become, TasksInv, ContentsTyped
<1>6. Existing' \subseteq Existing /\ \A j \in Existing : j \notin Existing' => j = i /\ <<"task", i>> \in retired'
    BY <1>4 DEF Existing
<1>7. retired \subseteq retired' BY <1>1
<1>8. Lasting
    <2>1. ASSUME NEW j \in TaskIds \ Unused PROVE j \notin Unused'
        BY <1>6, <1>7 DEF Unused
    <2>2. \A j \in Existing' : tasks'[j] = tasks[j] BY <1>4 DEF Existing
    <2>3. QED BY <1>6, <1>7, <2>1, <2>2 DEF Lasting
<1>9. \A j \in Existing' : j \in TaskIds /\ j \in Existing /\ tasks'[j] = tasks[j] /\ (comments'[j] # None => comments'[j] = comments[j])
    BY <1>4, <1>6 DEF Existing
<1>10. \A j \in TaskIds : comments'[j] # None => j \in Existing'
    <2> SUFFICES ASSUME NEW j \in TaskIds, comments'[j] # None PROVE j \in Existing' OBVIOUS
    <2>1. j # i /\ comments[j] # None BY <1>4
    <2>2. QED BY <1>6, <2>1 DEF TasksInv, ContentsTyped
<1>11. ContentsTyped' BY <1>1, <1>4, <1>5, <1>9, <1>10 DEF TasksInv, ContentsTyped
<1>12. \A j \in Existing' : <<"task", j>> \notin retired'
    <2> SUFFICES ASSUME NEW j \in Existing', <<"task", j>> \in retired' PROVE FALSE OBVIOUS
    <2>1. <<"task", j>> \notin retired BY <1>9 DEF TasksInv
    <2>2. j = i /\ tasks' = [tasks EXCEPT ![i] = None] BY <1>1, <2>1
    <2>3. tasks'[i] = None BY <1>3, <2>2 DEF TasksInv, ContentsTyped
    <2>4. QED BY <2>2, <2>3 DEF Existing
<1>13. \A j \in Existing' : comments'[j] # None => <<"comment", j>> \notin retired'
    BY <1>1, <1>4, <1>9 DEF TasksInv
<1>14. ASSUME NEW d \in Commands PROVE TaskCommandKnows(d)'
    <2>1. CASE d = c BY <1>5, <2>1 DEF TaskCommandKnows
    <2>2. CASE d # c
        <3>1. Unseen(cmd'[d])
            <4>1. ASSUME cmd[d].name = "recomment", cmd[d].id \in Existing',
                         <<"comment", cmd[d].id>> \notin retired'
                  PROVE  comments'[cmd[d].id] = comments[cmd[d].id]
                <5>1. cmd[d].id # i
                    <6>1. CASE UNCHANGED tasks /\ retired' = retired \cup {<<"comment", i>>}
                        BY <4>1, <6>1
                    <6>2. CASE tasks' = [tasks EXCEPT ![i] = None]
                        <7>1. tasks'[i] = None BY <1>3, <6>2 DEF TasksInv, ContentsTyped
                        <7>2. QED BY <4>1, <7>1 DEF Existing
                    <6>3. QED BY <1>1, <6>1, <6>2
                <5>2. QED BY <1>4, <1>9, <4>1, <5>1
            <4>2. QED BY <1>5, <1>9, <2>2, <4>1 DEF Unseen
        <3>2. QED BY <1>5, <1>8, <2>2, <3>1, TaskCommandStays
    <2>3. QED BY <2>1, <2>2
<1>15. QED BY <1>11, <1>12, <1>13, <1>14 DEF TasksInv

(* Where a task is and whom it is assigned to do not touch its contents.   *)
LEMMA PlacesKeep ==
    ASSUME NoneIsNoValue, TasksInv, NEW i \in Existing, NEW t,
           \E value : t = [tasks[i] EXCEPT !.place = value] \/ t = [tasks[i] EXCEPT !.assignment = value],
           tasks' = [tasks EXCEPT ![i] = t], UNCHANGED <<principal, comments, retired>>,
           DOMAIN cmd' = Commands,
           \A d \in Commands : cmd'[d] = cmd[d] \/ (IsTaskCommand(cmd'[d]) /\ cmd'[d].pc \in {"reload", "done"})
    PROVE  TasksInv'
<1>1. IsStored(tasks[i]) /\ i \in TaskIds /\ <<"task", i>> \notin retired
    BY DEF TasksInv, ContentsTyped, Existing
<1>2. /\ DOMAIN t = TaskFields /\ t.list = tasks[i].list /\ t.title = tasks[i].title
      /\ t.payload = tasks[i].payload /\ t.files = tasks[i].files
      /\ t.torn = tasks[i].torn /\ t.stray = tasks[i].stray
    BY <1>1 DEF IsStored, TaskFields
<1>3. IsStored(t) BY <1>1, <1>2 DEF IsStored
<1>4. principal' \in Principals \cup {None} BY DEF TasksInv, ContentsTyped
<1>5. /\ ContentsTyped' /\ Lasting
      /\ \A j \in Existing' : <<"task", j>> \notin retired'
      /\ \A j \in Existing' : comments'[j] # None => <<"comment", j>> \notin retired'
      /\ tasks'[i] = t /\ \A j \in TaskIds \ {i} : tasks'[j] = tasks[j]
    BY <1>1, <1>2, <1>3, <1>4, TaskStored
<1>6. \A r : Unseen(r) BY <1>2, <1>5 DEF Unseen, Existing
<1>7. ASSUME NEW d \in Commands PROVE TaskCommandKnows(d)'
    <2>1. CASE cmd'[d] = cmd[d] BY <1>5, <1>6, <2>1, TaskCommandStays
    <2>2. CASE IsTaskCommand(cmd'[d]) BY <1>5, <1>6, <2>2, KnowsAfter
    <2>3. QED BY <2>1, <2>2
<1>8. QED BY <1>5, <1>7 DEF TasksInv

LEMMA RelocationsKeep ==
    ASSUME NoneIsNoValue, TasksInv, NEW c \in Commands, Relocate(c) \/ UpdateDelegation(c)
    PROVE  TasksInv'
<1> DEFINE i == cmd[c].id
           shown == Project(cmd[c].key, tasks[i])
<1>1. cmd[c].pc = "send" /\ cmd[c].name # "create" /\ tasks[i] # None
    BY DEF Relocate, UpdateDelegation, Sending, Place
<1>2. IsTaskCommand(cmd[c]) BY <1>1, TaskRuns
<1>3. i \in Existing /\ DOMAIN tasks = TaskIds /\ i \in TaskIds
    BY <1>1, <1>2 DEF IsTaskCommand, Existing, TasksInv, ContentsTyped
<1>4. UNCHANGED <<principal, comments, retired>> BY DEF Relocate, UpdateDelegation
<1>5. CASE Relocate(c)
    <2> DEFINE r == Shown(cmd[c], shown)
               t == [tasks[i] EXCEPT !.place = Place[cmd[c].name]]
    <2>1. tasks' = [tasks EXCEPT ![i] = t] /\ cmd[c].name \in DOMAIN Place /\ cmd' = Answer(c, shown)
        BY <1>5 DEF Relocate
    <2>2. DOMAIN cmd' = Commands /\ cmd'[c] = r /\ \A d \in Commands \ {c} : cmd'[d] = cmd[d]
        BY <2>1 DEF Answer, TasksInv, ContentsTyped
    <2>3. IsTaskCommand(r) BY <1>1, <1>2, <2>1, ShownIsCommand DEF Place
    <2>4. r.pc = "done" BY <1>2 DEF Shown, IsTaskCommand, TaskCommandFields
    <2> HIDE DEF r
    <2>5. QED BY <1>3, <1>4, <2>1, <2>2, <2>3, <2>4, PlacesKeep
<1>6. CASE UpdateDelegation(c)
    <2> DEFINE r == [cmd[c] EXCEPT !.pc = "reload", !.witnessed = TRUE]
               t == [tasks[i] EXCEPT !.assignment = "accepted"]
    <2>1. tasks' = [tasks EXCEPT ![i] = t] /\ cmd[c].name = "accept" /\ Become(c, r)
        BY <1>6 DEF UpdateDelegation, Sending
    <2>2. DOMAIN cmd' = Commands /\ cmd'[c] = r /\ \A d \in Commands \ {c} : cmd'[d] = cmd[d]
        BY <2>1 DEF Become, TasksInv, ContentsTyped
    <2>3. /\ DOMAIN r = TaskCommandFields /\ r.pc = "reload" /\ r.witnessed
          /\ \A field \in TaskCommandFields \ {"pc", "witnessed"} : r[field] = cmd[c][field]
        BY <1>2 DEF IsTaskCommand, TaskCommandFields
    <2>4. /\ r.name = cmd[c].name /\ r.id = cmd[c].id /\ r.list = cmd[c].list /\ r.title = cmd[c].title
          /\ r.text = cmd[c].text /\ r.source = cmd[c].source /\ r.token = cmd[c].token
          /\ r.key = cmd[c].key /\ r.overtaken = cmd[c].overtaken
        BY <2>3 DEF TaskCommandFields
    <2> HIDE DEF r
    <2>5. IsTaskCommand(r) BY <1>2, <2>1, <2>3, <2>4 DEF IsTaskCommand, NeedKey
    <2>6. QED BY <1>3, <1>4, <2>1, <2>2, <2>3, <2>5, PlacesKeep
<1>7. QED BY <1>5, <1>6

(* A task that the web client writes                                       *)
LEMMA WebTaskIsStored ==
    ASSUME NoneIsNoValue, NEW l \in Lists, NEW title, NEW text, NEW chosen,
           NEW attachments, attachments = {Attach(ListKey(l), f) : f \in chosen},
           NEW t, DOMAIN t = TaskFields, t.list = l, t.files = chosen,
           t.torn \in BOOLEAN, t.stray \in BOOLEAN,
           t.title = Seal(ListKey(l), "title", Body(title, text, attachments).title),
           t.payload = Seal(ListKey(l), "task", Body(title, text, attachments))
    PROVE  IsStored(t)
<1> DEFINE key == ListKey(l)
           body == Body(title, text, attachments)
<1>1. /\ DOMAIN body = {"title", "text", "attachments"} /\ body.title = title
      /\ body.attachments = attachments
    BY DEF Body
<1>2. key # None BY DEF ListKey, NoneIsNoValue
<1>3. \A f : BlobRef(key, Attach(key, f)) = f BY <1>2, OpenSealed DEF BlobRef, Attach
<1> HIDE DEF body, key
<1>4. Referred(key, body) = chosen BY <1>1, <1>3 DEF Referred, key
<1>5. t.title = Seal(key, "title", body.title) /\ t.payload = Seal(key, "task", body) BY DEF key, body
<1>6. t.title.key = key /\ t.title.body = body.title /\ t.payload.key = key /\ t.payload.body = body
      /\ IsSealed(t.title, "title") /\ IsSealed(t.payload, "task")
    BY <1>5, SealedIs
<1>7. QED BY <1>1, <1>4, <1>6 DEF IsStored, key

LEMMA WebEditKeeps ==
    ASSUME NoneIsNoValue, TasksInv, WebEdit
    PROVE  TasksInv'
<1>1. PICK i \in Existing, title \in Titles, chosen \in SUBSET Files :
         LET l == tasks[i].list
             text == Project(ListKey(l), tasks[i]).text
         IN  /\ tasks' = [tasks EXCEPT ![i] =
                             [Task(l, ListKey(l), Body(title, text, {Attach(ListKey(l), f) : f \in chosen}), chosen) EXCEPT
                                 !.place = tasks[i].place, !.assignment = tasks[i].assignment]]
             /\ cmd' = Overtake({"update"}, i, cmd)
    BY DEF WebEdit
<1> DEFINE l == tasks[i].list
           text == Project(ListKey(l), tasks[i]).text
           t == [Task(l, ListKey(l), Body(title, text, {Attach(ListKey(l), f) : f \in chosen}), chosen) EXCEPT
                    !.place = tasks[i].place, !.assignment = tasks[i].assignment]
<1>2. tasks' = [tasks EXCEPT ![i] = t] /\ cmd' = Overtake({"update"}, i, cmd) BY <1>1
<1>3. l \in Lists /\ i \in TaskIds /\ <<"task", i>> \notin retired
    BY DEF TasksInv, ContentsTyped, IsStored, Existing
<1> HIDE DEF text
<1>4. IsStored(t) /\ t.list = l
    <2> DEFINE attachments == {Attach(ListKey(l), f) : f \in chosen}
               plain == Task(l, ListKey(l), Body(title, text, attachments), chosen)
    <2>1. t = [plain EXCEPT !.place = tasks[i].place, !.assignment = tasks[i].assignment]
        OBVIOUS
    <2> HIDE DEF attachments
    <2>2. /\ DOMAIN t = TaskFields /\ t.list = l /\ t.files = chosen
          /\ t.torn \in BOOLEAN /\ t.stray \in BOOLEAN
          /\ t.title = Seal(ListKey(l), "title", Body(title, text, attachments).title)
          /\ t.payload = Seal(ListKey(l), "task", Body(title, text, attachments))
        BY <2>1 DEF Task, TaskFields
    <2> HIDE DEF t
    <2>3. QED BY <1>3, <2>2, WebTaskIsStored DEF attachments
<1> HIDE DEF t
<1>5. UNCHANGED <<principal, comments, retired>> BY DEF WebEdit
<1>6. DOMAIN cmd' = Commands /\ principal' \in Principals \cup {None}
    BY <1>2, <1>5 DEF Overtake, TasksInv, ContentsTyped
<1>7. /\ ContentsTyped' /\ Lasting
      /\ \A j \in Existing' : <<"task", j>> \notin retired'
      /\ \A j \in Existing' : comments'[j] # None => <<"comment", j>> \notin retired'
      /\ tasks'[i] = t /\ \A j \in TaskIds \ {i} : tasks'[j] = tasks[j]
    BY <1>2, <1>3, <1>4, <1>5, <1>6, TaskStored
<1>8. ASSUME NEW d \in Commands PROVE TaskCommandKnows(d)'
    <2>1. /\ \/ cmd'[d] = cmd[d]
             \/ cmd[d] # Idle /\ cmd'[d] = [cmd[d] EXCEPT !.overtaken = TRUE]
          /\ cmd'[d].pc = "send" /\ cmd'[d].name \in {"update"} /\ cmd'[d].id = i => cmd'[d].overtaken
        BY <1>2, Overtaking
    <2>2. Unseen(cmd'[d]) BY <1>5, <1>7, <2>1 DEF Unseen, Existing
    <2>3. QED BY <1>7, <2>1, <2>2, TaskCommandStays
<1>9. QED BY <1>7, <1>8 DEF TasksInv

LEMMA WebCommentKeeps ==
    ASSUME NoneIsNoValue, TasksInv, WebComment
    PROVE  TasksInv'
<1>1. PICK i \in Existing, text \in Texts, mentions \in Users :
         /\ <<"comment", i>> \notin retired
         /\ comments' = [comments EXCEPT ![i] = Comment(ListKey(tasks[i].list), text, mentions, FALSE)]
         /\ cmd' = Overtake({"recomment"}, i, cmd)
    BY DEF WebComment
<1> DEFINE m == Comment(ListKey(tasks[i].list), text, mentions, FALSE)
<1>2. IsComment(m, tasks[i].list) BY CommentIs
<1> HIDE DEF m
<1>3. comments' = [comments EXCEPT ![i] = m] BY <1>1 DEF m
<1>4. UNCHANGED <<principal, tasks, retired>> BY DEF WebComment
<1>5. DOMAIN cmd' = Commands /\ principal' \in Principals \cup {None}
    BY <1>1, <1>4 DEF Overtake, TasksInv, ContentsTyped
<1>6. /\ ContentsTyped' /\ Lasting
      /\ \A j \in Existing' : <<"task", j>> \notin retired'
      /\ \A j \in Existing' : comments'[j] # None => <<"comment", j>> \notin retired'
      /\ comments'[i] = m /\ \A j \in TaskIds \ {i} : comments'[j] = comments[j]
    BY <1>1, <1>2, <1>3, <1>4, <1>5, CommentStored
<1>7. ASSUME NEW d \in Commands PROVE TaskCommandKnows(d)'
    <2>1. /\ \/ cmd'[d] = cmd[d]
             \/ cmd[d] # Idle /\ cmd'[d] = [cmd[d] EXCEPT !.overtaken = TRUE]
          /\ cmd'[d].pc = "send" /\ cmd'[d].name \in {"recomment"} /\ cmd'[d].id = i => cmd'[d].overtaken
        BY <1>1, Overtaking
    <2>2. Unseen(cmd'[d]) BY <1>4, <1>6, <2>1 DEF Unseen, Existing
    <2>3. QED BY <1>6, <2>1, <2>2, TaskCommandStays
<1>8. QED BY <1>6, <1>7 DEF TasksInv

LEMMA OthersKeepTasks ==
    ASSUME NoneIsNoValue, TasksInv, ChangeSession \/ Assign \/ UNCHANGED taskVars
    PROVE  TasksInv'
<1>1. CASE Assign
    <2>0. PICK i \in Existing : \E value : tasks' = [tasks EXCEPT ![i].assignment = value]
        BY <1>1 DEF Assign
    <2>1. PICK value : tasks' = [tasks EXCEPT ![i].assignment = value] BY <2>0
    <2>2. tasks' = [tasks EXCEPT ![i] = [tasks[i] EXCEPT !.assignment = value]] BY <2>1
    <2>3. UNCHANGED <<principal, comments, retired, cmd>> BY <1>1 DEF Assign
    <2>4. DOMAIN cmd' = Commands BY <2>3 DEF TasksInv, ContentsTyped
    <2>5. QED BY <2>2, <2>3, <2>4, PlacesKeep
<1>2. CASE ChangeSession \/ UNCHANGED taskVars
    <2>1. UNCHANGED <<tasks, comments, retired, cmd>> /\ principal' \in Principals \cup {None}
        BY <1>2 DEF ChangeSession, taskVars, TasksInv, ContentsTyped
    <2>2. Existing' = Existing /\ Unused' = Unused BY <2>1 DEF Existing, Unused
    <2>3. ContentsTyped' BY <2>1, <2>2 DEF TasksInv, ContentsTyped
    <2>4. \A d \in Commands : TaskCommandKnows(d)'
        BY <2>1, <2>2, TaskCommandStays DEF Lasting, Unseen
    <2>5. QED BY <2>1, <2>2, <2>3, <2>4 DEF TasksInv
<1>3. QED BY <1>1, <1>2

LEMMA TasksBegin ==
    ASSUME NoneIsNoValue, TasksInit
    PROVE  TasksInv
<1>1. PICK l \in Lists, title \in Titles, assignment \in {None, "pending", "declined"} :
         LET task == [Task(l, ListKey(l), Body(title, None, {Attach(ListKey(l), f) : f \in Files}), Files) EXCEPT !.assignment = assignment]
         IN  tasks = [i \in TaskIds |-> IF i = 1 THEN task ELSE None]
    BY DEF TasksInit
<1> DEFINE attachments == {Attach(ListKey(l), f) : f \in Files}
           plain == Task(l, ListKey(l), Body(title, None, attachments), Files)
           t == [plain EXCEPT !.assignment = assignment]
<1>2. /\ DOMAIN t = TaskFields /\ t.list = l /\ t.files = Files
      /\ t.torn \in BOOLEAN /\ t.stray \in BOOLEAN
      /\ t.title = Seal(ListKey(l), "title", Body(title, None, attachments).title)
      /\ t.payload = Seal(ListKey(l), "task", Body(title, None, attachments))
    <2> HIDE DEF attachments
    <2>1. QED BY DEF Task, TaskFields
<1>3. IsStored(t) /\ t.list = l
    <2> HIDE DEF t
    <2>1. QED BY <1>2, WebTaskIsStored
<1>4. tasks = [i \in TaskIds |-> IF i = 1 THEN t ELSE None] BY <1>1
<1> HIDE DEF t
<1>5. PICK text : comments = [i \in TaskIds |->
                                 IF i = 1 THEN Comment(ListKey(tasks[1].list), text, None, FALSE) ELSE None]
    BY DEF TasksInit
<1>6. \A i \in TaskIds : tasks[i] # None => i = 1 /\ tasks[i] = t BY <1>4
<1>7. ASSUME NEW i \in Existing PROVE IsStored(tasks[i]) /\ IsComment(comments[i], tasks[i].list)
    <2>1. i \in TaskIds /\ i = 1 /\ tasks[i] = t BY <1>6 DEF Existing
    <2>2. comments[i] = Comment(ListKey(tasks[i].list), text, None, FALSE) BY <1>5, <2>1
    <2>3. IsComment(Comment(ListKey(tasks[i].list), text, None, FALSE), tasks[i].list) BY CommentIs
    <2>4. QED BY <1>3, <2>1, <2>2, <2>3
<1>8. \A i \in TaskIds : comments[i] # None => i \in Existing
    <2>1. t # None BY <1>3 DEF IsStored, NoneIsNoValue
    <2>2. QED BY <1>4, <1>5, <2>1 DEF Existing
<1>9. DOMAIN tasks = TaskIds /\ DOMAIN comments = TaskIds BY <1>4, <1>5
<1>10. retired = {} /\ principal \in Principals /\ DOMAIN cmd = Commands /\ \A c \in Commands : cmd[c] = Idle
    BY DEF TasksInit
<1>11. QED BY <1>7, <1>8, <1>9, <1>10 DEF TasksInv, ContentsTyped, TaskCommandKnows

(* The invariant of the commands on tasks and comments: every sealed value, *)
(* and what every command holds of what it is about to write over          *)
THEOREM TasksInvariant ==
    ASSUME NoneIsNoValue
    PROVE  TasksSpec => []TasksInv
<1>1. ASSUME TasksInit PROVE TasksInv BY <1>1, TasksBegin
<1>2. ASSUME TasksInv, [TasksNext]_taskVars PROVE TasksInv'
    <2>1. ASSUME NEW c \in Commands, Start(c) PROVE TasksInv' BY <1>2, <2>1, StartKeeps
    <2>2. ASSUME NEW c \in Commands, Connect(c) PROVE TasksInv' BY <1>2, <2>2, ConnectKeeps
    <2>3. ASSUME NEW c \in Commands,
                 \/ GetTask(c) \/ FetchForUpdate(c) \/ FetchForRecomment(c) \/ FetchForAccept(c)
                 \/ FetchForDownload(c) \/ Download(c) \/ ListComments(c) \/ Reload(c)
          PROVE  TasksInv'
        BY <1>2, <2>3, ReadsKeep
    <2>4. ASSUME NEW c \in Commands, CreateTask(c) PROVE TasksInv' BY <1>2, <2>4, CreateTaskKeeps
    <2>5. ASSUME NEW c \in Commands, Update(c) PROVE TasksInv' BY <1>2, <2>5, UpdateKeeps
    <2>6. ASSUME NEW c \in Commands, AddComment(c) \/ Recomment(c) PROVE TasksInv'
        BY <1>2, <2>6, CommentsKeep
    <2>7. ASSUME NEW c \in Commands, Uncomment(c) \/ Delete(c) PROVE TasksInv'
        BY <1>2, <2>7, DeletionsKeep
    <2>8. ASSUME NEW c \in Commands, Relocate(c) \/ UpdateDelegation(c) PROVE TasksInv'
        BY <1>2, <2>8, RelocationsKeep
    <2>9. ASSUME NEW c \in Commands, FailTask(c) \/ ReturnTask(c) PROVE TasksInv'
        BY <1>2, <2>9, TaskEndsKeep
    <2>10. CASE WebEdit BY <1>2, <2>10, WebEditKeeps
    <2>11. CASE WebComment BY <1>2, <2>11, WebCommentKeeps
    <2>12. CASE ChangeSession \/ Assign \/ UNCHANGED taskVars BY <1>2, <2>12, OthersKeepTasks
    <2>13. QED BY <1>2, <2>1, <2>2, <2>3, <2>4, <2>5, <2>6, <2>7, <2>8, <2>9, <2>10, <2>11, <2>12
               DEF TasksNext, Proceed
<1>3. QED BY <1>1, <1>2, PTL DEF TasksSpec

(* Whatever a command writes is sealed under the key of its list, which    *)
(* every member and granted agent finds, if the session stood still.       *)
THEOREM ListKeyFound ==
    ASSUME NoneIsNoValue
    PROVE  TasksSpec => []SealedUnderListKey
<1>1. TasksInv => SealedUnderListKey
    BY DEF TasksInv, ContentsTyped, IsStored, IsComment, SealedUnderListKey
<1>2. QED BY <1>1, TasksInvariant, PTL

(* The two copies of a title agree, and the payload refers to the files    *)
(* that the task has, unless an update wrote over what it had not read.    *)
THEOREM CopiesStayEqual ==
    ASSUME NoneIsNoValue
    PROVE  TasksSpec => []CopiesAgree
<1>1. TasksInv => CopiesAgree
    BY DEF TasksInv, ContentsTyped, IsStored, Referred, CopiesAgree
<1>2. QED BY <1>1, TasksInvariant, PTL

(* An agent that is told that it accepted a task did.                      *)
THEOREM ToldWhenAccepted ==
    ASSUME NoneIsNoValue
    PROVE  TasksSpec => []AcceptedWhenTold
<1>1. TasksInv => AcceptedWhenTold
    <2> SUFFICES ASSUME TasksInv, NEW c \in Commands, cmd[c].pc = "done", cmd[c].name = "accept"
                 PROVE  cmd[c].witnessed
        BY DEF AcceptedWhenTold
    <2>1. IsTaskCommand(cmd[c]) BY TaskRuns
    <2>2. QED BY <2>1 DEF IsTaskCommand
<1>2. QED BY <1>1, TasksInvariant, PTL

(* A command that is done at the end of a step that began at the request   *)
(* took that step itself, if it is an update of a task or of a comment.    *)
LEMMA OnlyOwnWrites ==
    ASSUME TasksInv, [TasksNext]_taskVars, NEW c \in Commands,
           cmd[c].pc = "send", cmd[c].name \in {"update", "recomment"}, cmd'[c].pc = "done"
    PROVE  Update(c) \/ Recomment(c)
<1>1. IsTaskCommand(cmd[c]) BY TaskRuns
<1>2. ASSUME cmd'[c] = cmd[c] \/ cmd'[c] = Idle \/ cmd'[c] = [cmd[c] EXCEPT !.overtaken = TRUE]
      PROVE  FALSE
    <2>1. [cmd[c] EXCEPT !.overtaken = TRUE].pc = "send" BY <1>1, OvertakenIsCommand
    <2>2. Idle.pc # "done" BY DEF Idle
    <2>3. cmd[c].pc # "done" OBVIOUS
    <2>4. cmd'[c].pc \in {cmd[c].pc, Idle.pc, "send"} BY <1>2, <2>1
    <2>5. QED BY <2>2, <2>3, <2>4
<1>3. ASSUME NEW names, NEW i, NEW commands, cmd' = Overtake(names, i, commands), commands[c] = cmd[c]
      PROVE  FALSE
    BY <1>2, <1>3 DEF Overtake
<1>4. ASSUME NEW d \in Commands, d # c,
             Start(d) \/ Proceed(d) \/ FailTask(d) \/ ReturnTask(d)
      PROVE  FALSE
    <2>1. ASSUME NEW r, Become(d, r) PROVE FALSE
        BY <1>2, <1>4, <2>1 DEF Become, TasksInv, ContentsTyped
    <2>2. ASSUME NEW shown PROVE Answer(d, shown)[c] = cmd[c]
        BY <1>4 DEF Answer, TasksInv, ContentsTyped
    <2>3. CASE Start(d) \/ FailTask(d) \/ ReturnTask(d)
        BY <2>1, <2>3 DEF Start, StartCreate, StartUpdate, StartComment, StartAccept, StartOther, Issue,
                          FailTask, ReturnTask
    <2>4. CASE Update(d) \/ Recomment(d)
        BY <1>3, <2>2, <2>4 DEF Update, Recomment
    <2>5. CASE CreateTask(d) \/ AddComment(d) \/ Relocate(d)
        BY <1>2, <2>2, <2>5 DEF CreateTask, AddComment, Relocate
    <2>6. CASE Connect(d) \/ GetTask(d) \/ FetchForUpdate(d) \/ FetchForRecomment(d) \/ FetchForAccept(d)
        BY <2>1, <2>6 DEF Connect, GetTask, FetchForUpdate, FetchForRecomment, FetchForAccept
    <2>7. CASE FetchForDownload(d) \/ Download(d) \/ ListComments(d) \/ Uncomment(d) \/ Delete(d)
               \/ UpdateDelegation(d) \/ Reload(d)
        BY <2>1, <2>7 DEF FetchForDownload, Download, ListComments, Uncomment, Delete, UpdateDelegation, Reload
    <2>8. QED BY <1>4, <2>3, <2>4, <2>5, <2>6, <2>7 DEF Proceed
<1>5. ASSUME Start(c) \/ FailTask(c) \/ ReturnTask(c) PROVE FALSE
    <2>1. ASSUME Start(c) PROVE cmd[c] = Idle
        BY <2>1 DEF Start, StartCreate, StartUpdate, StartComment, StartAccept, StartOther, Issue
    <2>2. ASSUME FailTask(c) \/ ReturnTask(c) PROVE cmd'[c] = Idle
        BY <2>2 DEF FailTask, ReturnTask, Become, TasksInv, ContentsTyped
    <2>3. QED BY <1>2, <1>5, <2>1, <2>2 DEF Idle
<1>6. ASSUME Proceed(c) PROVE Update(c) \/ Recomment(c)
    <2>1. ~(Connect(c) \/ GetTask(c) \/ FetchForUpdate(c) \/ FetchForRecomment(c)
            \/ FetchForAccept(c) \/ FetchForDownload(c) \/ Reload(c))
        BY DEF Connect, GetTask, FetchForUpdate, FetchForRecomment, FetchForAccept, FetchForDownload,
               Reload, Fetched
    <2>2. ~(Download(c) \/ CreateTask(c) \/ AddComment(c) \/ ListComments(c)
            \/ Uncomment(c) \/ Relocate(c) \/ Delete(c) \/ UpdateDelegation(c))
        BY DEF Download, CreateTask, AddComment, ListComments, Uncomment, Relocate, Delete, UpdateDelegation,
               Sending, Place
    <2>3. QED BY <1>6, <2>1, <2>2 DEF Proceed
<1>7. CASE ChangeSession \/ Assign \/ UNCHANGED taskVars
    BY <1>2, <1>7 DEF ChangeSession, Assign, taskVars
<1>8. CASE WebEdit \/ WebComment BY <1>3, <1>8 DEF WebEdit, WebComment
<1>9. QED BY <1>4, <1>5, <1>6, <1>7, <1>8 DEF TasksNext

(* An update that nothing overtook changes what it was given and nothing   *)
(* else, whatever other commands and the web client do.                    *)
THEOREM UpdatesChangeWhatWasGiven ==
    ASSUME NoneIsNoValue
    PROVE  TasksSpec => UpdatesAreExact
<1>1. ASSUME TasksInv, [TasksNext]_taskVars, NEW c \in Commands PROVE UpdateIsExact(c)
    <2> DEFINE r == cmd[c]
               i == r.id
    <2> SUFFICES ASSUME r.pc = "send", r.name \in {"update", "recomment"}, cmd'[c].pc = "done", ~r.overtaken
                 PROVE  Exactly(c)
        BY DEF UpdateIsExact
    <2>1. IsTaskCommand(r) BY <1>1, TaskRuns
    <2>2. Update(c) \/ Recomment(c) BY <1>1, OnlyOwnWrites
    <2>3. i \in Existing /\ i \in TaskIds /\ r.key # None
        BY <2>1, <2>2 DEF Update, Recomment, IsTaskCommand, NeedKey, Existing
    <2>4. CASE Update(c)
        <3> DEFINE body == Updated(r.base, r.title, r.text)
                   old == Open(r.key, "task", tasks[i].payload)
                   new == Open(r.key, "task", tasks'[i].payload)
        <3>1. r.name = "update" /\ tasks'[i] = Reseal(c, tasks[i])
            BY <1>1, <2>3, <2>4 DEF Update, Sending, TasksInv, ContentsTyped
        <3>2. IsStored(tasks[i]) BY <1>1, <2>3 DEF TasksInv, ContentsTyped
        <3>3. tasks'[i].payload = Seal(r.key, "task", body)
            BY <3>1, <3>2 DEF Reseal, IsStored, TaskFields
        <3>4. new = body BY <2>3, <3>3, OpenSealed
        <3>5. tasks[i].payload.key = r.key /\ tasks[i].payload.body = r.base
              /\ DOMAIN r.base = {"title", "text", "attachments"} /\ r.text \in Given(Texts)
            BY <2>1, <2>3, <3>1 DEF IsTaskCommand
        <3>6. tasks[i].payload # None /\ tasks[i].payload.context = "task"
            BY <3>2 DEF IsStored, IsSealed, NoneIsNoValue
        <3>7. old = r.base BY <2>3, <3>5, <3>6 DEF Open
        <3>8. /\ body.title = IF r.title = None THEN r.base.title ELSE r.title
              /\ body.attachments = r.base.attachments
              /\ body.text = IF r.text = None THEN r.base.text ELSE IF r.text = "blank" THEN None ELSE r.text
            BY <3>5 DEF Updated
        <3> HIDE DEF body, old, new
        <3>9. /\ new.title = IF r.title = None THEN old.title ELSE r.title
              /\ r.text = None => new.text = old.text
              /\ r.text \in Texts => new.text = r.text
              /\ new.attachments = old.attachments
            BY <3>4, <3>7, <3>8, GivenAssumption
        <3>10. QED BY <3>1, <3>9 DEF Exactly, old, new
    <2>5. CASE Recomment(c)
        <3> DEFINE body == [text |-> r.text, mentions |-> r.base.mentions]
        <3>1. /\ r.name = "recomment" /\ comments[i] # None
              /\ comments'[i] = Comment(r.key, r.text, r.base.mentions, Stray(c))
            BY <1>1, <2>3, <2>5 DEF Recomment, Sending, TasksInv, ContentsTyped
        <3>2. IsComment(comments[i], tasks[i].list) BY <1>1, <2>3, <3>1 DEF TasksInv, ContentsTyped
        <3>3. <<"comment", i>> \notin retired BY <1>1, <2>3, <3>1 DEF TasksInv
        <3>4. comments[i].body.key = r.key /\ comments[i].body.body = r.base
              /\ DOMAIN r.base = {"text", "mentions"}
            BY <2>1, <2>3, <3>1, <3>3 DEF IsTaskCommand
        <3>5. comments[i].body # None /\ comments[i].body.context = "comment"
            BY <3>2 DEF IsComment, IsSealed, NoneIsNoValue
        <3>6. Open(r.key, "comment", comments[i].body) = r.base BY <2>3, <3>4, <3>5 DEF Open
        <3>7. comments'[i].body = Seal(r.key, "comment", body) BY <3>1 DEF Comment
        <3>8. Open(r.key, "comment", comments'[i].body) = body BY <2>3, <3>7, OpenSealed
        <3>9. body = [r.base EXCEPT !.text = r.text] BY <3>4
        <3>10. QED BY <3>1, <3>6, <3>8, <3>9 DEF Exactly
    <2>6. QED BY <2>2, <2>4, <2>5
<1>2. TasksInv /\ [TasksNext]_taskVars => [\A c \in Commands : UpdateIsExact(c)]_taskVars
    BY <1>1
<1>3. QED BY <1>2, TasksInvariant, PTL DEF TasksSpec, UpdatesAreExact

----------------------------------------------------------------------------
(* Sequences: what InsertAt and RemoveAt of the community modules do.      *)
LEMMA RemoveAtProperties ==
    ASSUME NEW S, NEW s \in Seq(S), NEW k \in 1 .. Len(s)
    PROVE  /\ RemoveAt(s, k) \in Seq(S)
           /\ Len(RemoveAt(s, k)) = Len(s) - 1
           /\ \A i \in 1 .. Len(s) - 1 : RemoveAt(s, k)[i] = s[IF i < k THEN i ELSE i + 1]
  <1> DEFINE front == SubSeq(s, 1, k - 1)
             back  == SubSeq(s, k + 1, Len(s))
  <1>1. Len(s) \in Nat /\ k \in Int /\ \A i \in 1 .. Len(s) : s[i] \in S
    BY ElementOfSeq
  <1>2. /\ front \in Seq(S) /\ Len(front) = k - 1
        /\ \A i \in 1 .. k - 1 : front[i] = s[i]
    <2>1. \A i \in 1 .. k - 1 : s[i] \in S /\ 1 + i - 1 = i
      BY <1>1
    <2>2. /\ front \in Seq(S) /\ Len(front) = IF 1 <= k - 1 THEN k - 1 - 1 + 1 ELSE 0
          /\ \A i \in 1 .. k - 1 - 1 + 1 : front[i] = s[1 + i - 1]
      <3> HIDE DEF front
      <3> QED BY <1>1, <2>1, SubSeqProperties DEF front
    <2> HIDE DEF front
    <2>3. k - 1 - 1 + 1 = k - 1 /\ (1 <= k - 1 \/ k - 1 = 0) BY <1>1
    <2> QED BY ONLY <2>1, <2>2, <2>3
  <1>3. /\ back \in Seq(S) /\ Len(back) = Len(s) - k
        /\ \A i \in 1 .. Len(s) - k : back[i] = s[k + i]
    <2>1. \A i \in k + 1 .. Len(s) : s[i] \in S
      BY <1>1
    <2>2. /\ back \in Seq(S) /\ Len(back) = IF k + 1 <= Len(s) THEN Len(s) - (k + 1) + 1 ELSE 0
          /\ \A i \in 1 .. Len(s) - (k + 1) + 1 : back[i] = s[(k + 1) + i - 1]
      BY <1>1, <2>1, SubSeqProperties
    <2> HIDE DEF back
    <2>3. \A i \in 1 .. Len(s) - k : (k + 1) + i - 1 = k + i
      BY <1>1
    <2> QED BY <1>1, <2>2, <2>3
  <1> HIDE DEF front, back
  <1>4. /\ front \o back \in Seq(S) /\ Len(front \o back) = Len(s) - 1
        /\ \A i \in 1 .. Len(s) - 1 :
              (front \o back)[i] = IF i <= k - 1 THEN front[i] ELSE back[i - (k - 1)]
    <2>1. /\ front \o back \in Seq(S) /\ Len(front \o back) = Len(front) + Len(back)
          /\ \A i \in 1 .. Len(front) + Len(back) :
                (front \o back)[i] = IF i <= Len(front) THEN front[i] ELSE back[i - Len(front)]
      BY <1>2, <1>3, ConcatProperties
    <2>2. Len(front) = k - 1 /\ Len(front) + Len(back) = Len(s) - 1
      BY <1>1, <1>2, <1>3
    <2> QED BY ONLY <2>1, <2>2
  <1>5. \A i \in 1 .. Len(s) - 1 : /\ i < k => i <= k - 1 /\ i \in 1 .. k - 1
                                  /\ ~ (i < k) => /\ ~ (i <= k - 1)
                                                  /\ i - (k - 1) \in 1 .. Len(s) - k
                                                  /\ k + (i - (k - 1)) = i + 1
    BY <1>1
  <1>6. ASSUME NEW i \in 1 .. Len(s) - 1
        PROVE  (front \o back)[i] = s[IF i < k THEN i ELSE i + 1]
    <2>1. CASE i < k
      BY <2>1, <1>2, <1>4, <1>5
    <2>2. CASE ~ (i < k)
      BY <2>2, <1>3, <1>4, <1>5
    <2> QED BY <2>1, <2>2
  <1> QED BY <1>4, <1>6 DEF RemoveAt, front, back

LEMMA InsertAtProperties ==
    ASSUME NEW S, NEW s \in Seq(S), NEW k \in 1 .. Len(s) + 1, NEW e \in S
    PROVE  /\ InsertAt(s, k, e) \in Seq(S)
           /\ Len(InsertAt(s, k, e)) = Len(s) + 1
           /\ \A i \in 1 .. Len(s) + 1 :
                 InsertAt(s, k, e)[i] = IF i < k THEN s[i] ELSE IF i = k THEN e ELSE s[i - 1]
<1> DEFINE front == SubSeq(s, 1, k - 1)
           back  == SubSeq(s, k, Len(s))
           upto  == front \o <<e>>
<1>1. Len(s) \in Nat /\ k \in Int /\ \A i \in 1 .. Len(s) : s[i] \in S
    BY ElementOfSeq
<1>2. /\ front \in Seq(S) /\ Len(front) = k - 1
      /\ \A i \in 1 .. k - 1 : front[i] = s[i]
    <2>1. \A i \in 1 .. k - 1 : s[i] \in S /\ 1 + i - 1 = i
        BY <1>1
    <2>2. /\ front \in Seq(S) /\ Len(front) = IF 1 <= k - 1 THEN k - 1 - 1 + 1 ELSE 0
          /\ \A i \in 1 .. k - 1 - 1 + 1 : front[i] = s[1 + i - 1]
        <3> HIDE DEF front
        <3>1. QED BY <1>1, <2>1, SubSeqProperties DEF front
    <2> HIDE DEF front
    <2>3. k - 1 - 1 + 1 = k - 1 /\ (1 <= k - 1 \/ k - 1 = 0) BY <1>1
    <2>4. QED BY ONLY <2>1, <2>2, <2>3
<1>3. /\ back \in Seq(S) /\ Len(back) = Len(s) - k + 1
      /\ \A i \in 1 .. Len(s) - k + 1 : back[i] = s[k + i - 1]
    <2>1. \A i \in k .. Len(s) : s[i] \in S
        BY <1>1
    <2>2. /\ back \in Seq(S) /\ Len(back) = IF k <= Len(s) THEN Len(s) - k + 1 ELSE 0
          /\ \A i \in 1 .. Len(s) - k + 1 : back[i] = s[k + i - 1]
        BY <1>1, <2>1, SubSeqProperties
    <2> HIDE DEF back
    <2>3. QED BY <1>1, <2>2
<1> HIDE DEF front, back
<1>4. /\ upto \in Seq(S) /\ Len(upto) = k
      /\ \A i \in 1 .. k - 1 : upto[i] = s[i]
      /\ upto[k] = e
    <2>1. <<e>> \in Seq(S) /\ Len(<<e>>) = 1 /\ <<e>>[1] = e
        OBVIOUS
    <2>2. /\ upto \in Seq(S) /\ Len(upto) = Len(front) + Len(<<e>>)
          /\ \A i \in 1 .. Len(front) + Len(<<e>>) :
                upto[i] = IF i <= Len(front) THEN front[i] ELSE <<e>>[i - Len(front)]
        BY <1>2, <2>1, ConcatProperties
    <2> HIDE DEF upto
    <2>3. Len(front) = k - 1 /\ Len(front) + Len(<<e>>) = k /\ k - Len(front) = 1
        BY <1>1, <1>2, <2>1
    <2>4. \A i \in 1 .. k - 1 : i \in 1 .. k /\ i <= k - 1
        BY <1>1
    <2>5. k \in 1 .. k /\ ~(k <= k - 1) BY <1>1
    <2>6. QED BY ONLY <1>2, <2>1, <2>2, <2>3, <2>4, <2>5
<1> HIDE DEF upto
<1>5. /\ upto \o back \in Seq(S) /\ Len(upto \o back) = Len(s) + 1
      /\ \A i \in 1 .. Len(s) + 1 : (upto \o back)[i] = IF i <= k THEN upto[i] ELSE back[i - k]
    <2>1. /\ upto \o back \in Seq(S) /\ Len(upto \o back) = Len(upto) + Len(back)
          /\ \A i \in 1 .. Len(upto) + Len(back) :
                (upto \o back)[i] = IF i <= Len(upto) THEN upto[i] ELSE back[i - Len(upto)]
        BY <1>3, <1>4, ConcatProperties
    <2>2. Len(upto) = k /\ Len(upto) + Len(back) = Len(s) + 1
        BY <1>1, <1>3, <1>4
    <2>3. QED BY ONLY <2>1, <2>2
<1>6. \A i \in 1 .. Len(s) + 1 : /\ i < k => i <= k /\ i \in 1 .. k - 1
                                 /\ i > k => /\ ~(i <= k) /\ ~(i < k) /\ i # k
                                             /\ i - k \in 1 .. Len(s) - k + 1
                                             /\ k + (i - k) - 1 = i - 1
                                 /\ i < k \/ i = k \/ i > k
    BY <1>1
<1>7. ASSUME NEW i \in 1 .. Len(s) + 1
      PROVE  (upto \o back)[i] = IF i < k THEN s[i] ELSE IF i = k THEN e ELSE s[i - 1]
    <2>1. CASE i < k BY <2>1, <1>4, <1>5, <1>6
    <2>2. CASE i = k BY <2>2, <1>1, <1>4, <1>5
    <2>3. CASE i > k
        <3>1. (upto \o back)[i] = back[i - k] BY <2>3, <1>5, <1>6
        <3>2. back[i - k] = s[i - 1] BY <2>3, <1>3, <1>6
        <3>3. QED BY <2>3, <1>6, <3>1, <3>2
    <2>4. QED BY <1>6, <2>1, <2>2, <2>3
<1>8. InsertAt(s, k, e) = upto \o back BY DEF InsertAt, upto, front, back
<1>9. QED BY <1>5, <1>7, <1>8

(* A page is the next tasks of the sequence, and is short only at its end. *)
LEMMA PageProperties ==
    ASSUME assigned \in Seq(AllTasks), NEW offset \in Nat
    PROVE  /\ Page(offset) \in Seq(AllTasks) /\ Len(Page(offset)) \in Nat
           /\ \A i \in 1 .. Len(Page(offset)) :
                 offset + i \in 1 .. Len(assigned) /\ Page(offset)[i] = assigned[offset + i]
           /\ \/ Len(Page(offset)) = Limit
              \/ \A k \in 1 .. Len(assigned) : k <= offset + Len(Page(offset))
<1> DEFINE last == IF offset + Limit < Len(assigned) THEN offset + Limit ELSE Len(assigned)
           page == SubSeq(assigned, offset + 1, last)
<1>1. Limit \in Nat /\ Limit > 0 /\ Len(assigned) \in Nat BY LimitAssumption
<1>2. last \in Int /\ last <= Len(assigned) /\ (last = offset + Limit \/ last = Len(assigned))
      /\ offset + 1 \in Int
    BY <1>1
<1> HIDE DEF last
<1>3. \A i \in offset + 1 .. last : assigned[i] \in AllTasks
    BY <1>1, <1>2, ElementOfSeq
<1>4. /\ page \in Seq(AllTasks)
      /\ Len(page) = IF offset + 1 <= last THEN last - (offset + 1) + 1 ELSE 0
      /\ \A i \in 1 .. last - (offset + 1) + 1 : page[i] = assigned[offset + 1 + i - 1]
    BY <1>2, <1>3, SubSeqProperties
<1> HIDE DEF page
<1>5. Len(page) = IF offset < last THEN last - offset ELSE 0 BY <1>2, <1>4
<1>6. ASSUME NEW i \in 1 .. Len(page)
      PROVE  offset + i \in 1 .. Len(assigned) /\ page[i] = assigned[offset + i]
    <2>1. i \in 1 .. last - (offset + 1) + 1 /\ offset + 1 + i - 1 = offset + i
          /\ offset + i \in 1 .. Len(assigned)
        BY <1>1, <1>2, <1>5
    <2>2. QED BY <1>4, <2>1
<1>7. Len(page) \in Nat /\ (Len(page) = Limit \/ \A k \in 1 .. Len(assigned) : k <= offset + Len(page))
    BY <1>1, <1>2, <1>5
<1>8. Page(offset) = page BY DEF Page, page, last
<1>9. QED BY <1>4, <1>6, <1>7, <1>8

----------------------------------------------------------------------------
(* The walk over the assigned tasks *)

WalkFields == {"pc", "contexts", "offset", "tasks"}

WalkTyped ==
    /\ assigned \in Seq(AllTasks) /\ IsInjective(assigned)
    /\ DOMAIN walk = WalkFields /\ walk.tasks \in Seq(AllTasks)
    /\ walk.pc \in {"idle", "walking", "done", "failed"}
    /\ walk.offset \in Nat
    /\ walk.pc \in {"idle", "walking"} => walk.offset = Len(walk.tasks)
    /\ walk.pc = "idle" => walk.tasks = <<>>
    /\ inserted \in BOOLEAN /\ removed \in BOOLEAN

Ahead(t) == \E k \in 1 .. Len(assigned) : walk.offset < k /\ assigned[k] = t

(* What was assigned the whole time is listed or lies ahead, until a task  *)
(* is removed; what is listed does not lie ahead, until one is inserted.   *)
WalkInv ==
    /\ WalkTyped
    /\ \A k \in 1 .. Len(assigned) : ListOf[assigned[k]] \in lists
    /\ \A t \in steady : ListOf[t] \in walk.contexts
    /\ walk.pc = "walking" /\ ~removed => \A t \in steady : Listed(t) \/ Ahead(t)
    /\ walk.pc = "done" /\ ~removed => \A t \in steady : Listed(t)
    /\ ~inserted => IsInjective(walk.tasks)
    /\ walk.pc = "walking" /\ ~inserted => \A t \in AllTasks : ~(Listed(t) /\ Ahead(t))

LEMMA FetchKeeps ==
    ASSUME WalkInv, Fetch
    PROVE  WalkInv'
<1> DEFINE page == Page(walk.offset)
           walked == walk.tasks \o page
           isLast == IsLast(page, walked)
           n == Len(walk.tasks)
<1>1. walk.offset \in Nat /\ walk.offset = n /\ n \in Nat /\ Len(assigned) \in Nat
    BY LenProperties DEF WalkInv, WalkTyped, Fetch
<1>2. /\ page \in Seq(AllTasks) /\ Len(page) \in Nat
      /\ \A i \in 1 .. Len(page) : n + i \in 1 .. Len(assigned) /\ page[i] = assigned[n + i]
      /\ \/ Len(page) = Limit
         \/ \A k \in 1 .. Len(assigned) : k <= n + Len(page)
    BY <1>1, PageProperties DEF WalkInv, WalkTyped
<1>3. UNCHANGED <<assigned, lists, steady, inserted, removed>> /\ walk.pc = "walking"
    BY DEF Fetch
<1>4. walk' = [walk EXCEPT !.tasks = walked, !.pc = IF isLast THEN "done" ELSE "walking",
                           !.offset = IF isLast THEN walk.offset ELSE walk.offset + Len(page)]
    BY DEF Fetch, NextOffset
<1>5. /\ DOMAIN walk' = WalkFields /\ walk'.tasks = walked /\ walk'.contexts = walk.contexts
      /\ walk'.pc = (IF isLast THEN "done" ELSE "walking")
      /\ walk'.offset = (IF isLast THEN walk.offset ELSE walk.offset + Len(page))
    BY <1>4 DEF WalkInv, WalkTyped, WalkFields
<1>6. isLast => \A k \in 1 .. Len(assigned) : k <= n + Len(page)
    <2>1. Len(walked) = n + Len(page)
        BY <1>2, ConcatProperties DEF WalkInv, WalkTyped
    <2>2. isLast <=> \/ Len(page) = 0
                     \/ Len(page) < Limit
                     \/ Len(walked) >= Len(assigned)
        BY DEF IsLast
    <2> HIDE DEF page, walked, isLast, n
    <2>3. CASE Len(page) = Limit
        <3>1. Len(page) # 0 /\ ~(Len(page) < Limit) BY <2>3, LimitAssumption
        <3>2. QED BY <1>1, <1>2, <2>1, <2>2, <3>1
    <2>4. CASE \A k \in 1 .. Len(assigned) : k <= n + Len(page)
        BY <2>4
    <2>5. QED BY <1>2, <2>3, <2>4
<1>7. /\ walked \in Seq(AllTasks) /\ Len(walked) = n + Len(page)
      /\ DOMAIN walked = 1 .. n + Len(page) /\ DOMAIN walk.tasks = 1 .. n
      /\ \A i \in 1 .. n : walked[i] = walk.tasks[i]
      /\ \A i \in n + 1 .. n + Len(page) : walked[i] = assigned[i]
    <2>1. /\ walked \in Seq(AllTasks) /\ Len(walked) = n + Len(page)
          /\ \A i \in 1 .. n + Len(page) : walked[i] = IF i <= n THEN walk.tasks[i] ELSE page[i - n]
        <3>1. walk.tasks \in Seq(AllTasks) /\ page \in Seq(AllTasks)
            BY <1>2 DEF WalkInv, WalkTyped
        <3> HIDE DEF page
        <3>2. QED BY <3>1, ConcatProperties, Zenon
    <2>2. DOMAIN walked = 1 .. Len(walked) /\ DOMAIN walk.tasks = 1 .. n
        BY <2>1, LenProperties DEF WalkInv, WalkTyped
    <2> HIDE DEF page, walked, n
    <2>3. ASSUME NEW i \in n + 1 .. n + Len(page) PROVE walked[i] = assigned[i]
        <3>1. i \in 1 .. n + Len(page) /\ ~(i <= n) /\ i - n \in 1 .. Len(page) /\ n + (i - n) = i
            BY <1>1, <1>2
        <3>2. QED BY <1>2, <2>1, <3>1
    <2>4. \A i \in 1 .. n : i \in 1 .. n + Len(page) /\ i <= n BY <1>1, <1>2
    <2>5. QED BY <2>1, <2>2, <2>3, <2>4
<1>8. \A i \in n + 1 .. n + Len(page) : i \in 1 .. Len(assigned)
    <2> HIDE DEF page, n
    <2> SUFFICES ASSUME NEW i \in n + 1 .. n + Len(page) PROVE i \in 1 .. Len(assigned) OBVIOUS
    <2>1. i - n \in 1 .. Len(page) /\ n + (i - n) = i BY <1>1, <1>2
    <2>2. QED BY <1>2, <2>1
<1> HIDE DEF page, walked, isLast, n
<1>9. WalkTyped'
    BY <1>1, <1>2, <1>3, <1>5, <1>7 DEF WalkInv, WalkTyped
<1>10. \A t : Listed(t)' <=> \E i \in 1 .. n + Len(page) : walked[i] = t
    BY <1>5, <1>7 DEF Listed, ToSet
<1>11. \A t : Listed(t) <=> \E i \in 1 .. n : walk.tasks[i] = t
    BY <1>7 DEF Listed, ToSet
<1>12. \A t : Listed(t) => Listed(t)'
    <2>1. \A i \in 1 .. n : i \in 1 .. n + Len(page) BY <1>1, <1>2
    <2>2. QED BY <1>7, <1>10, <1>11, <2>1
<1>13. ASSUME NEW t, Ahead(t)
       PROVE  Listed(t)' \/ (~isLast /\ Ahead(t)')
    <2>1. PICK k \in 1 .. Len(assigned) : n < k /\ assigned[k] = t BY <1>1, <1>13 DEF Ahead
    <2>2. CASE k <= n + Len(page)
        <3>1. k \in n + 1 .. n + Len(page) /\ k \in 1 .. n + Len(page) BY <1>1, <1>2, <2>1, <2>2
        <3>2. QED BY <1>7, <1>10, <2>1, <3>1
    <2>3. CASE ~(k <= n + Len(page))
        <3>1. ~isLast BY <1>6, <2>3
        <3>2. walk'.offset < k BY <1>1, <1>2, <1>5, <2>1, <2>3, <3>1
        <3>3. QED BY <1>3, <2>1, <3>1, <3>2 DEF Ahead
    <2>4. QED BY <2>2, <2>3
<1>14. ~removed' => \A t \in steady' : Listed(t)' \/ (~isLast /\ Ahead(t)')
    BY <1>3, <1>12, <1>13 DEF WalkInv
<1>15. ~inserted => IsInjective(walked)
    <2> SUFFICES ASSUME ~inserted, NEW i \in 1 .. n + Len(page), NEW j \in 1 .. n + Len(page), walked[i] = walked[j]
                 PROVE  i = j
        BY <1>7 DEF IsInjective
    <2>1. /\ i \in 1 .. n \/ i \in n + 1 .. n + Len(page)
          /\ j \in 1 .. n \/ j \in n + 1 .. n + Len(page)
        BY <1>1, <1>2
    <2>2. CASE i \in 1 .. n /\ j \in 1 .. n
        BY <1>7, <2>2 DEF WalkInv, IsInjective
    <2>3. CASE i \in n + 1 .. n + Len(page) /\ j \in n + 1 .. n + Len(page)
        <3>1. i \in DOMAIN assigned /\ j \in DOMAIN assigned
            BY <1>8, <2>3, LenProperties DEF WalkInv, WalkTyped
        <3>2. QED BY <1>7, <2>3, <3>1 DEF WalkInv, WalkTyped, IsInjective
    <2>4. ASSUME NEW k \in 1 .. n, NEW l \in n + 1 .. n + Len(page), walked[k] = walked[l] PROVE FALSE
        <3>1. Listed(walked[k]) BY <1>7, <1>11
        <3>2. l \in 1 .. Len(assigned) /\ n < l /\ assigned[l] = walked[k] BY <1>1, <1>7, <1>8, <2>4
        <3>3. Ahead(walked[k]) BY <1>1, <3>2 DEF Ahead
        <3>4. walked[k] \in AllTasks BY <3>2, ElementOfSeq DEF WalkInv, WalkTyped
        <3>5. QED BY <1>3, <3>1, <3>3, <3>4 DEF WalkInv
    <2>5. QED BY <2>1, <2>2, <2>3, <2>4
<1>16. ASSUME ~inserted, ~isLast, NEW t \in AllTasks, Listed(t)', Ahead(t)' PROVE FALSE
    <2>1. PICK k \in 1 .. Len(assigned) : n + Len(page) < k /\ assigned[k] = t
        BY <1>1, <1>3, <1>5, <1>16 DEF Ahead
    <2>2. n < k BY <1>1, <1>2, <2>1
    <2>3. Ahead(t) BY <1>1, <2>1, <2>2 DEF Ahead
    <2>4. ~Listed(t) BY <1>3, <1>16, <2>3 DEF WalkInv
    <2>5. PICK i \in 1 .. n + Len(page) : walked[i] = t BY <1>10, <1>16
    <2>6. i \in n + 1 .. n + Len(page)
        <3>1. i \notin 1 .. n BY <1>7, <1>11, <2>4, <2>5
        <3>2. QED BY <1>1, <1>2, <3>1
    <2>7. assigned[i] = assigned[k] /\ i \in 1 .. Len(assigned) BY <1>7, <1>8, <2>1, <2>5, <2>6
    <2>8. i \in DOMAIN assigned /\ k \in DOMAIN assigned BY <2>7, LenProperties DEF WalkInv, WalkTyped
    <2>9. i = k BY <2>7, <2>8 DEF WalkInv, WalkTyped, IsInjective
    <2>10. QED BY <1>1, <1>2, <2>1, <2>9
<1>17. QED BY <1>3, <1>5, <1>9, <1>14, <1>15, <1>16 DEF WalkInv

LEMMA BeginWalkKeeps ==
    ASSUME WalkInv, BeginWalk
    PROVE  WalkInv'
<1>1. /\ UNCHANGED <<assigned, lists>> /\ steady' = ToSet(assigned)
      /\ inserted' = FALSE /\ removed' = FALSE /\ walk.pc = "idle"
    BY DEF BeginWalk
<1>2. /\ DOMAIN walk' = WalkFields /\ walk'.pc = "walking" /\ walk'.contexts = lists
      /\ walk'.offset = walk.offset /\ walk'.tasks = walk.tasks
    BY DEF BeginWalk, WalkInv, WalkTyped, WalkFields
<1>3. walk.tasks = <<>> /\ walk.offset = 0
    BY <1>1 DEF WalkInv, WalkTyped
<1>4. WalkTyped' BY <1>1, <1>2 DEF WalkInv, WalkTyped
<1>5. DOMAIN assigned = 1 .. Len(assigned) /\ Len(assigned) \in Nat
    BY LenProperties DEF WalkInv, WalkTyped
<1>6. \A t \in steady' : \E k \in 1 .. Len(assigned) : assigned[k] = t
    BY <1>1, <1>5 DEF ToSet
<1>7. \A t \in steady' : ListOf[t] \in walk'.contexts BY <1>2, <1>6 DEF WalkInv
<1>8. \A t \in steady' : Ahead(t)' BY <1>1, <1>2, <1>3, <1>5, <1>6 DEF Ahead
<1>9. IsInjective(walk'.tasks) /\ \A t : ~Listed(t)'
    BY <1>2, <1>3 DEF IsInjective, Listed, ToSet
<1>10. QED BY <1>1, <1>2, <1>4, <1>7, <1>8, <1>9 DEF WalkInv

LEMMA InsertKeeps ==
    ASSUME WalkInv, Insert
    PROVE  WalkInv'
<1>1. PICK t \in AllTasks \ ToSet(assigned), i \in 1 .. Len(assigned) + 1 :
         assigned' = InsertAt(assigned, i, t) /\ lists' = lists \cup {ListOf[t]}
    BY DEF Insert
<1>2. UNCHANGED <<walk, steady, removed>> /\ inserted' = TRUE BY DEF Insert, Shift
<1>3. /\ DOMAIN assigned = 1 .. Len(assigned) /\ Len(assigned) \in Nat /\ walk.offset \in Nat
      /\ assigned \in Seq(AllTasks)
    BY LenProperties DEF WalkInv, WalkTyped
<1>4. /\ assigned' \in Seq(AllTasks) /\ Len(assigned') = Len(assigned) + 1
      /\ \A k \in 1 .. Len(assigned) + 1 :
            assigned'[k] = IF k < i THEN assigned[k] ELSE IF k = i THEN t ELSE assigned[k - 1]
    <2>1. t \in AllTasks /\ i \in 1 .. Len(assigned) + 1 OBVIOUS
    <2>2. /\ InsertAt(assigned, i, t) \in Seq(AllTasks)
          /\ Len(InsertAt(assigned, i, t)) = Len(assigned) + 1
          /\ \A k \in 1 .. Len(assigned) + 1 :
                InsertAt(assigned, i, t)[k] =
                   IF k < i THEN assigned[k] ELSE IF k = i THEN t ELSE assigned[k - 1]
        BY ONLY <2>1, <1>3, InsertAtProperties, SMT
    <2>3. QED BY <1>1, <2>2
<1>5. DOMAIN assigned' = 1 .. Len(assigned) + 1 BY <1>4, LenProperties
<1>6. \A k \in 1 .. Len(assigned) : assigned[k] # t BY <1>1, <1>3 DEF ToSet
<1>7. ASSUME NEW k \in 1 .. Len(assigned) + 1
      PROVE  \/ k = i /\ assigned'[k] = t
             \/ k < i /\ k \in 1 .. Len(assigned) /\ assigned'[k] = assigned[k]
             \/ k > i /\ k - 1 \in 1 .. Len(assigned) /\ assigned'[k] = assigned[k - 1]
    <2>1. /\ k < i => k \in 1 .. Len(assigned)
          /\ k > i => k - 1 \in 1 .. Len(assigned) /\ ~(k < i) /\ k # i
          /\ k < i \/ k = i \/ k > i
        BY <1>3
    <2>2. QED BY <1>4, <2>1
<1>8. IsInjective(assigned')
    <2> SUFFICES ASSUME NEW k \in 1 .. Len(assigned) + 1, NEW l \in 1 .. Len(assigned) + 1,
                        assigned'[k] = assigned'[l]
                 PROVE  k = l
        BY <1>5 DEF IsInjective
    <2>1. \A a, b \in 1 .. Len(assigned) : assigned[a] = assigned[b] => a = b
        BY <1>3 DEF WalkInv, WalkTyped, IsInjective
    <2>2. CASE k = i \/ l = i BY <1>3, <1>6, <1>7, <2>2
    <2>3. CASE k < i /\ l < i BY <1>3, <1>7, <2>1, <2>3
    <2>4. CASE k > i /\ l > i
        <3>1. k - 1 = l - 1 BY <1>3, <1>7, <2>1, <2>4
        <3>2. QED BY <1>3, <3>1
    <2>5. CASE k < i /\ l > i
        <3>1. k = l - 1 BY <1>3, <1>7, <2>1, <2>5
        <3>2. QED BY <1>3, <2>5, <3>1
    <2>6. CASE k > i /\ l < i
        <3>1. k - 1 = l BY <1>3, <1>7, <2>1, <2>6
        <3>2. QED BY <1>3, <2>6, <3>1
    <2>7. QED BY <1>3, <2>2, <2>3, <2>4, <2>5, <2>6
<1>9. WalkTyped' BY <1>2, <1>4, <1>8 DEF WalkInv, WalkTyped
<1>10. \A k \in 1 .. Len(assigned') : ListOf[assigned'[k]] \in lists'
    BY <1>1, <1>4, <1>7 DEF WalkInv
<1>11. ASSUME NEW s, Ahead(s) PROVE Ahead(s)'
    <2>1. PICK k \in 1 .. Len(assigned) : walk.offset < k /\ assigned[k] = s BY <1>11 DEF Ahead
    <2>2. CASE k < i
        <3>1. k \in 1 .. Len(assigned') /\ assigned'[k] = s BY <1>3, <1>4, <2>1, <2>2
        <3>2. QED BY <1>2, <2>1, <3>1 DEF Ahead
    <2>3. CASE ~(k < i)
        <3>1. k + 1 \in 1 .. Len(assigned) + 1 /\ k + 1 > i /\ k + 1 - 1 = k /\ walk.offset < k + 1
            BY <1>3, <2>1, <2>3
        <3>2. assigned'[k + 1] = s BY <1>3, <1>7, <2>1, <3>1
        <3>3. QED BY <1>2, <1>4, <3>1, <3>2 DEF Ahead
    <2>4. QED BY <2>2, <2>3
<1>12. \A s : Listed(s)' = Listed(s) BY <1>2 DEF Listed
<1>13. QED BY <1>2, <1>9, <1>10, <1>11, <1>12 DEF WalkInv

LEMMA WithdrawKeeps ==
    ASSUME WalkInv, Withdraw
    PROVE  WalkInv'
<1>1. PICK i \in DOMAIN assigned :
         assigned' = RemoveAt(assigned, i) /\ steady' = steady \ {assigned[i]}
    BY DEF Withdraw
<1>2. UNCHANGED <<walk, lists, inserted>> /\ removed' = TRUE BY DEF Withdraw, Shift
<1>3. /\ DOMAIN assigned = 1 .. Len(assigned) /\ Len(assigned) \in Nat /\ walk.offset \in Nat
      /\ assigned \in Seq(AllTasks) /\ i \in 1 .. Len(assigned)
    BY <1>1, LenProperties DEF WalkInv, WalkTyped
<1>4. /\ assigned' \in Seq(AllTasks) /\ Len(assigned') = Len(assigned) - 1
      /\ \A k \in 1 .. Len(assigned) - 1 : assigned'[k] = assigned[IF k < i THEN k ELSE k + 1]
    BY <1>1, <1>3, RemoveAtProperties
<1>5. DOMAIN assigned' = 1 .. Len(assigned) - 1 BY <1>4, LenProperties
<1> DEFINE was(k) == IF k < i THEN k ELSE k + 1
<1>6. \A k \in 1 .. Len(assigned) - 1 : was(k) \in 1 .. Len(assigned) /\ k <= was(k) /\ assigned'[k] = assigned[was(k)]
    BY <1>3, <1>4
<1>7. \A k, l \in 1 .. Len(assigned) - 1 : was(k) = was(l) => k = l
    BY <1>3
<1> HIDE DEF was
<1>8. IsInjective(assigned')
    BY <1>3, <1>5, <1>6, <1>7 DEF WalkInv, WalkTyped, IsInjective
<1>9. WalkTyped' BY <1>2, <1>4, <1>8 DEF WalkInv, WalkTyped
<1>10. \A k \in 1 .. Len(assigned') : ListOf[assigned'[k]] \in lists'
    BY <1>2, <1>4, <1>6 DEF WalkInv
<1>11. ASSUME NEW s, Ahead(s)' PROVE Ahead(s)
    <2>1. PICK k \in 1 .. Len(assigned) - 1 : walk.offset < k /\ assigned'[k] = s
        BY <1>2, <1>4, <1>11 DEF Ahead
    <2>2. was(k) \in 1 .. Len(assigned) /\ k <= was(k) /\ assigned[was(k)] = s
        BY <1>6, <2>1
    <2>3. walk.offset < was(k) BY <1>3, <2>1, <2>2
    <2>4. QED BY <2>2, <2>3 DEF Ahead
<1>12. \A s : Listed(s)' = Listed(s) BY <1>2 DEF Listed
<1>13. QED BY <1>1, <1>2, <1>9, <1>10, <1>11, <1>12 DEF WalkInv

(* The invariant of the walk: what is listed, and what lies ahead of it    *)
THEOREM WalkInvariant == WalkSpec => []WalkInv
<1>1. ASSUME WalkInit PROVE WalkInv
    <2>1. assigned \in Seq(AllTasks) /\ IsInjective(assigned)
        BY <1>1 DEF WalkInit, BoundedSeq, SeqOf
    <2>2. DOMAIN assigned = 1 .. Len(assigned) BY <2>1, LenProperties
    <2>3. \A k \in 1 .. Len(assigned) : ListOf[assigned[k]] \in lists
        BY <1>1, <2>2 DEF WalkInit, ToSet
    <2>4. /\ DOMAIN walk = WalkFields /\ walk.pc = "idle" /\ walk.tasks = <<>> /\ walk.offset = 0
          /\ steady = {} /\ inserted = FALSE /\ removed = FALSE
        BY <1>1 DEF WalkInit, WalkFields
    <2>5. IsInjective(walk.tasks) BY <2>4 DEF IsInjective
    <2>6. WalkTyped
        <3>1. walk.tasks \in Seq(AllTasks) /\ walk.offset = Len(walk.tasks) /\ walk.offset \in Nat
            BY <2>4
        <3>2. QED BY <2>1, <2>4, <3>1 DEF WalkTyped
    <2>7. QED BY <2>3, <2>4, <2>5, <2>6 DEF WalkInv
<1>2. ASSUME WalkInv, [WalkNext]_walkVars PROVE WalkInv'
    <2>1. CASE FailWalk
        <3>1. /\ UNCHANGED <<assigned, lists, steady, inserted, removed>>
              /\ DOMAIN walk' = WalkFields /\ walk'.pc = "failed" /\ walk'.tasks = walk.tasks
              /\ walk'.contexts = walk.contexts /\ walk'.offset = walk.offset
            BY <1>2, <2>1 DEF FailWalk, WalkInv, WalkTyped, WalkFields
        <3>2. QED BY <1>2, <3>1 DEF WalkInv, WalkTyped
    <2>2. CASE UNCHANGED walkVars
        BY <1>2, <2>2 DEF walkVars, WalkInv, WalkTyped, Listed, Ahead
    <2>3. QED BY <1>2, <2>1, <2>2, BeginWalkKeeps, FetchKeeps, InsertKeeps, WithdrawKeeps DEF WalkNext
<1>3. QED BY <1>1, <1>2, PTL DEF WalkSpec

(* A task that was assigned the whole time is missing from the listing     *)
(* only if a task was removed during the walk, however long the pages.     *)
THEOREM NothingIsMissed == WalkSpec => []MissedOnlyAfterRemoval
<1>1. WalkInv => MissedOnlyAfterRemoval BY DEF WalkInv, MissedOnlyAfterRemoval
<1>2. QED BY <1>1, WalkInvariant, PTL

(* A task is listed twice only if one was inserted during the walk, and is *)
(* never listed without its contents if it was assigned the whole time.    *)
THEOREM NothingIsListedTwice == WalkSpec => []TwiceOnlyAfterInsertion
<1>1. WalkInv => TwiceOnlyAfterInsertion BY DEF WalkInv, TwiceOnlyAfterInsertion, Unread
<1>2. QED BY <1>1, WalkInvariant, PTL
=============================================================================
