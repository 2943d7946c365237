--------------------------- MODULE MCCommandLine ---------------------------
(* Four parts of the command line, side by side: a secret file that two    *)
(* processes replace, the agents' registration, the commands on tasks and  *)
(* comments, and the walk over the assigned tasks.  In a behavior, one of  *)
(* them moves.                                                             *)
EXTENDS SecretFile, Agents, Tasks, MyTasks, TLC

CONSTANTS alice, bob, robot, home, den

VARIABLE machine

(* Alice is the owner of both lists for the agents, and the key of one of  *)
(* them derives from the data key of bob, who gave it away.                *)
Derivers == [l \in Lists |-> IF l = home THEN alice ELSE bob]
Holders == [l \in Lists |-> alice]
HolderMemberships ==
    [l \in Lists |-> IF l = home THEN None ELSE SealMembership(alice, DerivedListKey(bob, den))]

(* The tasks are of a list of alice that bob is a member of and that robot *)
(* is granted, and of a list of bob's.                                     *)
ListMembers == [l \in Lists |-> IF l = home THEN {alice, bob, robot} ELSE {bob}]
Memberships ==
    [p \in Principals |-> [l \in Lists |->
        IF l = home /\ p = bob THEN SealMembership(bob, DerivedListKey(alice, home))
        ELSE IF l = home /\ p = robot THEN SealGrant(robot, home, DerivedListKey(alice, home))
        ELSE None]]

TwoLists == [t \in AllTasks |-> t % 2]

NoTasks == [i \in TaskIds |-> None]

registration == <<session, agent, keychain, files, server, scarred, logins>>
contents == <<principal, tasks, comments, retired, edits>>

MCInit ==
    /\ machine \in {"file", "registration", "contents", "listing"}
    /\ Init /\ WalkInit
    /\ machine # "listing" => assigned = <<>>
    /\ IF machine = "contents"
       THEN /\ TasksInit /\ tasks[1].list = home /\ tasks[1].assignment # "declined"
            /\ session = None /\ agent = None /\ keychain = {} /\ files = {} /\ scarred = FALSE /\ logins = 0
            /\ server = [a \in AgentIds |-> None]
       ELSE /\ AgentsInit
            /\ machine # "registration" => session = None
            /\ principal = None /\ tasks = NoTasks /\ comments = NoTasks /\ retired = {} /\ edits = 0

FileMoves ==
    machine = "file" /\ Next /\ UNCHANGED <<machine, agentVars, contents, walkVars>>
RegistrationMoves ==
    machine = "registration" /\ AgentsNext /\ UNCHANGED <<machine, vars, contents, walkVars>>
ContentsMoves ==
    machine = "contents" /\ TasksNext /\ UNCHANGED <<machine, vars, registration, walkVars>>
ListingMoves ==
    machine = "listing" /\ WalkNext /\ UNCHANGED <<machine, vars, agentVars, contents>>

MCNext == FileMoves \/ RegistrationMoves \/ ContentsMoves \/ ListingMoves

MCSpec == MCInit /\ [][MCNext]_<<machine, vars, agentVars, contents, walkVars>>

Symmetry ==
    Permutations(Processes) \cup Permutations(Commands) \cup Permutations(Urls) \cup Permutations(Titles)
=============================================================================
