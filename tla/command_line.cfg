SPECIFICATION MCSpec
CONSTANTS
    Processes = {p1, p2}
    MaxSaves = 3
    None = None
    alice = alice
    bob = bob
    robot = robot
    home = home
    den = den
    Commands = {c1, c2}
    Users = {alice, bob}
    Lists = {home, den}
    Deriver <- Derivers
    Urls = {u1, u2}
    Holder <- Holders
    HolderMembership <- HolderMemberships
    MaxAgents = 2
    MaxAgentRuns = 4
    MaxLogins = 1
    Agents = {robot}
    Members <- ListMembers
    Membership <- Memberships
    Titles = {t1, t2}
    Texts = {"x"}
    Files = {f}
    Readable = {f}
    MaxTasks = 2
    MaxRuns = 2
    MaxEdits = 1
    AllTasks = {1, 2, 3, 4}
    ListOf <- TwoLists
    Limit = 2
    MaxAssigned = 3
    MaxShifts = 3
SYMMETRY Symmetry
CHECK_DEADLOCK FALSE
INVARIANTS
    Whole
    AgentsTyped
    SeedWithCredentials
    LogoutForgetsSeed
    GrantsGiveListKey
    SealedUnderListKey
    CopiesAgree
    AcceptedWhenTold
    MissedOnlyAfterRemoval
    TwiceOnlyAfterInsertion
PROPERTIES
    ImplementsDurableFile
    RegistrationKept
    UpdatesAreExact
