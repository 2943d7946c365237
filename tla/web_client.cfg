SPECIFICATION MCSpec
CONSTANTS
    Page = 4
    MaxPages = 2
    MaxRequests = 3
    None = None
    alice = alice
    Users = {alice, bob}
    Agents = {robot}
    Lists = {home}
    Owner <- AlicesLists
    Pages = {p1, p2}
    MaxInvites = 1
    MaxPasswords = 1
    MaxTitles = 1
SYMMETRY Symmetry
CHECK_DEADLOCK FALSE
INVARIANTS
    AnswersOwnInputs
    NothingLeftBehind
    InvitationsOpenAsMade
    HoldersReadTheList
