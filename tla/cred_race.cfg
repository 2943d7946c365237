SPECIFICATION Spec
CONSTANTS
    alice = alice
    bob = bob
    carol = carol
    Commands = {c1, c2}
    Accounts = {alice, bob, carol}
    Url <- SharedUrl
    Legacy = {alice}
    NoFile = NoFile
    Failures = {"server"}
    MaxTokens = 3
    MaxWraps <- AliceWrappedOnce
SYMMETRY Symmetry
INVARIANTS
    
    TokenKept
