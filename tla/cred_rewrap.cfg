SPECIFICATION Spec
CONSTANTS
    alice = alice
    bob = bob
    carol = carol
    Commands = {c1}
    Accounts = {alice, bob}
    Url <- OneUrl
    Legacy = {}
    NoFile = NoFile
    Failures = {}
    MaxTokens = 4
    MaxWraps <- WrappedOnce
INVARIANT LogoutForgets
