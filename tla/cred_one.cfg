SPECIFICATION Spec
CONSTANTS
    alice = alice
    bob = bob
    carol = carol
    Commands = {c1}
    Accounts = {alice, bob}
    Url <- OneUrl
    Legacy = {bob}
    NoFile = NoFile
    Failures = {"server", "reply", "keychain", "kill"}
    MaxTokens = 4
    MaxWraps <- NeverWrapped
INVARIANTS
    TypeOK
    LogoutForgets
