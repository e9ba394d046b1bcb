SPECIFICATION FairTokensSpec
CONSTANTS
    Caller = {c1, c2}
    NoOne = NoOne
    gcp = gcp
    id = id
    installation = installation
    Key = {gcp, id, installation}
    KindOf <- MCKindOf
    Life = 4
    MinLife = 2
    EnvLife = 3
    Margin = 1
    MetadataTimeout = 1
    Delay = 1
    HasAdc = TRUE
    HasEnv = TRUE
INVARIANTS
    HandedTokensAreAlive
PROPERTIES
    CallersAnswered
CHECK_DEADLOCK FALSE
