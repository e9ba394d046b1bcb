SPECIFICATION FairSpec
CONSTANTS
    Browser = {b1, b2}
    Account = {a1, a2}
    Name = {n1, n2}
    Workspace = {w1}
    Request = {r1}
    Nobody = Nobody
    MaxAttempts = 2
    MaxCallbacks = 2
INVARIANTS
    LoginIsPersonal
    OwnersCouldRead
PROPERTIES
    RequestsEnd
CHECK_DEADLOCK FALSE
