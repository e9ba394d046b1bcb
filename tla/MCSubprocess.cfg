SPECIFICATION MCSpec
CONSTANTS
    Runtime = {r1, r2}
    Spawn = {s1, s2}
    Nobody = Nobody
    Handle = {h1, h2}
    k = k
    eq = eq
    sp = sp
    a = a
    b = b
    star = star
    Chunk <- MCChunk
    Secrets <- MCSecrets
    Mask <- MCMask
    Key <- MCKey
    Separator <- MCSeparator
    Equals = eq
    Space = sp
    Limit = 3
    MaxPrinted = 7
INVARIANTS
    OneSubprocess
    LossIsKnown
    OutputIsWhole
PROPERTIES
    SpawnsEnd
    TerminationEnds
CHECK_DEADLOCK FALSE
