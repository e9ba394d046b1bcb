SPECIFICATION FairSpec
CONSTANTS
    Opener = {o1, o2}
    Reader = {g1}
    Deleter = {d1}
    Sweeper = {s1}
    MaxIds = 2
    MaxOpen = 2
    None = None
INVARIANTS
    OpensBringGrantedIds
    NoOrphan
    ReadyHasInstance
PROPERTIES
    ReadyIsNotTakenBack
    BringUpEnds
CHECK_DEADLOCK FALSE
