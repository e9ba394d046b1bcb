SPECIFICATION FairSpec
CONSTANTS
    Request = {c1}
    Host = host
    Reader = {r1}
    MaxBatch = 2
    MaxRows = 2
    MaxEmitted = 2
INVARIANTS
    Consistent
    HostOrder
    FlushIsBarrier
    PageShowsPrefix
PROPERTIES
    ImplementsAppendOnlyLog
    PageCatchesUp
    EmittedSettles
