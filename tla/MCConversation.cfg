SPECIFICATION FairSpec
CONSTANTS
    Message = {m1}
    Answer = {d1}
    Cancel = {c1}
    Linked = {k1, k2}
    Anonymous = {n1}
    MaxOpen = 2
INVARIANTS
    OneTurnPerSend
    SuccessIsReal
    RowBeforeTurn
    LinkedAskGetsItsOwnDecision
    NoDecisionIsForgotten
PROPERTIES
    EveryFlowEnds
    CancelEndsTheTurn
CHECK_DEADLOCK FALSE
