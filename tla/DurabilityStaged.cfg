SPECIFICATION Spec
CONSTANTS
    f = f
    g = g
    x = x
    y = y
    File = {f, g}
    Content = {x, y}
    Absent = Absent
    Plain = {x, y}
    Quoted = {}
    Written = {y}
    Cloned <- MCCloned
    Message = {m1}
    Decision = {d1}
    MaxEdits = 2
    MaxCommits = 2
    MaxEvents = 10
    MaxChunks = 1
    MaxLost = 1
    MaxLives = 2
INVARIANTS
    StagedFilesAreExpected
CHECK_DEADLOCK FALSE
