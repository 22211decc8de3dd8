SPECIFICATION MCFairSpec
CONSTANTS
    Cells = {c1, c2}
    Objects = {o1}
    Faulting = {bad}
    Fields = {f, g}
    v = v
    w = w
    Values = {v, w}
    None = none
    MaxIds = 2
    MaxWrites = 1
    PipeOpen = TRUE
CHECK_DEADLOCK FALSE
INVARIANTS IInv KnownIsSnapshot
PROPERTIES DiffsAreDeltas DiffsAreOwn CatchesUp StopJoins
