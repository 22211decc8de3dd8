SPECIFICATION Spec
CONSTANTS
    Cells = {c1}
    Objects = {o1, o2}
    Faulting = {bad}
    Fields = {f, g}
    Values = {v, w}
    None = none
    v = v
    w = w
    MaxIds = 2
    MaxWrites = 1
    PipeOpen = TRUE
CHECK_DEADLOCK FALSE
PROPERTIES AllDiffsAreOwn
