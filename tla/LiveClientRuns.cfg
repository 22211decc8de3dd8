SPECIFICATION Spec
CONSTANTS
    Objects = {o1, o2}
    None = none
    MaxReq = 2
    MaxConn = 2
    MaxRuns = 2
    MaxSubs = 1
    MaxPushes = 2
CHECK_DEADLOCK FALSE
INVARIANTS HearsOwnAlways
