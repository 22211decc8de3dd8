SPECIFICATION FairSpec
CONSTANTS
    Threads = {ws, sub}
    Main = main
    NoOne = noone
    Objects = {obj}
    Faulting = {bad}
    Loaded = {client}
    NotLoaded = {nomod}
    BadArg = badarg
    Values = {v1, v2}
    Nothing = nothing
    Failure = failure
    PipeRequired = FALSE
INVARIANTS IInv FramingInSync NothingLeftOver
PROPERTIES ImplementsRemoteMemory LockReleased WorkerUnloads ShutdownReturns
