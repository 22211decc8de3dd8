SPECIFICATION BusySpec
CONSTANTS
    Threads = {ws, sub}
    Main = main
    NoOne = noone
    Objects = {obj}
    Faulting = {bad}
    Loaded = {client}
    NotLoaded = {nomod}
    BadArg = badarg
    Values = {v1}
    Nothing = nothing
    Failure = failure
    PipeRequired = FALSE

PROPERTIES GameExitNoticed
