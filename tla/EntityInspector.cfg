SPECIFICATION FairSpec
CONSTANTS
    Entities = {a, b}
    MaxEffects = 2
    MaxAge = 1
    MaxOpen = 1
    None = None
INVARIANTS IInv LeaksOnlyOvertaken
PROPERTIES DiffsAreOwn PollingConverges
CONSTRAINT FirstSelected
CHECK_DEADLOCK FALSE
