SPECIFICATION FairSpec
CONSTANTS
    MaxRuns = 2
    None = None
INVARIANTS IInv ExportReady LiveAsAsked CodeStays
PROPERTIES ExeGetsOn UnloadsOrListens
