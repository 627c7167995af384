CONSTANTS
    Callers = {c1, c2}
    Nobody = none
    WriteThrough = TRUE
    MaxUpdates = 2
    MaxFlushes = 1
    MaxCrashes = 1
SPECIFICATION FairSpec
CHECK_DEADLOCK FALSE
INVARIANTS
    FlushIsDurable
PROPERTIES
    FileMovesForward
    SaverGetsThere
