CONSTANTS
    Keys = {k1, k2}
    MaxDocs = 3
    MaxDeletes = 1
    MaxCommits = 2
    MaxMerges = 2
    MaxReopens = 0
    MaxClears = 0
    MaxSegments = 5
    Policy = FALSE
    EarlyFlush = FALSE
    MayFail = FALSE
    MayFold = TRUE
SPECIFICATION Spec
INVARIANT TypeOK
PROPERTY ImplementsContract
CHECK_DEADLOCK FALSE
