CONSTANTS
    Keys = {k1, k2}
    MaxDocs = 3
    MaxDeletes = 2
    MaxCommits = 2
    MaxMerges = 0
    MaxReopens = 1
    MaxClears = 0
    MaxSegments = 4
    Policy = FALSE
    EarlyFlush = TRUE
    MayFail = TRUE
    MayFold = FALSE
SPECIFICATION Spec
PROPERTY ImplementsContract
CHECK_DEADLOCK FALSE
