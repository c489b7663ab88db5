CONSTANTS
    Keys = {k1, k2}
    MaxDocs = 5
    MaxDeletes = 1
    MaxCommits = 5
    MaxMerges = 0
    MaxReopens = 0
    MaxClears = 0
    MaxSegments = 6
    Policy = TRUE
    EarlyFlush = FALSE
    MayFail = FALSE
    MayFold = FALSE
SPECIFICATION Spec
INVARIANT DeletesStay
CHECK_DEADLOCK FALSE
CONSTRAINT LateDelete
