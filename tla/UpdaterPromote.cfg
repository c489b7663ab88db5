CONSTANTS
    Keys = {k1}
    MaxDocs = 2
    MaxDeletes = 1
    MaxCommits = 2
    MaxMerges = 1
    MaxReopens = 0
    MaxClears = 0
    MaxSegments = 4
    Policy = FALSE
    EarlyFlush = TRUE
    MayFail = FALSE
    MayFold = FALSE
SPECIFICATION Spec
INVARIANT NothingElseVisible
CHECK_DEADLOCK FALSE
