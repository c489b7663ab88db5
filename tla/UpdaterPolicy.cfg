CONSTANTS
    Keys = {k1}
    MaxDocs = 3
    MaxDeletes = 0
    MaxCommits = 2
    MaxMerges = 1
    MaxReopens = 1
    MaxClears = 1
    MaxSegments = 5
    Policy = TRUE
    EarlyFlush = TRUE
    MayFail = TRUE
    MayFold = FALSE
SPECIFICATION Spec
INVARIANT OneMergePerSegment
INVARIANT NoDocumentTwice
INVARIANT NamedFilesExist
INVARIANT NoCommittedDocumentLost
CHECK_DEADLOCK FALSE
