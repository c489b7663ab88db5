CONSTANTS
    Shards = {s1}
    Clients = {c1, c2}
    Nodes = {n1}
    MaxWrites = 2
    MaxRequests = 2
    MaxReleases = 0
    MayRefuse = FALSE
    MayFail = TRUE
    NumReaders = 1
    Writer = c1
    Committers = {c1, c2}
    Searchers = {c2}
    Closers = {c1}
    MayBatch = FALSE
SPECIFICATION FairHandleSpec
INVARIANTS CommitCoversAdds CommitCoversDeletes ClosedIsInert
PROPERTY CallsReturn
CHECK_DEADLOCK FALSE
