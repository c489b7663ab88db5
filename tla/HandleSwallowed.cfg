CONSTANTS
    Shards = {s1}
    Clients = {c1, c2}
    Nodes = {n1}
    MaxWrites = 3
    MaxRequests = 3
    MaxReleases = 0
    MayRefuse = TRUE
    MayFail = FALSE
    NumReaders = 1
    Writer = c1
    Committers = {c1}
    Searchers = {c2}
    Closers = {}
    MayBatch = FALSE
SPECIFICATION HandleSpec
INVARIANT CommitCoversAdds
CHECK_DEADLOCK FALSE
