CONSTANTS
    Shards = {s1, s2}
    Clients = {c1, c2}
    Nodes = {n1}
    MaxWrites = 2
    MaxRequests = 2
    MaxReleases = 0
    MayRefuse = FALSE
    MayFail = FALSE
    NumReaders = 2
    Writer = c1
    Committers = {c1, c2}
    Searchers = {}
    Closers = {}
    MayBatch = TRUE
SYMMETRY ShardSymmetry
SPECIFICATION HandleSpec
INVARIANTS  CommitCoversAdds
CHECK_DEADLOCK FALSE
