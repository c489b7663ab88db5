CONSTANTS
    Shards = {s1}
    Clients = {c1, c2}
    Nodes = {n1}
    MaxWrites = 2
    MaxRequests = 2
    MaxReleases = 2
    MayRefuse = TRUE
    MayFail = TRUE
SPECIFICATION Spec
INVARIANTS TypeOK InOrder OneCommitInFlight NeverWaitsForLock
PROPERTIES LostWritesReported EveryRequestAnswered
CHECK_DEADLOCK FALSE
