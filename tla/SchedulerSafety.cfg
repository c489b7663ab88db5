CONSTANTS
    Actors = {a1}
    Threads = {t1}
    Pumps = {p1}
    Clients = {c1}
    BatchSize = 1
    Capacity = 2
    MsgBound = 2
    TaskBound = 1
    Statuses = {"Continue", "Yield", "Suspend", "Stop"}
    IdleWork = TRUE
    MayPanic = TRUE
    MayShutdown = TRUE
    MayDisconnect = TRUE
SPECIFICATION Spec
INVARIANTS TypeOK MutualExclusion NoLostWake
CHECK_DEADLOCK FALSE
