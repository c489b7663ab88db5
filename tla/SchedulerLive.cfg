CONSTANTS
    Actors = {a1}
    Threads = {t1, t2}
    Pumps = {}
    Clients = {c1}
    BatchSize = 2
    Capacity = 3
    MsgBound = 3
    TaskBound = 1
    Statuses = {"Continue", "Yield"}
    IdleWork = FALSE
    MayPanic = FALSE
    MayShutdown = FALSE
    MayDisconnect = FALSE
SPECIFICATION FairSpec
INVARIANT NoSleepOverWork
PROPERTY MessagesHandled
CHECK_DEADLOCK FALSE
