CONSTANTS
    Actors = {a1}
    Threads = {t1}
    Pumps = {p1}
    Clients = {c1}
    BatchSize = 2
    Capacity = 3
    MsgBound = 2
    TaskBound = 0
    Statuses = {"Continue"}
    IdleWork = FALSE
    MayPanic = FALSE
    MayShutdown = FALSE
    MayDisconnect = FALSE
SPECIFICATION FairSpec
PROPERTY MessagesHandled
CHECK_DEADLOCK FALSE
