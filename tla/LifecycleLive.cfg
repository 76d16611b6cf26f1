SPECIFICATION FairSpec
CONSTANTS
    Clients = {c1}
    Packs = {k1, k2}
    c1 = c1
    k1 = k1
    k2 = k2
    Monitor = Monitor
    Events = Events
    None = None
    Ops = {"start", "stop", "restart", "forceRemove", "update", "connect", "disconnect", "oom"}
    RestartAlways = TRUE
    MayAbort = FALSE
    HasTimeout = TRUE
    QueueCap = 3
    MaxCrashes = 0
CHECK_DEADLOCK FALSE
INVARIANT ExitShownBeforeReply
PROPERTY LockIsReleased
PROPERTY ExitIsReported
