SPECIFICATION FairSpec
CONSTANTS
    Clients = {c1, c2, c3}
    Packs = {k1}
    c1 = c1
    c2 = c2
    c3 = c3
    k1 = k1
    Monitor = Monitor
    Events = Events
    None = None
    Ops = {"start", "stop", "wait"}
    RestartAlways = TRUE
    MayAbort = FALSE
    HasTimeout = TRUE
    QueueCap = 3
    MaxCrashes = 0
CHECK_DEADLOCK FALSE
PROPERTY WaitIsAnswered
