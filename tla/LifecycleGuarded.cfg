SPECIFICATION Spec
CONSTANTS
    Clients = {c1, c2}
    Packs = {k1, k2}
    c1 = c1
    c2 = c2
    k1 = k1
    k2 = k2
    Monitor = Monitor
    Events = Events
    None = None
    Ops = {"start", "stop", "kill", "pause", "unpause", "remove", "forceRemove", "wait"}
    RestartAlways = TRUE
    MayAbort = TRUE
    HasTimeout = TRUE
    QueueCap = 3
    MaxCrashes = 1
SYMMETRY Symmetry
CHECK_DEADLOCK FALSE
INVARIANT NoResurrection
INVARIANT MetaIsFresh
INVARIANT LiveTaskIsWatched
