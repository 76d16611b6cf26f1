SPECIFICATION Spec
CONSTANTS
    Tokens = {t1, t2, t3}
    MaxInFlight = 2
    CacheTTL = 1
    MaxTime = 3
    MaxSizes = 2
    Forwards = {f1, f2}
    NoStream = NoStream
    MaxLogged = 3
    BlockSize = 2
    BufSize = 1
    TailLines = 2
    UntilLine = 2
    Layers = {l1, l2}
    Cached = {l2}
    CacheSize = 1
    Scenarios = {{"remote", "many"}, {"remote", "tty"}, {"remote", "v1"}, {"remote", "odd"}, {"remote", "tty", "attach"},
                 {"remote", "tty", "websocket"}, {"remote", "tty", "createFails"},
                 {"portforward"}, {"portforward", "oldClient", "badHeaders"}, {"portforward", "repeats"},
                 {"logs"}, {"logs", "tail"}, {"logs", "follow", "tail"}, {"logs", "follow", "drains"},
                 {"logs", "follow", "rotate"}, {"logs", "follow", "truncate"}, {"logs", "follow", "until"},
                 {"logs", "follow", "errors"}, {"logs", "follow", "drains", "slow"},
                 {"progress", "errors"}, {"progress", "push"}}
CHECK_DEADLOCK FALSE
PROPERTY SessionIsServed
PROPERTY PairsAreServed
PROPERTY LogsAreRead
PROPERTY ProgressIsShown
