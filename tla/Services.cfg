SPECIFICATION Spec
CONSTANTS
    Starters = {s1, s2}
    s1 = s1
    s2 = s2
    None = None
    MaxLines = 3
    LongLines = {2}
    MaxBytes = 1
    MaxSize = 1
    MaxFile = 2
    Publishers = {p1, p2}
    Subscribers = {r1}
    EventsLimit = 2
    MaxEvents = 3
    MaxPid = 5
    MaxRetry = 3
    MaxBad = 4
    Monitored = {c1, c2}
    ChanCap = 2
    MaxExits = 3
    Scenarios = {
        {"exec", "inspect", "attachError", "waitFails"},
        {"exec", "inspect", "waitFails", "killFails"},
        {"exec", "attachError", "waitFails", "killFails"},
        {"exec", "twice", "inspect", "attachError", "waitFails", "killFails"},
        {"io"},
        {"io", "nonBlock"},
        {"io", "nonBlock", "slow"},
        {"io", "rotateFails"},
        {"io", "stuckClient"},
        {"io", "nonBlock", "stuckClient"},
        {"events"},
        {"events", "gap"},
        {"supervisor"},
        {"supervisor", "adopt"},
        {"supervisor", "adopt", "pouchCrash"},
        {"supervisor", "adopt", "pouchCrash", "crashInSave"},
        {"monitor"},
        {"monitor", "overflow"},
        {"monitor", "releaseFails", "startFails", "removes"},
        {"daemon"},
        {"daemon", "serviceFails"},
        {"daemon", "cri", "serviceFails"},
        {"daemon", "cri", "reusePort", "serviceFails"}}
CHECK_DEADLOCK FALSE
INVARIANT ExecIsShown
INVARIANT LogIsKept
PROPERTY ExitIsRecorded
PROPERTY CloseReturns
PROPERTY ExitIsHandled
PROPERTY ServicesEnd
PROPERTY SubscriptionIsServed
PROPERTY ContainerdIsKept
