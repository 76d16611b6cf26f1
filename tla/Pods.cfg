SPECIFICATION Spec
CONSTANTS
    Apps = {a}
    Workers = {w1, w2}
    a = a
    w1 = w1
    w2 = w2
    MaxFaults = 2
    MaxCrashes = 1
    MaxStarts = 1
    Scenarios = {{"pod", "crash"}, {"pod", "storeFails"}, {"pod", "undoFails"},
                 {"pod", "removeFirst"}, {"pod", "startRunning"}, {"pod", "overlap"}}
CHECK_DEADLOCK FALSE
INVARIANT SandboxIsFound
INVARIANT GoneIsGone
PROPERTY KilledPodGoes
