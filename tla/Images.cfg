SPECIFICATION Spec
CONSTANTS
    Names = {n1, n2}
    Tags = {t1}
    Images = {i1, i2}
    Clients = {c1, c2}
    n1 = n1
    n2 = n2
    t1 = t1
    i1 = i1
    i2 = i2
    c1 = c1
    c2 = c2
    MaxRequests = 4
    MaxRestarts = 1
    Commits = {c1, c2}
    Boxes = {n1, n2}
    Targets = {i1, i2}
    Changes = {1, 2}
    Scenarios = {
        {"store", "pulls"}, {"store", "moveTag"}, {"store", "fault"}, {"store", "overlap"},
        {"commit", "same", "twoAtOnce"},
        {"commit", "sameRef"},
        {"commit", "sameRef", "twoAtOnce", "commitCrash"},
        {"commit", "sameRef", "twoAtOnce", "removes", "commitFails"}}
SYMMETRY Symmetry
CHECK_DEADLOCK FALSE
INVARIANT StoreIsSound
INVARIANT StoreMatchesContainerd
INVARIANT CommitIsSound
PROPERTY LoadRepairs
