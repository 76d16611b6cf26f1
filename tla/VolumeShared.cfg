SPECIFICATION Spec
CONSTANTS
    Clients = {c1, c2}
    IDs = {i1, i2}
    Names = {n1, n2, n3}
    c1 = c1
    c2 = c2
    i1 = i1
    i2 = i2
    n1 = n1
    n2 = n2
    n3 = n3
    None = None
    MaxCrashes = 1
    Containers = {v1, v2}
    Removers = {r1}
    v1 = v1
    v2 = v2
    r1 = r1
    Remote = FALSE
    MaxOverlap = 1
    MaxFrom = 0
    MaxBinds = 0
    Scenarios = {{"volume", "sharedStart"}}
CHECK_DEADLOCK FALSE
INVARIANT UsedVolumeExists
