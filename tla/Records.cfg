SPECIFICATION Spec
CONSTANTS
    Clients = {c1, c2}
    IDs = {i1, i2}
    Names = {n1, n2, n3}
    c1 = c1
    c2 = c2
    i1 = i1
    i2 = i2
    n1 = n1
    n2 = n2
    n3 = n3
    None = None
    MaxCrashes = 1
    Containers = {n1, n2, n3}
    Removers = {r1}
    r1 = r1
    Remote = FALSE
    MaxOverlap = 2
    MaxFrom = 2
    MaxBinds = 2
    Scenarios = {
        {"registry", "fails"},
        {"volume", "createFails", "detachFails"},
        {"volume", "sharedStart", "startFails", "copy"},
        {"volume", "overlap", "createFails", "detachFails"},
        {"mounts", "fromOthers", "fromReplaced", "fromHost", "storageFails"},
        {"mounts", "fromOthers", "badMode", "attachFails"},
        {"mounts", "binds", "replace"},
        {"mounts", "binds", "attachFails", "upgrades"}}
SYMMETRY Symmetry
CHECK_DEADLOCK FALSE
INVARIANT RegistryAgrees
INVARIANT UsedVolumeIsKept
INVARIANT RefsAreExact
INVARIANT MountsAreSound
