SPECIFICATION Spec
CONSTANTS
    Upgraders = {u1}
    Images = {i1, i2}
    MaxSnapshots = 2
    Keys = {k1, k2}
    Values = {v1, v2}
    Writers = {x1, x2}
    NoValue = NoValue
    Watched = {w1, w2, w3}
    PoolSize = 2
    MaxStreams = 1
    Networks = {x1, x2}
    Dirs = {x1, x2}
    QuotaMinID = 1
    MaxQuotaID = 4
    Listers = {x1, x2}
    Askers = {x1, x2}
    MaxCalls = 3
    Scenarios = {
        {"upgrade", "stepFails"},
        {"upgrade", "stepFails", "releaseFails"},
        {"upgrade", "writeFails"},
        {"upgrade", "upgradeCrash"},
        {"upgrade", "upgradeOverlap"},
        {"meta"},
        {"meta", "sameKey"},
        {"meta", "removeFails"},
        {"pool"},
        {"pool", "poolOverlap"},
        {"pool", "broken"},
        {"net", "launchFails"},
        {"net", "last"},
        {"net", "createFails"},
        {"net", "removeFails"},
        {"net", "connectFails"},
        {"net", "removed"},
        {"net", "saveFails"},
        {"net", "crash"},
        {"net", "crash", "crashInWrite"},
        {"quota", "explicit"},
        {"quota", "fails"},
        {"quota", "restart"},
        {"quota", "wraps"},
        {"quota", "fails", "restart"},
        {"catalog"},
        {"catalog", "listOverlap"},
        {"catalog", "sameName"},
        {"catalog", "storeFails"},
        {"plugin"},
        {"plugin", "probes"},
        {"plugin", "otherType"}}
SYMMETRY Symmetry
CHECK_DEADLOCK FALSE
INVARIANT UpgradeIsWhole
INVARIANT StreamsAreCounted
INVARIANT EndpointsMatchState
INVARIANT QuotaIsInForce
INVARIANT CatalogIsExact
INVARIANT PluginIsLoaded
PROPERTY StoreIsDurable
