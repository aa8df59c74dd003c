\* The assertions of getHost and cacheGetRoute.
CONSTANTS
    m1 = m1
    Mods = {m1}
    h1 = h1
    h2 = h2
    Hosts = {h1, h2}
    Routes <- MCRoutes
    NShard = 2
    Shard <- MCShard
    NoLB = NoLB
    MaxNow = 0
    MaxChange = 0
    MaxDrop = 0
SPECIFICATION Spec
INVARIANT NoAbort
CHECK_DEADLOCK FALSE
