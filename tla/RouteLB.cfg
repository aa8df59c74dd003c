\* One module on the second of two RouteLB objects; two changes of its route, one
\* loss of the connection.  The agent may stop on an assertion.
CONSTANTS
    m1 = m1
    Mods = {m1}
    h1 = h1
    h2 = h2
    Hosts = {h1, h2}
    Routes <- MCRoutes
    NShard = 2
    Shard <- MCShard
    NoLB = NoLB
    MaxNow = 1
    MaxChange = 2
    MaxDrop = 1
SPECIFICATION Spec
INVARIANTS TypeOK PullAccounted CopiesCurrent
PROPERTIES PullResolved RoutesConverge
CHECK_DEADLOCK FALSE
