\* Two modules on one socket, one of which the agent never has; a late answer,
\* two changes at the agent and a result.
CONSTANTS
    m1 = m1
    Mods = {m1, m2}
    Hosts = {a}
    HostsOf <- MCHostsOf
    NoItem = NoItem
    SeqLim = 3
    MaxFault = 1
    MaxChange = 2
    MaxReport = 2
SPECIFICATION Spec
INVARIANTS TypeOK OrderKept FrontExists OwnHosts
PROPERTIES FreshAnswer CacheConverges
