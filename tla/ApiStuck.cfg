\* One module whose only host is overloaded, and one late answer.
CONSTANTS
    m1 = m1
    Mods = {m1}
    Hosts = {a}
    HostsOf <- MCHostsOf
    NoItem = NoItem
    SeqLim = 3
    MaxFault = 1
    MaxChange = 0
    MaxReport = 0
SPECIFICATION Spec
PROPERTY Recovers
