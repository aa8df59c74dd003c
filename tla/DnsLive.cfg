\* One connection, two changes that may have the same second, one failed query.
CONSTANTS
    Mods = {m1}
    Hosts = {h1}
    Fds = {f1}
    Workers = {w1}
    Nobody = Nobody
    MaxTs = 1
    MaxChange = 2
    MaxFail = 1
SPECIFICATION Spec
PROPERTY AgentsConverge
