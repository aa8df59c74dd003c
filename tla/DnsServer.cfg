\* One module, two connections on two workers, two changes in two seconds, one
\* failed query.
CONSTANTS
    Mods = {m1}
    Hosts = {h1}
    Fds = {f1, f2}
    Workers = {w1, w2}
    Nobody = Nobody
    MaxTs = 1
    MaxChange = 2
    MaxFail = 1
SPECIFICATION Spec
SYMMETRY Symmetry
INVARIANTS TypeOK OwedOnTheirWay NeverWiped
PROPERTY KeepsFeed
