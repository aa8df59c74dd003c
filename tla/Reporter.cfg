\* Two modules on two threads, one of them with two hosts whose addresses share
\* a row; up to two reports of each; two faults.
CONSTANTS
    m1 = m1
    a = a
    t1 = t1
    t2 = t2
    top = top
    Mods = {m1, m2}
    Hosts = {a, b, c}
    HostsOf <- MCHostsOf
    Columns = {a, top}
    Column <- MCColumn
    Threads = {t1, t2}
    HashTo <- MCHashTo
    ReportTimo = 2
    MaxNow = 4
    MaxChange = 3
    MaxFault = 2
SPECIFICATION Spec
INVARIANT TypeOK
PROPERTIES RowsAdvance RowsCatchUp
