\* Two hosts; judgements by rate, by run of results, by window and by waiting
\* time are each decisive somewhere within three results.
CONSTANTS
    h1 = h1
    h2 = h2
    Hosts = {h1, h2}
    InitSucc = 0
    OvldErr = 0
    ContinSuccLim = 2
    ContinErrLim = 2
    ClearTimo = 1
    OvldWaitLim = 2
    RateUnit = 4
    SuccRate = 3
    ErrRate = 3
    WindErrRate = 2
    WindErrLim = 2
    ProbeNum = 1
    ReportTimo = 2
    ErrCap = 2
    MaxNow = 2
    MaxCnt = 3
SPECIFICATION Spec
SYMMETRY Symmetry
INVARIANTS TypeOK ListsPartition BelowLimits
PROPERTIES JudgementsFresh KeepsPromise
