\* One host; requests that count for two errors, single successes in between.
CONSTANTS
    h1 = h1
    Hosts = {h1}
    InitSucc = 9
    OvldErr = 1
    ContinSuccLim = 3
    ContinErrLim = 3
    ClearTimo = 1
    OvldWaitLim = 1
    RateUnit = 4
    SuccRate = 3
    ErrRate = 1
    WindErrRate = 2
    WindErrLim = 2
    ProbeNum = 1
    ReportTimo = 1
    ErrCap = 2
    MaxNow = 0
    MaxCnt = 5
SPECIFICATION Spec
INVARIANT IdleErrRateRespected
