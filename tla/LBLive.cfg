\* Three hosts judged on one result each: every order the lists can take.
CONSTANTS
    h1 = h1
    h2 = h2
    h3 = h3
    Hosts = {h1, h2, h3}
    InitSucc = 1
    OvldErr = 1
    ContinSuccLim = 1
    ContinErrLim = 1
    ClearTimo = 1
    OvldWaitLim = 1
    RateUnit = 2
    SuccRate = 1
    ErrRate = 1
    WindErrRate = 1
    WindErrLim = 1
    ProbeNum = 1
    ReportTimo = 1
    ErrCap = 1
    MaxNow = 1
    MaxCnt = 1
SPECIFICATION Spec
PROPERTIES RoundRobin Probed Scheduled
