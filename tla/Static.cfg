\* Two threads and their files, up to three lines, a change of the routes,
\* a death of the agent, a failing write and a step back of the clock.
CONSTANTS
    m1 = m1
    m2 = m2
    a = a
    b = b
    Torn = Torn
    NoFile = NoFile
    Nobody = Nobody
    Shards = {1, 2}
    Lines <- MCLines
    Threshold = 2
    Jitter = 1
    Wide = 16
    MaxNow = 3
    MaxStep = 1
    MaxChange = 1
    MaxCrash = 1
    MaxFail = 1
SPECIFICATION Spec
INVARIANT TypeOK
PROPERTIES LiveAgentUsed DeadNoticed StaticFresh StaticComplete
