\* The last permitted attempt is lost with its process: the row stays reserved
\* under a lapsed lease for ever.
SPECIFICATION FairSpec
CONSTANTS
    w1 = w1  w2 = w2  w3 = w3
    p1 = p1  p2 = p2
    m1 = m1  m2 = m2
    Matches = {m1}
    Processes = {p1, p2}
    NoProcess = NoProcess
    NoHandle = NoHandle
    Workers = {w1, w2}
    Host <- HostTwo
    MaxAttempts = 3
    MaxRuns = 1
    MaxFaults = 1
PROPERTIES LapsedLeaseRecovered
CHECK_DEADLOCK FALSE
