\* PostgreSQL: two workers on two processes, two matches, leases that may always
\* run out, no crash and no lost call.  In memory: two workers, a buffer of one,
\* three jobs.
SPECIFICATION QueuesSpec
CONSTANTS
    w1 = w1  w2 = w2  w3 = w3
    p1 = p1  p2 = p2
    m1 = m1  m2 = m2
    Matches = {m1, m2}
    Processes = {p1, p2}
    NoProcess = NoProcess
    NoHandle = NoHandle
    Workers = {w1, w2}
    Host <- HostTwo
    MaxAttempts = 3
    MaxRuns = 1
    MaxFaults = 0
    j1 = j1  j2 = j2  j3 = j3
    c1 = c1  c2 = c2
    MemJobs = {j1, j2, j3}
    JobMatch <- JobMatchDef
    Consumers = {c1, c2}
    Capacity = 1
    MaxTries = 2
    NoJob = NoJob
INVARIANTS SolePlace AcceptedJobsKept
PROPERTIES JobsResolve RetryReturns
CHECK_DEADLOCK FALSE
