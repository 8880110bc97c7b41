\* Three workers on two processes, one match, two enqueues, two faults.
SPECIFICATION Spec
CONSTANTS
    w1 = w1  w2 = w2  w3 = w3
    p1 = p1  p2 = p2
    Matches = {m1}
    m1 = m1  m2 = m2
    Processes = {p1, p2}
    NoProcess = NoProcess
    NoHandle = NoHandle
    Workers = {w1, w2, w3}
    Host <- HostThree
    MaxAttempts = 3
    MaxRuns = 2
    MaxFaults = 2
INVARIANTS AtMostOneCommitter OneCommitPerRun
PROPERTIES TokensAdvance ImplementsOwnership
CHECK_DEADLOCK FALSE
