\* A commit takes effect and its reply is lost.
SPECIFICATION PipelineSpec
CONSTANTS
    w1 = w1  w2 = w2  p1 = p1  p2 = p2
    m1 = m1  r1 = r1  r2 = r2  r3 = r3
    Matches = {m1}
    Processes = {p1}
    NoProcess = NoProcess
    NoHandle = NoHandle
    Workers = {w1}
    Host <- HostOf
    Requests = {r1, r2}
    Target <- TargetOf
    MaxRuns = 2
    MaxAttempts = 2
    MaxLapses = 0
    MaxFaults = 1
    MaxSlips = 0
INVARIANTS OneRunPerMatch
CHECK_DEADLOCK FALSE
