\* A lease lapses under a live worker.
SPECIFICATION PipelineSpec
CONSTANTS
    w1 = w1  w2 = w2  p1 = p1  p2 = p2
    m1 = m1  r1 = r1  r2 = r2  r3 = r3
    Matches = {m1}
    Processes = {p1, p2}
    NoProcess = NoProcess
    NoHandle = NoHandle
    Workers = {w1, w2}
    Host <- HostOf
    Requests = {r1}
    Target <- TargetOf
    MaxRuns = 1
    MaxAttempts = 2
    MaxLapses = 1
    MaxFaults = 0
    MaxSlips = 0
PROPERTIES FinishedIsFinal
CHECK_DEADLOCK FALSE
