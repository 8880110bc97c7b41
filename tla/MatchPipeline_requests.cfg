\* Three requests race an execution and its retry; one of them may break off.
SPECIFICATION PipelineSpec
CONSTANTS
    w1 = w1  w2 = w2  p1 = p1  p2 = p2
    m1 = m1  r1 = r1  r2 = r2  r3 = r3
    Matches = {m1}
    Processes = {p1}
    NoProcess = NoProcess
    NoHandle = NoHandle
    Workers = {w1}
    Host <- HostOf
    Requests = {r1, r2, r3}
    Target <- TargetOf
    MaxRuns = 3
    MaxAttempts = 2
    MaxLapses = 0
    MaxFaults = 0
    MaxSlips = 1
INVARIANTS JobsHaveRuns RunsEnqueuedOnce
PROPERTIES CalmResultKept
SYMMETRY Symmetry
CHECK_DEADLOCK FALSE
