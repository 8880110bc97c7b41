\* Two bots for three ticks, an engine in each of its modes for two, and a
\* match of three.
SPECIFICATION MCSpec
CONSTANTS
    b1 = b1  b2 = b2
    Bots = {b1, b2}
    EagerBots = {b2}
    LastTick = 2
    PipeSize = 3
    Modes <- AllModes
    MatchTicks = 2
    Players = {"p1", "p2"}
    MaxTicks = 3
INVARIANTS
    HonestNotBlamed NoneOutlivesSession
    InStep NoOrphan
    ResultIsEngines ReplayBacksResult OffendersLose
PROPERTIES
    TurnEnds ReadersSettle DeadlinesHold
CHECK_DEADLOCK FALSE
