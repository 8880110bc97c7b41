\* Two matches, each followed by a recalculation.
SPECIFICATION MCSpec
CONSTANTS
    Parts = {"table"}
    a1 = a1  a2 = a2
    m1 = m1  m2 = m2  m3 = m3
    Agents = {a1}
    Uploads = {"u1"}
    Enrolments = {"e1"}
    BodyStates = {"draft"}
    Contestants <- ContestantsDef
    Late = {}
    Pairing <- PairingDef
    Matches = {m1, m2}
    Followed = {m1, m2}
    Requests = {}
    Publishers = {"p1"}
INVARIANTS FinalTableComplete
CHECK_DEADLOCK FALSE
