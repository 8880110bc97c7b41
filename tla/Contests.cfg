\* Two agents, two uploads and two enrolments; three agents in three matches,
\* two of which are followed by recalculations, while one of the agents is being
\* enrolled; two publications.
SPECIFICATION MCSpec
CONSTANTS
    Parts = {"registration", "table", "snapshots"}
    a1 = a1  a2 = a2
    m1 = m1  m2 = m2  m3 = m3
    Agents = {a1, a2}
    Uploads = {"u1", "u2"}
    Enrolments = {"e1", "e2"}
    BodyStates = {"draft", "registration_open"}
    Contestants <- ContestantsDef
    Late = {3}
    Pairing <- PairingDef
    Matches = {m1, m2, m3}
    Followed = {m2, m3}
    Requests = {}
    Publishers = {"p1", "p2"}
INVARIANTS
    CleanVersionsImmutable EntriesSound ConfirmedIsRanked
    RecalculationRepairs TablesAgree VersionsDense
CHECK_DEADLOCK FALSE
