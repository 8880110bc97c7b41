\* One user, three sessions of which one may be live, two requests at a time; two
\* roles and two checks; a limit of two; five requests with two keys.
SPECIFICATION MCSpec
CONSTANTS
    c1 = c1  c2 = c2
    Users = {"u"}
    Calls = {c1, c2}
    MaxMinted = 3
    MaxSessions = 1
    Expiring = {1}
    NoUser = "nobody"
    Roles = {"r", "s"}
    Checks = {"k1", "k2"}
    TTL = 1
    MaxLag = 1
    MaxChanges = 1
    Clients = {"a"}
    MaxRequests = 2
    Window = 2
    LastTime = 7
    Keys = {"k", "l"}
    Senders = {1, 2, 3, 4, 5}
    KeyOf <- KeyOfDef
    Targets = {"m", "n"}
    TargetOf <- TargetOfDef
    RunBound = 2
INVARIANTS
    FamilyLinear EndedFamiliesStayEnded SessionLimit
    AtMostTwoWindows RepeatsAgree OneRunPerKey
PROPERTIES GrantsAreRecent
SYMMETRY Symmetry
CHECK_DEADLOCK FALSE
