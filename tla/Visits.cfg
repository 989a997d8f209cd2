SPECIFICATION Spec
CONSTANTS
    v1 = v1
    u1 = u1
    None = None
    p1 = p1
    p2 = p2
    r1 = r1
    r2 = r2
    Visitors = {v1}
    Users = {u1}
    Processes = {p1, p2}
    Ahead = {p2}
    Requests = {r1, r2}
    DayLen = 3
    SaltTTL = 5
    SessionGap = 2
    CadenceWindow = 1
    CadenceLimit = 1
    MaxDelay = 1
    MaxTime = 5
    MaxRequests = 2
    MaxFaults = 2
SYMMETRY Symmetry
INVARIANTS TypeOK SaltIsTheDay UserIsTheSessions CadenceIsRecent
PROPERTIES SessionIsAVisit
CHECK_DEADLOCK FALSE
