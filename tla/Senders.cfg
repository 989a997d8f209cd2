SPECIFICATION SendersFairSpec
CONSTANTS
    a = a
    b = b
    ip1 = ip1
    NoIp = NoIp
    Over = Over
    Unresolved = Unresolved
    p1 = p1
    p2 = p2
    c1 = c1
    Routes = {a, b}
    Callers = {ip1}
    Posts = {p1, p2}
    Charges = {c1}
    MaxKeys = 1
    WireMax = 2
    Threshold = 2
    MaxMade = 3
    MaxFaults = 2
INVARIANTS SendersTypeOK RowsAreHonest NothingCountsTwice NothingIsLostUnasked
PROPERTIES MemoryIsReleased ChargesArrive
CHECK_DEADLOCK FALSE
