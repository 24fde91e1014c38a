SPECIFICATION LimitSpec
SYMMETRY MCSymmetry
CONSTANTS
    ip1 = ip1
    u1 = u1
    r1 = r1
    r2 = r2
    r3 = r3
    Requests = {r1, r2, r3}
    Keys = {ip1, u1}
    KeysOf <- MCKeysOf
    Limit = 2
    Window = 4
    MaxDelay = 1
    MaxAhead = 1
    MaxTime = 6
    MaxFaults = 1
INVARIANTS AtMostLimit
PROPERTIES RefusalsDue
CHECK_DEADLOCK FALSE
