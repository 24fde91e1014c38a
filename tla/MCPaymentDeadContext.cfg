SPECIFICATION FairSpec
CONSTANTS
    Intents = {i1}
    NoIntent = NoIntent
    Buyers = {b1}
    t1 = t1
    Tiers = {t1}
    e1 = e1
    Events = {e1}
    EventOf <- MCEventOf
    Capacity <- MCCapacity
    Quantities = {2}
    PurchaseCap = 4
    Workers = {w1}
    Conns = 1
    Price = 3
    GoMax = 15
    ColMax = 7
    Environment = {"cancel", "ttl"}
    MaxFaults = 1
PROPERTIES PaidSettles
CHECK_DEADLOCK FALSE
