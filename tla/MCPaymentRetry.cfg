SPECIFICATION FairSpec
CONSTANTS
    Intents = {i1, i2}
    NoIntent = NoIntent
    Buyers = {b1}
    t1 = t1
    Tiers = {t1}
    e1 = e1
    Events = {e1}
    EventOf <- MCEventOf
    Capacity <- MCCapacity
    Quantities = {2}
    PurchaseCap = 4
    Workers = {w1, w2}
    Conns = 2
    Price = 3
    GoMax = 15
    ColMax = 7
    Environment = {"early", "ttl", "checkout", "db", "commit", "lost"}
    MaxFaults = 2
INVARIANTS AckedSettled KeyHasOwner
PROPERTIES PaidSettles HandlersFinish
CHECK_DEADLOCK FALSE
