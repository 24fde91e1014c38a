SPECIFICATION Spec
CONSTANTS
    Intents = {i1, i2}
    NoIntent = NoIntent
    Buyers = {b1}
    t1 = t1
    Tiers = {t1}
    e1 = e1
    Events = {e1}
    EventOf <- MCEventOf
    Capacity <- MCCapacity
    Quantities <- MCQuantities
    PurchaseCap = 3
    Workers = {w1, w2}
    Conns = 2
    Price = 3
    GoMax = 15
    ColMax = 7
    Environment = {"early", "dup", "ttl", "checkout", "redis", "reply", "db", "commit", "cancel", "crash", "lost"}
    MaxFaults = 2
SYMMETRY MCSymmetry
INVARIANTS TypeOK NoOversell MintedExactlyOnce RefusedOnlyWhenFull RowsExact PublishedOnce LocksProtect
PROPERTIES SettlementFinal ImplementsSale
CHECK_DEADLOCK FALSE
