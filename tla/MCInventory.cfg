SPECIFICATION InventoryFairSpec
CONSTANTS
    Intents = {i1, i2}
    NoIntent = NoIntent
    Buyers = {b1}
    t1 = t1
    Tiers = {t1}
    e1 = e1
    Events = {e1}
    EventOf <- MCEventOf
    Capacity <- MCCapacity
    Quantities = {1}
    PurchaseCap = 4
    Readers = {r1}
    Workers = {w1, w2}
    Conns = 1
    Price = 3
    GoMax = 15
    ColMax = 7
    Environment = {"dup", "redis", "read"}
    MaxFaults = 1
INVARIANTS CacheCommitted
PROPERTIES CacheConverges PaidSettles TokensIssued
CHECK_DEADLOCK FALSE
