SPECIFICATION AnalyticsSpec
CONSTANTS
    p1 = p1
    p2 = p2
    p3 = p3
    Purchases <- MCPurchases
    OccurredAt <- MCOccurredAt
    Environment = {"net", "timeout", "redis", "restart"}
    MaxFaults = 2
INVARIANTS
    StatsExact
    CounterLags
    AckCoversOwn
CHECK_DEADLOCK FALSE
