SPECIFICATION DashboardFairSpec
CONSTANTS
    Clients = {c1, c2}
    Buffer = 2
    Environment = {"kafka", "commit", "redis", "reply", "crash"}
    MaxPublished = 3
    MaxVisits = 3
    MaxFaults = 2
INVARIANTS DriftBounded SendsToOpen SnapshotsOrdered
PROPERTIES NeverStalls
CHECK_DEADLOCK FALSE
