SPECIFICATION ScanSpec
CONSTANTS
    Tickets = {k1, k2}
    Unknown = Unknown
    Forged = Forged
    Scanners = {s1, s2, s3}
    Refunded = {k2}
    Environment = {"ttl", "redis", "reply", "db", "crash"}
    MaxFaults = 3
INVARIANTS OneAdmissionPerKey TurnedAwayJustified
