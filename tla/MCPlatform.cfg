SPECIFICATION PlatformFairSpec
CONSTANTS
    p1 = p1
    p2 = p2
    c1 = c1
    c2 = c2
    q1 = q1
    NULL = NULL
    Bad = Bad
    Procs = {p1, p2}
    Migrations = 3
    MaxOutages = 2
    Emails = {"ann", "bob"}
    Passwords = {"x", "y"}
    AskedRoles = {"organizer", "visitor", "admin"}
    Categories = {"general", "music"}
    NewEvents <- MCNewEvents
    Prices = {1}
    Capacity = 1
    Clients = {c1, c2}
    Requests = {q1}
    Loads <- MCLoads
    Documents <- MCDocuments
    MaxScore = 1
    Limit = 2
    Conns = 1
    HostOf <- MCHostOf
INVARIANTS MigratedInOrder ServesMigrated TokensTruthful RightsHeld AnswersHold
           AnswersMatch NothingMissed TiersCoverPrice AllOrNothing
PROPERTIES CatalogGrows EveryoneServes RequestsEnd
CHECK_DEADLOCK FALSE
