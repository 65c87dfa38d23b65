CONSTANTS
    p1 = p1
    p2 = p2
    newcomer = newcomer
    veteran = veteran
    Tiles <- Line
    MinDistance = 2
    OasesOf <- SomeOases
    Accounts = {newcomer, veteran}
    Npc = npc
    Allowed <- TheAllowed
    Processes = {p1, p2}
    NpcCounts = {0, 1}
    Requests = {r1, r2}
    MaxTries = 2
    MaxCrashes = 1
SPECIFICATION FairOnboardingSpec
INVARIANTS NewcomersHaveOneHome OneWorldOneSeeding
PROPERTIES RequestsEnd
CHECK_DEADLOCK FALSE
