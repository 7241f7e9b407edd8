SPECIFICATION Spec
CONSTANTS
    p1 = p1
    p2 = p2
    Requests = {r1, r2}
    Providers = {p1, p2}
    Rank <- MCRank
    AccountLimit = 1
    ProviderLimit <- MCProviderLimit
    Retries = 2
    FailureThreshold = 2
    Cooldown = 1
    Timeout = 1
    LeaseTtl = 2
    WindowTicks = 2
    RateLimit = 2
    LastTick = 2
    MaxHits = 5
    MaxLosses = 1
INVARIANTS
    LeaseOutlivesCall
    HoldersWithinLimit
    BurstsAreBounded
PROPERTIES
    LeakedPlacesReturn
