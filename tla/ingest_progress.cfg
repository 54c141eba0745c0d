SPECIFICATION FairSpec
CONSTANTS
    r1 = r1
    r2 = r2
    r3 = r3
    StampOrder = "next"
    TicksPerSecond = 1
    Lookback = 1
    InitialRows = 2
    MaxRows = 2
    MaxTime = 1
    MaxWithdrawals = 0
    MaxMigrations = 1
    Runs = {r1, r2, r3}
    OneAtATime = TRUE
    Modes <- OnlyIncremental
    PageSize = 1
    ServerCap = 2
    MaxPages = 4
    MaxAttempts = 2
    MaxDiscoveryAttempts = 2
    UrlOverride = FALSE
    ShouldCreateBucket = TRUE
    CreateAgainFails = TRUE
    InitialBuckets = {TRUE, FALSE}
    InitialWatermark = 0
    CountMayBeMissing = FALSE
    MaxFaults = 1
INVARIANT FailsForAReason
PROPERTY EveryRunEnds
PROPERTY EventualDelivery
CHECK_DEADLOCK FALSE
