SPECIFICATION Spec
CONSTANTS
    r1 = r1
    r2 = r2
    StampOrder = "tied"
    TicksPerSecond = 1
    Lookback = 1
    InitialRows = 1
    MaxRows = 2
    MaxTime = 2
    MaxWithdrawals = 0
    MaxMigrations = 0
    Runs = {r1, r2}
    OneAtATime = FALSE
    Modes <- OnlyIncremental
    PageSize = 1
    ServerCap = 2
    MaxPages = 4
    MaxAttempts = 2
    MaxDiscoveryAttempts = 2
    UrlOverride = FALSE
    ShouldCreateBucket = FALSE
    CreateAgainFails = TRUE
    InitialBuckets = {TRUE}
    InitialWatermark = 0
    CountMayBeMissing = FALSE
    MaxFaults = 0
INVARIANT AtLeastOnce
CHECK_DEADLOCK FALSE
