SPECIFICATION Spec
CONSTANTS
    r1 = r1
    r2 = r2
    StampOrder = "next"
    TicksPerSecond = 1
    Lookback = 1
    InitialRows = 2
    MaxRows = 3
    MaxTime = 2
    MaxWithdrawals = 1
    MaxMigrations = 0
    Runs = {r1}
    OneAtATime = FALSE
    Modes <- OnlyFull
    PageSize = 1
    ServerCap = 2
    MaxPages = 4
    MaxAttempts = 2
    MaxDiscoveryAttempts = 2
    UrlOverride = FALSE
    ShouldCreateBucket = FALSE
    CreateAgainFails = TRUE
    InitialBuckets = {TRUE}
    InitialWatermark <- None
    CountMayBeMissing = FALSE
    MaxFaults = 0
INVARIANT AtLeastOnce
CHECK_DEADLOCK FALSE
