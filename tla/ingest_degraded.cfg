SPECIFICATION Spec
CONSTANTS
    r1 = r1
    r2 = r2
    StampOrder = "next"
    TicksPerSecond = 1
    Lookback = 1
    InitialRows = 2
    MaxRows = 3
    MaxTime = 1
    MaxWithdrawals = 1
    MaxMigrations = 0
    Runs = {r1, r2}
    OneAtATime = FALSE
    Modes <- AllModes
    PageSize = 1
    ServerCap = 2
    MaxPages = 2
    MaxAttempts = 2
    MaxDiscoveryAttempts = 2
    UrlOverride = FALSE
    ShouldCreateBucket = FALSE
    CreateAgainFails = TRUE
    InitialBuckets = {TRUE, FALSE}
    InitialWatermark <- None
    CountMayBeMissing = TRUE
    MaxFaults = 1
SYMMETRY RunSymmetry
INVARIANT NoFalseAlarm
INVARIANT DoneMeansRecorded
PROPERTY DryRunWritesNothing
CHECK_DEADLOCK FALSE
