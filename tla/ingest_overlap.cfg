SPECIFICATION Spec
CONSTANTS
    r1 = r1
    r2 = r2
    StampOrder = "next"
    TicksPerSecond = 2
    Lookback = 2
    InitialRows = 2
    MaxRows = 2
    MaxTime = 4
    MaxWithdrawals = 0
    MaxMigrations = 0
    Runs = {r1, r2}
    OneAtATime = FALSE
    Modes <- WritingModes
    PageSize = 2
    ServerCap = 1
    MaxPages = 4
    MaxAttempts = 2
    MaxDiscoveryAttempts = 2
    UrlOverride = FALSE
    ShouldCreateBucket = FALSE
    CreateAgainFails = TRUE
    InitialBuckets = {TRUE}
    InitialWatermark = 0
    CountMayBeMissing = FALSE
    MaxFaults = 1
SYMMETRY RunSymmetry
INVARIANT TypeOK
INVARIANT CountReconciles
INVARIANT AtLeastOnce
INVARIANT DeliveryInv
INVARIANT FailedWindowReread
INVARIANT ManifestFaithful
INVARIANT WatermarkTraceable
PROPERTY RawAppendOnly
PROPERTY ImplementsDelivery
CHECK_DEADLOCK FALSE
