SPECIFICATION Spec
CONSTANTS
    Objects <- WithKeyless
    Feeds = {1, 2}
    Jobs = {j1, j2}
    ListPage = 1
    SourceErrs = TRUE
    MaxTime = 1
    MaxParts = 1
    MaxEdits = 1
    MaxCrashes = 1
SYMMETRY JobSymmetry
INVARIANT GateHolds
INVARIANT OutputComplete
INVARIANT FailsForAReason
PROPERTY LastGoodOutputKept
CHECK_DEADLOCK FALSE
