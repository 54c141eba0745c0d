SPECIFICATION Spec
CONSTANTS
    Objects = {o1}
    Feeds = {1, 2}
    Jobs = {j1}
    ListPage = 1
    SourceErrs = FALSE
    MaxTime = 1
    MaxParts = 1
    MaxEdits = 1
    MaxCrashes = 0
INVARIANT LatestVersionWins
CHECK_DEADLOCK FALSE
