SPECIFICATION PipelineSpec
CONSTANTS
    Objects = {o1}
    Feeds = {1, 2}
    Jobs = {d1}
    ListPage = 9
    SourceErrs = TRUE
    MaxTime = 0
    MaxParts = 1
    MaxEdits = 0
    MaxCrashes = 0
    ByHand = {TRUE}
INVARIANT FailedTaskFailsDagRun
CHECK_DEADLOCK FALSE
