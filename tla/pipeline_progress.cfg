SPECIFICATION FairPipeline
CONSTANTS
    Objects = {o1}
    Feeds = {1, 2, 3}
    Jobs = {d1, d2}
    ListPage = 9
    SourceErrs = TRUE
    MaxTime = 1
    MaxParts = 1
    MaxEdits = 1
    MaxCrashes = 1
    ByHand = {FALSE}
PROPERTY EveryDagRunEnds
PROPERTY EventuallyInWarehouse
CHECK_DEADLOCK FALSE
