SPECIFICATION PipelineSpec
CONSTANTS
    Objects = {o1, o2}
    Feeds = {1}
    Jobs = {d1, d2}
    ListPage = 9
    SourceErrs = TRUE
    MaxTime = 1
    MaxParts = 1
    MaxEdits = 0
    MaxCrashes = 1
    ByHand = {TRUE}
SYMMETRY Symmetry
INVARIANT PipelineTypeOK
INVARIANT GreenLoadCovers
INVARIANT OnlyGatedRowsLoaded
INVARIANT ReportIsFinal
INVARIANT DoneMeansPublished
CHECK_DEADLOCK FALSE
