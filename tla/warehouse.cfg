SPECIFICATION FairSpec
CONSTANTS
    Objects = {1, 2, 3}
    DimValues = {a, b}
    MaxTime = 1
    Loaders = {l1, l2}
    LoadersOverlap = TRUE
    MaxCrashes = 1
    Histories <- Steady
INVARIANT TypeOK
INVARIANT KeysResolve
INVARIANT LastCommitWins
INVARIANT FactsAddUp
INVARIANT OneOutputOneOrder
INVARIANT WarehouseInv
PROPERTY ReloadChangesNothing
PROPERTY ImplementsTable
PROPERTY EveryLoadEnds
CHECK_DEADLOCK FALSE
