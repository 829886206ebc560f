\* Two requests of four steps.
CONSTANTS
    Heights = {3, 4, 12}
    SpDegrees = {1, 2, 4}
    PipelinePatches = {1, 2, 3}
    PatchSizes = {1, 2}
    RowSplits = {TRUE, FALSE}
    UlyssesDegrees = {1, 2, 4}
    Warmups = {0, 1, 2}
    SolverOrders = {2, 3}
    NumSteps = 4
    MaxRequests = 2
SPECIFICATION SpecDenoise
INVARIANTS
    DenoiseTypeOK
    RowsPartition
    TokensFollowRows
    RebuildsEvenSplit
    AttendsNewest
    CachesLatest
    SolverInStep
