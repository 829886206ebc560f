\* One request whose patches are shared by a Ulysses group of two ranks.
CONSTANTS
    Heights = {4, 8}
    SpDegrees = {1, 2}
    PipelinePatches = {1, 2}
    PatchSizes = {1}
    RowSplits = {TRUE}
    UlyssesDegrees = {1, 2}
    Warmups = {1, 2}
    SolverOrders = {2, 3}
    NumSteps = 3
    MaxRequests = 1
SPECIFICATION SpecDenoise
INVARIANT AttendsEveryRow
