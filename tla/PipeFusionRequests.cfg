CONSTANTS
    NumStages = 4
    NumPatches = 2
    NumBlocks = 8
    Warmup = 1
    Models <- TwoModels
    Plans <- TwoRequests
    LinkCapacity = 0
    FeedbackCapacity = 4
    None = None
SPECIFICATION FairSpec
INVARIANTS InputsMatch EveryBlockOnce
PROPERTIES CleanBoundary AllEnd
