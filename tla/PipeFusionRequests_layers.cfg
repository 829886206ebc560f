CONSTANTS
    NumStages = 4
    NumPatches = 2
    NumBlocks = 8
    Warmup = 1
    Models <- GivenSplit
    Plans <- OneRequest
    LinkCapacity = 0
    FeedbackCapacity = 4
    None = None
SPECIFICATION Spec
INVARIANT EveryBlockOnce
