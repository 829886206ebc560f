SPECIFICATION FairSpec
CONSTANTS
    NumRanks = 3
    Kind <- OneOfEach
    NumBlocks = 2
INVARIANTS CollectivesMatch SameOutcome WeightsIntact
PROPERTY AllEnd
