SPECIFICATION FairSpec
CONSTANTS
    NumRanks = 4
    ShardDegree = 2
    Kind <- WanComponents
    RankLocalFallback = FALSE
INVARIANTS CollectivesMatch SameOutcome
PROPERTY AllEnd
