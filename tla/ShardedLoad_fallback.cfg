CONSTANTS
    NumRanks = 2
    ShardDegree = 2
    Kind <- OneEncoder
    RankLocalFallback = TRUE
SPECIFICATION FairSpec
CHECK_DEADLOCK FALSE
PROPERTY AllEnd
