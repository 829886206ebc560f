CONSTANT
    Setups <- ManySetups
SPECIFICATION FairSpec
INVARIANTS
    GroupsOrthogonal
    EveryPromptSaved
    EqualGather
PROPERTIES
    AllEnd
