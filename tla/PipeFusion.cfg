SPECIFICATION FairSpec
CONSTANTS
    NumStages = 3
    NumSteps = 3
    NumPatches = 3
    ConditionReuse = TRUE
    ShapesPreset = FALSE
    LinkCapacity = 0
    HostSync = FALSE
    None = None
INVARIANTS NeverFails InputsMatch NothingLeft ResultComplete SendRetention
PROPERTIES Completes RingSpec
