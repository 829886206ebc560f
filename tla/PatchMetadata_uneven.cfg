\* The last pipeline patch may be lower than the others.
CONSTANTS
    Heights = {3, 4, 6, 8, 12, 16}
    SpDegrees = {1, 2, 3}
    PipelinePatches = {1, 2, 3, 4}
    PatchSizes = {1, 2}
    RowSplits = {TRUE}
SPECIFICATION Spec
INVARIANT Rebuilds
