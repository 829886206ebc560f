\* One height two ranks share and one they cannot, which is asked for again.
CONSTANTS
    Heights = {3, 4}
    SpDegrees = {1, 2}
    PipelinePatches = {1, 2}
    PatchSizes = {1}
    RowSplits = {TRUE}
SPECIFICATION Spec
INVARIANT RowSplitNeedsDivisibleHeight
