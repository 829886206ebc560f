\* Two ranks, two recipes; every rank's installation is the same.
CONSTANTS
    r1 = r1
    r2 = r2
    A = A
    B = B
    None = None
    Ranks = {r1, r2}
    Schedule <- TwoRecipes
    BadInstalls <- Uniform
    NumRequests = 2
    MaxOps = 2
    NumBuffers = 1
    MaxAhead = 3
    MaxFailures = 1
SPECIFICATION Spec
INVARIANTS TypeOK ReadsOwnTrio WaitsAreOwn RecipeOfStep NeverStuck
CHECK_DEADLOCK FALSE
