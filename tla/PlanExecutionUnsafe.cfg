CONSTANTS
    a = a
    b = b
    c = c
    ghost = ghost
    Id <- MCId
    Plans <- MCPlans
    MaxParallel = 2
SPECIFICATION PlanSpec
INVARIANT
    UnsafeRunsAlone
CHECK_DEADLOCK FALSE
