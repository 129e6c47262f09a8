CONSTANTS
    a = a
    b = b
    c = c
    ghost = ghost
    Id <- MCId
    Plans <- MCPlans
    MaxParallel = 2
SPECIFICATION PlanSpec
INVARIANTS
    PlanTypeOK
    LevelsAreDepths
    OnlyBlockedDropped
    ProgressIsExact
    OnlyBlockedLeftPending
PROPERTIES
    ImplementsDagExecution
CHECK_DEADLOCK FALSE
