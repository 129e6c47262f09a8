CONSTANTS
    a = a
    b = b
    c = c
    Id <- MCId
    Plans <- MCPlans
    Supplements <- MCSupplements
    MaxParallel = 2
    MaxTurns = 3
    TokenBudgetSet = TRUE
    TimeLimitSet = TRUE
SPECIFICATION RequestSpec
INVARIANTS
    SuccessHidesNoLoss
    EmittedOnce
    TurnsAreClosed
PROPERTIES
    FailuresAreKept
    RequestEnds
CHECK_DEADLOCK FALSE
