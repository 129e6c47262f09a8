CONSTANTS
    a = a
    b = b
    c = c
    d = d
    ghost = ghost
    Id <- MCId
    Plans <- MCPlans
    ConcurrencySafe = {a, b}
SPECIFICATION StreamSpec
INVARIANTS
    UnsafeRunsAlone
    ClientViewIsSound
    EveryOutcomeDelivered
PROPERTIES
    ImplementsDagExecution
    StreamEnds
CHECK_DEADLOCK FALSE
