CONSTANTS
    v1 = v1
    v2 = v2
    c1 = c1
    c2 = c2
    None = None
    Version <- MCVersion
    Caller <- MCCaller
    MaxRegistrations = 3
    TeardownMayFail = TRUE
    Threshold = 2
    Window = 2
    MaxCalls = 1
    MaxTime = 2
    MaxFailures = 3
SPECIFICATION HealthSpec
SYMMETRY Symmetric
INVARIANTS
    DefaultIsRegistered
    HealthyIsReachable
PROPERTIES
    BurstsAreNoticed
CHECK_DEADLOCK FALSE
