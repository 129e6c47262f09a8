CONSTANTS
    r1 = r1
    r2 = r2
    s1 = s1
    None = None
    Request <- MCRequest
    Message <- MCRequest
    Session <- MCSession
    Factory <- MCAgent
    Store <- MCAgent
    MaxAgents = 2
    MaxCrashes = 1
    MaxCalls = 2
    MaxStoreOps = 1
SPECIFICATION RequestsSpec
SYMMETRY Symmetric
INVARIANTS
    ServedByOneAgent
    CallFallsBack
    ProgressOnlyInTask
    RecordedOnce
    RecordsOwnCalls
    QuietInChat
    NothingForgotten
CHECK_DEADLOCK FALSE
