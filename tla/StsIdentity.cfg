CONSTANTS
    c1 = c1
    r1 = r1
    r2 = r2
    None = None
    Caller <- MCCaller
    Task <- MCTask
    Duration = 3
    RefreshBefore = 1
    MaxDelay = 1
    Pause = 1
    TokenLife = 3
    TokensExpire = TRUE
SPECIFICATION StsSpec
INVARIANTS
    HandedOutFresh
    OneRefresher
PROPERTY
    KeptFresh
