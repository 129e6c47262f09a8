CONSTANTS
    p1 = p1
    p2 = p2
    s1 = s1
    s2 = s2
    NoParam = NoParam
    LlmProvider <- MCProvider
    Skill <- MCSkill
    Recordable <- MCRecordable
    MAX_EVENTS = 2
    Minute = 2
    Hour = 4
    Day = 8
    Window = 5
    MaxTime = 8
    MaxRecords = 3
SPECIFICATION MetricsSpec
INVARIANTS
    NothingMissed
    DashboardAddsUp
CHECK_DEADLOCK FALSE
