CONSTANTS
    s1 = s1
    s2 = s2
    t1 = t1
    t2 = t2
    c1 = c1
    c2 = c2
    None = None
    Server <- MCServer
    Tool <- MCTool
    Caller <- MCCaller
    MaxClients = 3
    MayCrash = TRUE
SPECIFICATION McpSpec
SYMMETRY Symmetric
INVARIANTS
    LookupIsOpen
    MappedIsServed
CHECK_DEADLOCK FALSE
