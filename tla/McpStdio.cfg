SPECIFICATION StdioSpec
CONSTANTS
    c1 = c1
    c2 = c2
    Caller <- MCCaller
    Room = 1
    MaxRequests = 4
    MaxPieces = 2
PROPERTIES
    LateByGivenUp
    ImplementsAnswerQueue
    CallReturns
CHECK_DEADLOCK FALSE
