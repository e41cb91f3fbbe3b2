SPECIFICATION CoSpec
CONSTANTS
    Main = Main
    Workers = {w1, w2}
    NULL = NULL
    MaxCalls = 3
INVARIANTS
    JoinReturnsResult
    RingIsWhole
PROPERTY
    RunsAgain
CHECK_DEADLOCK FALSE
