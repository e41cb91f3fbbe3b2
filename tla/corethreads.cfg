SPECIFICATION CoreSpec
CONSTANTS
    CoreThreads = {t1, t2}
    Clients = {c1, c2}
    NULL = NULL
    MaxCalls = 2
INVARIANTS
    CancelSparesTheProcess
    JoinReturnsResult
PROPERTY
    JoinerIsWoken
CHECK_DEADLOCK FALSE
