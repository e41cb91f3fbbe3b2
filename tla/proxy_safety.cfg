\* Three threads, a GET with a Host header, one without, and another method;
\* every call may fail.
SPECIFICATION ProxySpec
CONSTANTS
    Servers = {s1, s2, s3}
    Requests = {get, getNoHost, post}
    GetRequests = {get, getNoHost}
    HostRequests = {get, post}
    FailPoints = {"read", "connect", "send", "receive", "reply"}
    CacheTimeout = 4
    MaxDelay = 0
    Interrupts = FALSE
    ListenFails = FALSE
    Null = Null
    Absent = Absent
SYMMETRY Symmetry
INVARIANTS
    SingleFlight
    PromiseOwnership
PROPERTIES
    ImplementsCoalescing
CHECK_DEADLOCK FALSE
