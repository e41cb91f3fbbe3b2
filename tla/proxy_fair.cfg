\* No call of serve fails and every GET has a Host header, but there may be a
\* SIGINT, and accept may fail.  The code's ratio of timeout and period, and a
\* cleaner that may be a tick late each time it has to run.
SPECIFICATION ProxyFairSpec
CONSTANTS
    Servers = {s1, s2}
    Requests = {get}
    GetRequests = {get}
    HostRequests = {get}
    FailPoints = {}
    CacheTimeout = 4
    MaxDelay = 1
    Interrupts = TRUE
    ListenFails = TRUE
    Null = Null
    Absent = Absent
INVARIANTS
    WaitersHaveFlight
    HitAgeBound
    RegistryIsExact
PROPERTIES
    NeverEvictsEarly
    CallersAreAnswered
    EntriesExpire
    InterruptEndsProcess
CHECK_DEADLOCK FALSE
