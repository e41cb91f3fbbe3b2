\* The connection to the origin server may fail.
SPECIFICATION FairSpec
CONSTANTS
    Servers = {s1, s2}
    Requests = {get}
    GetRequests = {get}
    HostRequests = {get}
    FailPoints = {"connect"}
    CacheTimeout = 4
    MaxDelay = 0
    Null = Null
    Absent = Absent
PROPERTIES
    MissBringsAnswer
