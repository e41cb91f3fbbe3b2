\* Two writers and two readers under a fair scheduler.
SPECIFICATION FairSpec
CONSTANTS
    Writers = {w1, w2}
    Readers = {r1, r2}
    Capacity = 2
    INT_MAX = 3
INVARIANTS
    SemaphoresMatchList
    AssertionsHold
PROPERTIES
    ImplementsBoundedQueue
    EverythingPasses
