\* The threads of the program, one writer and one reader, under a fair scheduler.
SPECIFICATION FairSpec
CONSTANTS
    Writers = {w1}
    Readers = {r1}
    Capacity = 3
    INT_MAX = 12
INVARIANTS
    AssertionsHold
PROPERTIES
    NodesAreLive
    ImplementsBoundedQueue
    EverythingPasses
