\* Two writers, two readers, spurious wake-ups, a fair scheduler.
SPECIFICATION FairSpec
CONSTANTS
    Writers = {w1, w2}
    Readers = {r1, r2}
    Capacity = 2
    INT_MAX = 3
    Spurious = TRUE
INVARIANTS
    NoLostSignal
PROPERTIES
    ImplementsBoundedQueue
    EverythingPasses
