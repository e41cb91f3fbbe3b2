\* The threads of the program: one writer and one reader.
SPECIFICATION Spec
CONSTANTS
    Writers = {w1}
    Readers = {r1}
    Capacity = 3
    INT_MAX = 5
INVARIANTS
    GetsExpected
CHECK_DEADLOCK FALSE
