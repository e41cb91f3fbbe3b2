\* Three checkers that share the lock of a node, as in rwlock.c, and two swappers.
SPECIFICATION FairSpec
CONSTANTS
    N = 4
    Checkers = {c1, c2, c3}
    Swappers = {s1, s2}
    SharedReading = TRUE
INVARIANTS
    WholeList
    ChecksEveryNode
PROPERTIES
    StoresAreLocked
    PassesEnd
