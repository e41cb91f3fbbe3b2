\* Five threads on the futex mutex, with signals; or the three checkers and the
\* three swappers of the program on one spinlock.
SPECIFICATION LocksSpec
CONSTANTS
    Threads = {t1, t2, t3, t4, t5}
    Signals = TRUE
    SpinThreads = {u1, u2, u3, u4, u5, u6}
INVARIANTS
    NoLostWakeup
PROPERTIES
    ImplementsLock
    SomebodyEnters
    SpinImplementsLock
    SpinSomebodyEnters
