------------------------------- MODULE MyMutex -------------------------------
(***************************************************************************)
(* The futex mutex of second/5-grade/my-mutex: threads that lock and       *)
(* unlock one my_mutex_t for ever.  Every access to the word is one action *)
(* (they are all atomic operations), and so is what the kernel does in     *)
(* FUTEX_WAIT (compare and go to sleep) and FUTEX_WAKE.                    *)
(***************************************************************************)
EXTENDS Integers

CONSTANTS
    Threads,
    Signals     \* TRUE: a signal handler may run in a thread asleep in the kernel

ASSUME SignalsAssumption == Signals \in BOOLEAN

UNLOCKED            == 0
LOCKED_NO_WAITERS   == 1
LOCKED_WITH_WAITERS == 2

VARIABLES
    m,      \* *m, the futex word
    pc      \* per thread: the next access, or where it is

vars == <<m, pc>>

PC == {"out",               \* not using the mutex
       "cas",               \* my_mutex_lock, 39
       "exchange",          \* 42, 49
       "futexWait",         \* 45, not yet compared
       "asleep",            \* 45, in the kernel
       "in",                \* holds the mutex
       "unlockExchange",    \* my_mutex_unlock, 57
       "futexWake"}         \* 58

TypeOK ==
    /\ m \in {UNLOCKED, LOCKED_NO_WAITERS, LOCKED_WITH_WAITERS}
    /\ pc \in [Threads -> PC]

\* my_mutex_init
Init ==
    /\ m = UNLOCKED
    /\ pc = [t \in Threads |-> "out"]

Goto(t, from, to) ==
    /\ pc[t] = from
    /\ pc' = [pc EXCEPT ![t] = to]

Asleep == {t \in Threads : pc[t] = "asleep"}

-----------------------------------------------------------------------------
(* my_mutex_lock                                                           *)

Call(t) ==
    /\ Goto(t, "out", "cas")
    /\ UNCHANGED m

\* __sync_val_compare_and_swap.  `c` is the truth value of a comparison, so
\* after a failure it is 1 whatever the word was: the exchange always follows.
CompareAndSwap(t) ==
    IF m = UNLOCKED
    THEN Goto(t, "cas", "in") /\ m' = LOCKED_NO_WAITERS
    ELSE Goto(t, "cas", "exchange") /\ UNCHANGED m

\* Mutant: LOCKED_NO_WAITERS is stored, as if nobody else could be asleep.
ExchangeNoWaiters(t) ==
    /\ Goto(t, "exchange", IF m = UNLOCKED THEN "in" ELSE "futexWait")
    /\ m' = IF m = UNLOCKED THEN LOCKED_NO_WAITERS ELSE LOCKED_WITH_WAITERS

\* atomic_exchange(m, LOCKED_WITH_WAITERS)
Exchange(t) ==
    /\ Goto(t, "exchange", IF m = UNLOCKED THEN "in" ELSE "futexWait")
    /\ m' = LOCKED_WITH_WAITERS

\* Mutant: EAGAIN is taken for the mutex.
FutexWaitEnters(t) ==
    /\ Goto(t, "futexWait", IF m = LOCKED_WITH_WAITERS THEN "asleep" ELSE "in")
    /\ UNCHANGED m

\* FUTEX_WAIT returns EAGAIN when the word is not what the caller saw.
FutexWait(t) ==
    /\ Goto(t, "futexWait",
            IF m = LOCKED_WITH_WAITERS THEN "asleep" ELSE "exchange")
    /\ UNCHANGED m

\* EINTR: my_mutex_lock returns the error.
Interrupted(t) ==
    /\ Signals
    /\ Goto(t, "asleep", "out")
    /\ UNCHANGED m

-----------------------------------------------------------------------------
(* my_mutex_unlock, called by the holder                                   *)

\* Mutants: the word is released before the holder knows whether it has to
\* wake somebody; nobody is ever woken; addition instead of subtraction.
FetchSubReleases(t) ==
    /\ Goto(t, "in", IF m = LOCKED_NO_WAITERS THEN "out" ELSE "unlockExchange")
    /\ m' = UNLOCKED

FetchSubNeverWakes(t) ==
    /\ Goto(t, "in", "out")
    /\ m' = UNLOCKED

FetchAdd(t) ==
    /\ Goto(t, "in", IF m = LOCKED_NO_WAITERS THEN "out" ELSE "unlockExchange")
    /\ m' = m + 1

\* atomic_fetch_sub(m, 1)
FetchSub(t) ==
    /\ Goto(t, "in", IF m = LOCKED_NO_WAITERS THEN "out" ELSE "unlockExchange")
    /\ m' = m - 1

UnlockExchange(t) ==
    /\ Goto(t, "unlockExchange", "futexWake")
    /\ m' = UNLOCKED

\* FUTEX_WAKE wakes one sleeper, whichever the kernel picks, if there is any.
FutexWake(t) ==
    /\ pc[t] = "futexWake"
    /\ \/ Asleep = {} /\ pc' = [pc EXCEPT ![t] = "out"]
       \/ \E u \in Asleep :
            pc' = [pc EXCEPT ![t] = "out", ![u] = "exchange"]
    /\ UNCHANGED m

-----------------------------------------------------------------------------
Locking(t)   == CompareAndSwap(t) \/ Exchange(t) \/ FutexWait(t)
Unlocking(t) == FetchSub(t) \/ UnlockExchange(t) \/ FutexWake(t)

Next == \E t \in Threads :
            Call(t) \/ Locking(t) \/ Interrupted(t) \/ Unlocking(t)

Spec == Init /\ [][Next]_vars

\* The kernel runs every thread that is not asleep, and a holder unlocks.
Fairness == \A t \in Threads : WF_vars(Locking(t) \/ Unlocking(t))
FairSpec == Spec /\ Fairness

-----------------------------------------------------------------------------
(* Properties.                                                             *)

\* The mutex is held from the return of my_mutex_lock until the word is
\* UNLOCKED again, which is the last but one access of a contended unlock.
Holders == {t \in Threads : pc[t] \in {"in", "unlockExchange"}}

\* At most one thread holds the mutex, and the word says whether one does.
MutualExclusion ==
    /\ \A t, u \in Holders : t = u
    /\ m = UNLOCKED <=> Holders = {}

\* A sleeper is never forgotten: while a thread sleeps in futex_wait, either
\* the word still tells the holder to wake somebody, or a wake-up is on its
\* way, or a thread that will put LOCKED_WITH_WAITERS back is running.
NoLostWakeup ==
    Asleep # {} =>
        \/ m = LOCKED_WITH_WAITERS
        \/ \E t \in Threads :
                pc[t] \in {"exchange", "unlockExchange", "futexWake"}

\* The mutex is a lock.  A thread that has left the mutex free but still has
\* to wake a sleeper is out.
AState(t) ==
    IF pc[t] \in {"out", "futexWake"} THEN "out"
    ELSE IF t \in Holders THEN "in" ELSE "entering"

lockState == [t \in Threads |-> AState(t)]

TheLock == INSTANCE Lock WITH state <- lockState
ImplementsLock == TheLock!Spec

\* While threads want the mutex some thread gets it, unless signals have made
\* all of them give up.
Wanted ==
    \E t \in Threads : pc[t] \in {"cas", "exchange", "futexWait", "asleep"}
SomebodyEnters == Wanted ~> (\E t \in Threads : pc[t] = "in") \/ ~Wanted
=============================================================================
