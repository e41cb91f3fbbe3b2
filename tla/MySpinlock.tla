----------------------------- MODULE MySpinlock -----------------------------
(***************************************************************************)
(* The spinlock of second/5-grade/my-spinlock: threads that lock and       *)
(* unlock one my_spinlock_t for ever.  The names differ from MyMutex's, so *)
(* that one module can extend both.                                        *)
(***************************************************************************)
CONSTANT SpinThreads

VARIABLES
    lock,       \* spin->lock: 1 free, 0 taken
    spinPc      \* per thread: "out", "spin" (in my_spin_lock), "in"

spinVars == <<lock, spinPc>>

SpinTypeOK ==
    /\ lock \in {0, 1}
    /\ spinPc \in [SpinThreads -> {"out", "spin", "in"}]

\* my_spinlock_init
SpinInit ==
    /\ lock = 1
    /\ spinPc = [t \in SpinThreads |-> "out"]

SpinGoto(t, from, to) ==
    /\ spinPc[t] = from
    /\ spinPc' = [spinPc EXCEPT ![t] = to]

\* atomic_compare_exchange_strong(&(spin->lock), &old, new): stores, or fails
\* and leaves the word alone.
CompareExchange(old, new) == lock' = IF lock = old THEN new ELSE lock

SpinCall(t) ==
    /\ SpinGoto(t, "out", "spin")
    /\ UNCHANGED lock

\* Mutant: the result of the exchange is not looked at.
LockUnchecked(t) ==
    /\ SpinGoto(t, "spin", "in")
    /\ CompareExchange(1, 0)

\* The exchange that finds the lock free ends the loop; one that fails, and
\* the pause, change nothing.
SpinLock(t) ==
    /\ lock = 1
    /\ SpinGoto(t, "spin", "in")
    /\ CompareExchange(1, 0)

\* Mutant: the two values of the exchange are those of my_spin_lock.
SpinUnlockWrongWay(t) ==
    /\ SpinGoto(t, "in", "out")
    /\ CompareExchange(1, 0)

\* Called by the holder; nobody looks whether the exchange succeeds.
SpinUnlock(t) ==
    /\ SpinGoto(t, "in", "out")
    /\ CompareExchange(0, 1)

SpinNext == \E t \in SpinThreads : SpinCall(t) \/ SpinLock(t) \/ SpinUnlock(t)

SpinSpec == SpinInit /\ [][SpinNext]_spinVars

\* Threads are scheduled, and a holder unlocks.  A thread that spins may lose
\* every race, so no thread is promised the lock.
SpinFairness ==
    \A t \in SpinThreads : WF_spinVars(SpinLock(t) \/ SpinUnlock(t))
SpinFairSpec == SpinSpec /\ SpinFairness

-----------------------------------------------------------------------------
(* Properties.                                                             *)

\* One thread at a time is inside, and the exchange of my_spin_unlock, whose
\* result is ignored, always succeeds: a taken lock has a holder.
SpinMutualExclusion ==
    /\ \A t, u \in SpinThreads : spinPc[t] = "in" /\ spinPc[u] = "in" => t = u
    /\ lock = 0 <=> \E t \in SpinThreads : spinPc[t] = "in"

\* The spinlock is a lock.
spinLockState ==
    [t \in SpinThreads |->
        IF spinPc[t] = "spin" THEN "entering" ELSE spinPc[t]]

TheSpinlock == INSTANCE Lock WITH state <- spinLockState, Threads <- SpinThreads
SpinImplementsLock == TheSpinlock!Spec

\* While threads spin, some thread gets in.
SpinSomebodyEnters ==
    (\E t \in SpinThreads : spinPc[t] = "spin")
        ~> (\E t \in SpinThreads : spinPc[t] = "in")
=============================================================================
