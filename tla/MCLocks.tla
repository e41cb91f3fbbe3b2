------------------------------- MODULE MCLocks -------------------------------
(***************************************************************************)
(* Instances of MyMutex and MySpinlock for TLC.  A run of the program uses *)
(* one of the two locks, which `used` names; the other one keeps its       *)
(* initial state.                                                          *)
(***************************************************************************)
EXTENDS MyMutex, MySpinlock

VARIABLE used

UsesMutex ==
    /\ used = "mutex"
    /\ Next
    /\ UNCHANGED <<used, spinVars>>

UsesSpinlock ==
    /\ used = "spinlock"
    /\ SpinNext
    /\ UNCHANGED <<used, vars>>

LocksInit == Init /\ SpinInit /\ used \in {"mutex", "spinlock"}

LocksNext == UsesMutex \/ UsesSpinlock

LocksSpec ==
    LocksInit /\ [][LocksNext]_<<used, vars, spinVars>> /\ Fairness /\ SpinFairness
=============================================================================
