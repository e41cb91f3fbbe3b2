----------------------------- MODULE ThreadProofs -----------------------------
(***************************************************************************)
(* Proofs about the two locks and the threads made with clone.  The        *)
(* modules have nothing in common but this one.                            *)
(*                                                                         *)
(* MyMutex, for any set of threads, with or without signals:               *)
(*   TypeCorrect, MutexIsExclusive, NoWakeupIsLost, MutexIsALock           *)
(* MySpinlock, for any set of threads:                                     *)
(*   SpinlockIsExclusive, SpinlockIsALock                                  *)
(* MyCoreThreads, for any threads and clients and any number of calls:     *)
(*   CancelNeverKills, JoinTellsTheTruth                                   *)
(***************************************************************************)
EXTENDS MyMutex, MySpinlock, MyCoreThreads, TLAPS

-----------------------------------------------------------------------------
(* The futex mutex                                                         *)

\* The word and the program counters agree.  MutualExclusion alone is not
\* inductive: UnlockExchange needs to know that the word is not UNLOCKED while
\* a contended unlock is half done, which its second conjunct says, and
\* FetchSub that the holder sees one of the two locked values.
Inv == TypeOK /\ MutualExclusion

\* The word starts unlocked and every thread outside (my_mutex_init).
THEOREM InitInv == Init => Inv /\ NoLostWakeup
  BY DEF Init, Inv, TypeOK, MutualExclusion, NoLostWakeup, Holders, Asleep,
         PC, UNLOCKED, LOCKED_NO_WAITERS, LOCKED_WITH_WAITERS

\* One step keeps the types and mutual exclusion.
LEMMA NextInv == Inv /\ [Next]_vars => Inv'
<1> SUFFICES ASSUME Inv, [Next]_vars PROVE Inv'
  OBVIOUS
<1> USE DEF Inv, TypeOK, MutualExclusion, Holders, PC, Goto,
            UNLOCKED, LOCKED_NO_WAITERS, LOCKED_WITH_WAITERS
<1>1. ASSUME NEW t \in Threads, Call(t) PROVE Inv'
  BY <1>1 DEF Call
<1>2. ASSUME NEW t \in Threads, CompareAndSwap(t) PROVE Inv'
  <2>1. CASE m = UNLOCKED
    BY <1>2, <2>1 DEF CompareAndSwap
  <2>2. CASE m # UNLOCKED
    BY <1>2, <2>2 DEF CompareAndSwap
  <2> QED BY <2>1, <2>2
<1>3. ASSUME NEW t \in Threads, Exchange(t) PROVE Inv'
  BY <1>3 DEF Exchange
<1>4. ASSUME NEW t \in Threads, FutexWait(t) PROVE Inv'
  BY <1>4 DEF FutexWait
<1>5. ASSUME NEW t \in Threads, Interrupted(t) PROVE Inv'
  BY <1>5 DEF Interrupted
<1>6. ASSUME NEW t \in Threads, FetchSub(t) PROVE Inv'
  BY <1>6 DEF FetchSub
<1>7. ASSUME NEW t \in Threads, UnlockExchange(t) PROVE Inv'
  BY <1>7 DEF UnlockExchange
<1>8. ASSUME NEW t \in Threads, FutexWake(t) PROVE Inv'
  BY <1>8 DEF FutexWake, Asleep
<1>9. CASE UNCHANGED vars
  BY <1>9 DEF vars
<1> QED
  BY <1>1, <1>2, <1>3, <1>4, <1>5, <1>6, <1>7, <1>8, <1>9
     DEF Next, Locking, Unlocking

\* The word is always one of the three values of the enum: the subtraction of
\* my_mutex_unlock never wraps it around.
THEOREM TypeCorrect == Spec => []TypeOK
<1>1. Init => Inv
  BY InitInv
<1>2. Inv => TypeOK
  BY DEF Inv
<1> QED
  BY <1>1, <1>2, NextInv, PTL DEF Spec

\* At most one thread holds the mutex, and the word tells whether one does.
THEOREM MutexIsExclusive == Spec => []MutualExclusion
<1>1. Init => Inv
  BY InitInv
<1>2. Inv => MutualExclusion
  BY DEF Inv
<1> QED
  BY <1>1, <1>2, NextInv, PTL DEF Spec

-----------------------------------------------------------------------------
\* One step never leaves a sleeper that nobody is going to wake.
LEMMA NextNoLostWakeup ==
    Inv /\ NoLostWakeup /\ [Next]_vars => NoLostWakeup'
<1> SUFFICES ASSUME Inv, NoLostWakeup, [Next]_vars PROVE NoLostWakeup'
  OBVIOUS
<1> USE DEF NoLostWakeup, Inv, TypeOK, PC, Goto, Asleep,
            UNLOCKED, LOCKED_NO_WAITERS, LOCKED_WITH_WAITERS
<1>1. ASSUME NEW t \in Threads, Call(t) PROVE NoLostWakeup'
  BY <1>1 DEF Call
<1>2. ASSUME NEW t \in Threads, CompareAndSwap(t) PROVE NoLostWakeup'
  <2>1. CASE m = UNLOCKED
    BY <1>2, <2>1 DEF CompareAndSwap
  <2>2. CASE m # UNLOCKED
    BY <1>2, <2>2 DEF CompareAndSwap
  <2> QED BY <2>1, <2>2
\* The word is LOCKED_WITH_WAITERS now.
<1>3. ASSUME NEW t \in Threads, Exchange(t) PROVE NoLostWakeup'
  BY <1>3 DEF Exchange
\* A thread goes to sleep only on LOCKED_WITH_WAITERS.
<1>4. ASSUME NEW t \in Threads, FutexWait(t) PROVE NoLostWakeup'
  BY <1>4 DEF FutexWait
<1>5. ASSUME NEW t \in Threads, Interrupted(t) PROVE NoLostWakeup'
  BY <1>5 DEF Interrupted
\* From LOCKED_WITH_WAITERS the unlocking thread goes on to wake somebody;
\* otherwise the witness of NoLostWakeup is another thread than t.
<1>6. ASSUME NEW t \in Threads, FetchSub(t) PROVE NoLostWakeup'
  BY <1>6 DEF FetchSub
<1>7. ASSUME NEW t \in Threads, UnlockExchange(t) PROVE NoLostWakeup'
  BY <1>7 DEF UnlockExchange
\* The sleeper that is woken goes back to the exchange.
<1>8. ASSUME NEW t \in Threads, FutexWake(t) PROVE NoLostWakeup'
  BY <1>8 DEF FutexWake
<1>9. CASE UNCHANGED vars
  BY <1>9 DEF vars
<1> QED
  BY <1>1, <1>2, <1>3, <1>4, <1>5, <1>6, <1>7, <1>8, <1>9
     DEF Next, Locking, Unlocking

\* While a thread sleeps, the word still tells the holder to wake somebody or
\* a thread that will see to it is running.
THEOREM NoWakeupIsLost == Spec => []NoLostWakeup
<1>1. Init => Inv /\ NoLostWakeup
  BY InitInv
<1> QED
  BY <1>1, NextInv, NextNoLostWakeup, PTL DEF Spec

-----------------------------------------------------------------------------
\* Every step of the mutex is a step of the abstract lock, or none: the lock
\* is entered by the access that finds the word UNLOCKED and left by the one
\* that makes it UNLOCKED; everything else is invisible.
LEMMA NextRefines == Inv /\ [Next]_vars => [TheLock!Next]_lockState
<1> SUFFICES ASSUME Inv, [Next]_vars PROVE [TheLock!Next]_lockState
  OBVIOUS
<1> USE DEF Inv, TypeOK, PC, Goto, lockState, AState, Holders,
            UNLOCKED, LOCKED_NO_WAITERS, LOCKED_WITH_WAITERS
<1>0. Inv'
  BY NextInv
<1>a. (\A t, u \in Holders : t = u) /\ (m = UNLOCKED <=> Holders = {})
  BY DEF MutualExclusion
<1>1. ASSUME NEW t \in Threads, Call(t) PROVE TheLock!Call(t)
  BY <1>1 DEF Call, TheLock!Call, TheLock!Move
\* Nobody holds the mutex when the word is UNLOCKED.
<1>2. ASSUME NEW t \in Threads, m = UNLOCKED,
             pc[t] \in {"cas", "exchange"}, pc' = [pc EXCEPT ![t] = "in"]
      PROVE  TheLock!Enter(t)
  BY <1>2, <1>a DEF TheLock!Enter, TheLock!Move
<1>3. ASSUME NEW t \in Threads, CompareAndSwap(t) \/ Exchange(t)
      PROVE  TheLock!Enter(t) \/ UNCHANGED lockState
  <2>1. CASE m = UNLOCKED
    BY <1>2, <1>3, <2>1 DEF CompareAndSwap, Exchange
  <2>2. CASE m # UNLOCKED
    BY <1>3, <2>2 DEF CompareAndSwap, Exchange
  <2> QED BY <2>1, <2>2
<1>4. ASSUME NEW t \in Threads, FutexWait(t) PROVE UNCHANGED lockState
  BY <1>4 DEF FutexWait
<1>5. ASSUME NEW t \in Threads, Interrupted(t) PROVE TheLock!GiveUp(t)
  BY <1>5 DEF Interrupted, TheLock!GiveUp, TheLock!Move
<1>6. ASSUME NEW t \in Threads, FetchSub(t)
      PROVE  TheLock!Leave(t) \/ UNCHANGED lockState
  BY <1>6 DEF FetchSub, TheLock!Leave, TheLock!Move
<1>7. ASSUME NEW t \in Threads, UnlockExchange(t) PROVE TheLock!Leave(t)
  BY <1>7 DEF UnlockExchange, TheLock!Leave, TheLock!Move
<1>8. ASSUME NEW t \in Threads, FutexWake(t) PROVE UNCHANGED lockState
  BY <1>8 DEF FutexWake, Asleep
<1>9. CASE UNCHANGED vars
  BY <1>9 DEF vars
<1> QED
  BY <1>1, <1>3, <1>4, <1>5, <1>6, <1>7, <1>8, <1>9
     DEF Next, Locking, Unlocking, TheLock!Next

\* The futex mutex implements the abstract lock.
THEOREM MutexIsALock == Spec => ImplementsLock
<1>1. Init => Inv
  BY InitInv
<1>2. Init => TheLock!Init
  BY DEF Init, lockState, AState, Holders, TheLock!Init
<1> QED
  BY <1>1, <1>2, NextInv, NextRefines, PTL
     DEF Spec, ImplementsLock, TheLock!Spec

-----------------------------------------------------------------------------
(* The spinlock                                                            *)

\* SpinMutualExclusion needs its second conjunct to be inductive: the exchange of
\* my_spin_lock succeeds only on a word that says nobody is inside.
SpinInv == SpinTypeOK /\ SpinMutualExclusion

\* The word starts free and every thread outside (my_spinlock_init).
THEOREM SpinInitInv == SpinInit => SpinInv
  BY DEF SpinInit, SpinInv, SpinTypeOK, SpinMutualExclusion

\* Lock and unlock keep the word and the threads in agreement.
LEMMA SpinNextInv == SpinInv /\ [SpinNext]_spinVars => SpinInv'
<1> SUFFICES ASSUME SpinInv, [SpinNext]_spinVars PROVE SpinInv'
  OBVIOUS
<1> USE DEF SpinInv, SpinTypeOK, SpinMutualExclusion, SpinGoto, CompareExchange
<1>1. ASSUME NEW t \in SpinThreads, SpinCall(t) PROVE SpinInv'
  BY <1>1 DEF SpinCall
<1>2. ASSUME NEW t \in SpinThreads, SpinLock(t) PROVE SpinInv'
  BY <1>2 DEF SpinLock
<1>3. ASSUME NEW t \in SpinThreads, SpinUnlock(t) PROVE SpinInv'
  BY <1>3 DEF SpinUnlock
<1>4. CASE UNCHANGED spinVars
  BY <1>4 DEF spinVars
<1> QED
  BY <1>1, <1>2, <1>3, <1>4 DEF SpinNext

\* At most one thread is inside, and the word says whether one is; so the
\* exchange of my_spin_unlock, whose result is ignored, always succeeds.
THEOREM SpinlockIsExclusive == SpinSpec => []SpinMutualExclusion
<1>1. SpinInv => SpinMutualExclusion
  BY DEF SpinInv
<1> QED
  BY <1>1, SpinInitInv, SpinNextInv, PTL DEF SpinSpec

\* Every step of the spinlock is a step of the abstract lock, or none.
LEMMA SpinNextRefines == SpinInv /\ [SpinNext]_spinVars => [TheSpinlock!Next]_spinLockState
<1> SUFFICES ASSUME SpinInv, [SpinNext]_spinVars PROVE [TheSpinlock!Next]_spinLockState
  OBVIOUS
<1> USE DEF SpinInv, SpinTypeOK, SpinGoto, spinLockState, TheSpinlock!Move
<1>1. ASSUME NEW t \in SpinThreads, SpinCall(t) PROVE TheSpinlock!Call(t)
  BY <1>1 DEF SpinCall, TheSpinlock!Call
<1>2. ASSUME NEW t \in SpinThreads, SpinLock(t) PROVE TheSpinlock!Enter(t)
  <2>1. \A u \in SpinThreads : spinPc[u] # "in"
    BY <1>2 DEF SpinLock, SpinMutualExclusion
  <2>2. \A u \in SpinThreads : spinLockState[u] # "in"
    BY <2>1
  <2>3. TheSpinlock!Move(t, "entering", "in")
    BY <1>2 DEF SpinLock
  <2> QED BY <2>2, <2>3 DEF TheSpinlock!Enter
<1>3. ASSUME NEW t \in SpinThreads, SpinUnlock(t) PROVE TheSpinlock!Leave(t)
  BY <1>3 DEF SpinUnlock, TheSpinlock!Leave
<1>4. CASE UNCHANGED spinVars
  BY <1>4 DEF spinVars
<1> QED
  BY <1>1, <1>2, <1>3, <1>4 DEF SpinNext, TheSpinlock!Next

\* The spinlock implements the same abstract lock as the futex mutex.
THEOREM SpinlockIsALock == SpinSpec => SpinImplementsLock
<1>1. SpinInit => TheSpinlock!Init
  BY DEF SpinInit, spinLockState, TheSpinlock!Init
<1> QED
  BY <1>1, SpinInitInv, SpinNextInv, SpinNextRefines, PTL
     DEF SpinSpec, SpinImplementsLock, TheSpinlock!Spec

-----------------------------------------------------------------------------
(* The threads made with clone                                             *)

\* Where a thread has a handler, and where its result is stored.
AfterHandler == {"installed", "routine", "returned", "finish", "wake"}
AfterRoutine == {"returned", "finish", "wake"}

CoreTypeInv ==
    /\ phase \in [CoreThreads -> {"none", "cloned", "exited"} \cup AfterHandler]
    /\ handler \in BOOLEAN
    /\ tid \in [CoreThreads -> BOOLEAN]
    /\ futex \in [CoreThreads -> BOOLEAN]
    /\ result \in [CoreThreads -> CoreThreads \cup {NULL}]
    /\ cpc \in [Clients -> {"idle", "join", "waiting", "again", "result", "signal"}]
    /\ target \in [Clients -> CoreThreads \cup {NULL}]
    /\ joined \in [Clients -> [CoreThreads -> CoreThreads \cup {NULL, "no", "-1"}]]

\* Whoever can be signalled has been through sigaction, and the handler is never
\* taken back.
HandlerInv ==
    /\ ~killed
    /\ \A t \in CoreThreads : (tid[t] \/ phase[t] \in AfterHandler) => handler

\* A finished futex and a joiner that goes to fetch the result both come after
\* the store of the result; a client in a call has a thread that exists.
ResultInv ==
    /\ \A t \in CoreThreads : (phase[t] \in AfterRoutine \/ futex[t]) => result[t] = t
    /\ \A c \in Clients :
          /\ cpc[c] # "idle" => target[c] \in CoreThreads /\ phase[target[c]] # "none"
          /\ cpc[c] \in {"again", "result"} => result[target[c]] = target[c]
    /\ JoinReturnsResult

CoreInv == CoreTypeInv /\ HandlerInv /\ ResultInv

-----------------------------------------------------------------------------
\* No thread has been created yet.
LEMMA InitCoreInv == CoreInit => CoreInv
<1> SUFFICES ASSUME CoreInit PROVE CoreInv
  OBVIOUS
<1>1. CoreTypeInv
  BY DEF CoreInit, CoreTypeInv
<1>2. HandlerInv
  BY DEF CoreInit, HandlerInv, AfterHandler
<1>3. ResultInv
  BY DEF CoreInit, ResultInv, JoinReturnsResult, AfterRoutine
<1> QED
  BY <1>1, <1>2, <1>3 DEF CoreInv

\* wrapper goes through sigaction, the store of tid and that of the result in
\* this order; no call of a client brings a thread back to an earlier phase.
LEMMA NextCoreInv == CoreInv /\ [CoreNext]_coreVars => CoreInv'
<1> SUFFICES ASSUME CoreInv, [CoreNext]_coreVars PROVE CoreInv'
  OBVIOUS
<1> USE DEF CoreInv, CoreTypeInv, HandlerInv, ResultInv, JoinReturnsResult,
            AfterHandler, AfterRoutine, data, Moves, Continues, Calls
<1>1. ASSUME NEW t \in CoreThreads, InstallHandler(t) PROVE CoreInv'
  <2>1. /\ phase[t] = "cloned" /\ ~killed /\ ~killed'
        /\ \/ handler' /\ phase' = [phase EXCEPT ![t] = "installed"]
           \/ handler' = handler /\ phase' = [phase EXCEPT ![t] = "exited"]
        /\ UNCHANGED <<tid, futex, result, cpc, target, joined>>
    BY <1>1 DEF InstallHandler
  <2>2. handler' \in BOOLEAN
    BY <1>1 DEF InstallHandler
  <2>3. CoreTypeInv'
    BY <2>1, <2>2
  <2>4. HandlerInv'
    BY <2>1
  <2>5. ResultInv'
    BY <2>1
  <2> QED
    BY <2>3, <2>4, <2>5
<1>2. ASSUME NEW t \in CoreThreads, StoreTid(t) PROVE CoreInv'
  BY <1>2 DEF StoreTid
<1>3. ASSUME NEW t \in CoreThreads, RoutineSetsErrno(t) PROVE CoreInv'
  BY <1>3 DEF RoutineSetsErrno
<1>4. ASSUME NEW t \in CoreThreads, RoutineReturns(t) PROVE CoreInv'
  BY <1>4 DEF RoutineReturns
<1>5. ASSUME NEW t \in CoreThreads, CheckJoinable(t) PROVE CoreInv'
  BY <1>5 DEF CheckJoinable
<1>6. ASSUME NEW t \in CoreThreads, Finish(t) PROVE CoreInv'
  BY <1>6 DEF Finish
<1>7. ASSUME NEW t \in CoreThreads, Wake(t) PROVE CoreInv'
  BY <1>7 DEF Wake, Waiters
<1>8. ASSUME NEW t \in CoreThreads, Create(t) PROVE CoreInv'
  BY <1>8 DEF Create
<1>9. ASSUME NEW c \in Clients, NEW t \in CoreThreads, Join(c, t) PROVE CoreInv'
  <2>1. CASE cpc'[c] = "idle"
    <3>1. /\ cpc' = cpc /\ cpc[c] = "idle"
          /\ joined' = [joined EXCEPT ![c][t] = "-1"]
          /\ target' = [target EXCEPT ![c] = t]
          /\ UNCHANGED <<phase, handler, tid, futex, result, killed>>
      BY <1>9, <2>1 DEF Join
    <3>2. CoreTypeInv'
      BY <3>1
    <3>3. HandlerInv'
      BY <3>1
    <3>4. ResultInv'
      BY <3>1
    <3> QED
      BY <3>2, <3>3, <3>4
  <2>2. CASE cpc'[c] # "idle"
    BY <1>9, <2>2 DEF Join
  <2> QED
    BY <2>1, <2>2
<1>10. ASSUME NEW c \in Clients, CoreFutexWait(c) PROVE CoreInv'
  BY <1>10 DEF CoreFutexWait
<1>11. ASSUME NEW c \in Clients, JoinChecksErrno(c) PROVE CoreInv'
  <2>1. CASE errno = "EAGAIN"
    BY <1>11, <2>1 DEF JoinChecksErrno
  <2>2. CASE errno # "EAGAIN"
    <3>1. /\ cpc' = [cpc EXCEPT ![c] = "idle"]
          /\ joined' = [joined EXCEPT ![c][target[c]] = "-1"]
          /\ UNCHANGED <<phase, handler, tid, futex, result, killed, target>>
      BY <1>11, <2>2 DEF JoinChecksErrno, JoinReturns
    <3>2. CoreTypeInv'
      BY <3>1
    <3>3. HandlerInv'
      BY <3>1
    <3>4. ResultInv'
      BY <3>1
    <3> QED
      BY <3>2, <3>3, <3>4
  <2> QED
    BY <2>1, <2>2
<1>12. ASSUME NEW c \in Clients, JoinEnds(c) PROVE CoreInv'
  BY <1>12 DEF JoinEnds, JoinReturns
<1>13. ASSUME NEW c \in Clients, NEW t \in CoreThreads, Detach(c, t) PROVE CoreInv'
  BY <1>13 DEF Detach
<1>14. ASSUME NEW c \in Clients, NEW t \in CoreThreads, Cancel(c, t) PROVE CoreInv'
  BY <1>14 DEF Cancel
\* The signal is delivered only where there is a tid, and so a handler.
<1>15. ASSUME NEW c \in Clients, Signal(c) PROVE CoreInv'
  <2>1. /\ cpc[c] = "signal" /\ cpc' = [cpc EXCEPT ![c] = "idle"]
        /\ UNCHANGED <<phase, handler, tid, futex, result, target, joined>>
    BY <1>15 DEF Signal
  <2>2. target[c] \in CoreThreads
    BY <2>1
  <2>3. ~killed'
    BY <1>15, <2>2, Zenon DEF Signal
  <2>4. CoreTypeInv' /\ HandlerInv'
    BY <2>1, <2>3
  <2>5. ResultInv'
    BY <2>1
  <2> QED
    BY <2>4, <2>5
<1>16. CASE UNCHANGED coreVars
  BY <1>16 DEF coreVars
<1> QED
  BY <1>1, <1>2, <1>3, <1>4, <1>5, <1>6, <1>7, <1>8, <1>9, <1>10, <1>11,
     <1>12, <1>13, <1>14, <1>15, <1>16 DEF CoreNext, Wrapper, InCall

\* SIGCANCEL never meets its default action, which would end the process
\* (mycorethread_cancel, wrapper).
THEOREM CancelNeverKills == CoreSpec => []CancelSparesTheProcess
<1>1. CoreInv => CancelSparesTheProcess
  BY DEF CoreInv, HandlerInv, CancelSparesTheProcess
<1> QED
  BY <1>1, InitCoreInv, NextCoreInv, PTL DEF CoreSpec

\* join returns 0 only with the result of the thread it was called for
\* (mycorethread_join).
THEOREM JoinTellsTheTruth == CoreSpec => []JoinReturnsResult
<1>1. CoreInv => JoinReturnsResult
  BY DEF CoreInv, ResultInv
<1> QED
  BY <1>1, InitCoreInv, NextCoreInv, PTL DEF CoreSpec
=============================================================================
