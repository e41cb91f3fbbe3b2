------------------------------ MODULE CondQueue ------------------------------
(***************************************************************************)
(* The queue with a mutex and two condition variables (3-grade/2_2/f).     *)
(* What a thread does while it holds the mutex is one action: nobody else  *)
(* looks at the queue meanwhile.  The list from first to last is a         *)
(* sequence.                                                               *)
(***************************************************************************)
EXTENDS QueueThreads

CONSTANT Spurious   \* TRUE: pthread_cond_wait may return without a signal

ASSUME SpuriousAssumption == Spurious \in BOOLEAN

VARIABLES
    locked,     \* q->mutex
    items,      \* the list: q->first, ..., q->last
    count       \* q->count

queueVars == <<locked, items, count>>
vars == <<queueVars, threadVars>>

PC == {"loop", "got",
       "adding",  "addWait", "addWoken",    \* queue_add; at its condition
       "getting", "getWait", "getWoken"}    \* queue_get; at its condition

TypeOK ==
    /\ ThreadsTypeOK
    /\ pc \in [Threads -> PC]
    /\ locked \in BOOLEAN
    /\ items \in Seq(Value)
    /\ count \in 0..Capacity

\* queue_init
Init ==
    /\ ThreadsInit
    /\ locked = FALSE
    /\ items = <<>>
    /\ count = 0

Lock   == ~locked /\ locked' = TRUE
Unlock == locked' = FALSE

-----------------------------------------------------------------------------
(* pthread_cond_wait and pthread_cond_signal                               *)

\* Sleep and release the mutex at once.
CondWait(t, from, asleep) ==
    /\ Goto(t, from, asleep)
    /\ Unlock
    /\ UNCHANGED <<items, count, i, expected, val>>

\* Thread t moves on to `to` and one sleeper, if there is any, is woken.
SignalAndGo(t, to, asleep, woken) ==
    IF Inside({asleep}) = {}
    THEN pc' = [pc EXCEPT ![t] = to]
    ELSE \E u \in Inside({asleep}) : pc' = [pc EXCEPT ![t] = to, ![u] = woken]

WakeSpuriously(t) ==
    /\ Spurious
    /\ Goto(t, "addWait", "addWoken") \/ Goto(t, "getWait", "getWoken")
    /\ UNCHANGED <<queueVars, i, expected, val>>

-----------------------------------------------------------------------------
(* queue_add                                                               *)

\* Mutant: `if` in the place of `while`: a woken writer adds at once.
AddLockOnce(w) ==
    \/ /\ Goto(w, "loop", "adding")
       /\ MayAdd(w)
       /\ Lock
       /\ UNCHANGED <<items, count, i, expected, val>>
    \/ /\ pc[w] = "addWoken"
       /\ ~locked
       /\ items' = Append(items, i[w])
       /\ count' = count + 1
       /\ Added(w)
       /\ SignalAndGo(w, "loop", "getWait", "getWoken")
       /\ UNCHANGED <<locked, expected, val>>

AddLock(w) ==
    /\ Goto(w, "loop", "adding") \/ Goto(w, "addWoken", "adding")
    /\ MayAdd(w)
    /\ Lock
    /\ UNCHANGED <<items, count, i, expected, val>>

AddWaits(w) ==
    /\ count = Capacity
    /\ CondWait(w, "adding", "addWait")

\* The count, the writer's turn and the mutex once there is room.
Insert(w) ==
    /\ pc[w] = "adding"
    /\ count' = count + 1
    /\ Added(w)
    /\ Unlock
    /\ UNCHANGED <<expected, val>>

\* Mutant: the new node becomes the first.
AddInFront(w) ==
    /\ count # Capacity
    /\ Insert(w)
    /\ items' = <<i[w]>> \o items
    /\ SignalAndGo(w, "loop", "getWait", "getWoken")

\* Mutant: the other condition variable is signalled.
AddWrongSignal(w) ==
    /\ count # Capacity
    /\ Insert(w)
    /\ items' = Append(items, i[w])
    /\ SignalAndGo(w, "loop", "addWait", "addWoken")

Add(w) ==
    /\ count # Capacity
    /\ Insert(w)
    /\ items' = Append(items, i[w])
    /\ SignalAndGo(w, "loop", "getWait", "getWoken")

-----------------------------------------------------------------------------
(* queue_get                                                               *)

GetLock(r) ==
    /\ Goto(r, "loop", "getting") \/ Goto(r, "getWoken", "getting")
    /\ Lock
    /\ UNCHANGED <<items, count, i, expected, val>>

GetWaits(r) ==
    /\ count = 0
    /\ CondWait(r, "getting", "getWait")

\* Mutant: a writer is woken only when the queue was full.
GetSignalsWhenFull(r) ==
    /\ count # 0
    /\ pc[r] = "getting"
    /\ Fetched(r, Head(items))
    /\ items' = Tail(items)
    /\ count' = count - 1
    /\ IF count = Capacity THEN SignalAndGo(r, "got", "addWait", "addWoken")
                           ELSE pc' = [pc EXCEPT ![r] = "got"]
    /\ Unlock
    /\ UNCHANGED <<i, expected>>

Get(r) ==
    /\ count # 0
    /\ pc[r] = "getting"
    /\ Fetched(r, Head(items))
    /\ items' = Tail(items)
    /\ count' = count - 1
    /\ SignalAndGo(r, "got", "addWait", "addWoken")
    /\ Unlock
    /\ UNCHANGED <<i, expected>>

-----------------------------------------------------------------------------
Writing(w) == AddLock(w) \/ AddWaits(w) \/ Add(w)
Reading(r) == GetLock(r) \/ GetWaits(r) \/ Get(r) \/ (Check(r) /\ UNCHANGED queueVars)

\* Every writer has reached INT_MAX and the readers wait for ever.
Finished ==
    /\ \A w \in Writers : pc[w] = "loop" /\ ~MayAdd(w)
    /\ \A r \in Readers : pc[r] = "getWait"
    /\ items = <<>>
    /\ UNCHANGED vars

Next ==
    \/ \E w \in Writers : Writing(w)
    \/ \E r \in Readers : Reading(r)
    \/ \E t \in Threads : WakeSpuriously(t)
    \/ Finished

Spec == Init /\ [][Next]_vars

\* Every thread that can run does, and a thread that holds the mutex leaves it.
Fairness ==
    /\ \A w \in Writers : WF_vars(Writing(w))
    /\ \A r \in Readers : WF_vars(Reading(r))
FairSpec == Spec /\ Fairness

-----------------------------------------------------------------------------
(* Properties.                                                             *)

\* No signal is lost: while a reader sleeps there are no more values than
\* readers on their way to take one; while a writer sleeps there is no more
\* room than writers on their way to fill it.
NoLostSignal ==
    /\ Inside({"getWait"}) # {} =>
            Len(items) <= Cardinality(Inside({"getWoken", "getting"}))
    /\ Inside({"addWait"}) # {} =>
            Capacity - Len(items) <= Cardinality(Inside({"addWoken", "adding"}))

\* The queue is a bounded FIFO queue: nothing is lost, repeated or overtaken
\* by two writers, two readers, or a sleeper that finds the queue changed.
TheQueue == INSTANCE BoundedQueue
ImplementsBoundedQueue == TheQueue!Spec

\* Every value gets through, as long as the writers' counters last: nobody
\* sleeps through the signal meant for it, or takes one meant for the others.
\* Spurious wake-ups do no harm unless they never end: a thread that wakes up,
\* takes the mutex and sleeps again may then keep the others from it for ever.
SpuriousWakeup == \E t \in Threads : WakeSpuriously(t)
EverythingPasses ==
    \/ []<><<SpuriousWakeup>>_vars
    \/ <>(items = <<>> /\ \A w \in Writers : i[w] = INT_MAX)
=============================================================================
