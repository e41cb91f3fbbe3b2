--------------------------- MODULE CondQueueProofs ---------------------------
(***************************************************************************)
(* The queue with condition variables, for any finite sets of writers and  *)
(* readers, any capacity, with or without spurious wake-ups: no signal is  *)
(* lost, and the queue is a bounded FIFO queue.                            *)
(***************************************************************************)
EXTENDS CondQueue, FiniteSetTheorems, SequenceTheorems, TLAPS

WriterPC == {"loop", "adding", "addWait", "addWoken"}
ReaderPC == {"loop", "getting", "getWait", "getWoken", "got"}

\* Threads on their way to the list.
Takers  == {"getWoken", "getting"}
Fillers == {"addWoken", "adding"}
takers  == Cardinality(Inside(Takers))
fillers == Cardinality(Inside(Fillers))

\* The inductive invariant.
Inv ==
    /\ TypeOK
    /\ count = Len(items)
    /\ NoLostSignal
    /\ \A w \in Writers : pc[w] \in WriterPC /\ (pc[w] # "loop" => MayAdd(w))
    /\ \A r \in Readers : pc[r] \in ReaderPC /\ (pc[r] = "got" <=> val[r] # -1)

\* What the proofs below need of the types.
LEMMA Types ==
    ASSUME Inv
    PROVE  /\ items \in Seq(Value) /\ Len(items) \in 0..Capacity /\ count = Len(items)
           /\ Capacity \in Nat \ {0}
           /\ pc \in [Threads -> PC]
           /\ i \in [Writers -> Value]
           /\ val \in [Readers -> Value \cup {-1}]
           /\ expected \in [Readers -> 0..(INT_MAX + 1)]
           /\ Threads = Writers \cup Readers
           /\ Writers \cap Readers = {}
BY QueueAssumption DEF Inv, TypeOK, ThreadsTypeOK, Threads

\* Threads can be counted.
LEMMA Countable ==
    ASSUME NEW L
    PROVE  IsFiniteSet(Inside(L)) /\ Cardinality(Inside(L)) \in Nat
<1>1. IsFiniteSet(Threads)
  BY FS_Union, QueueAssumption DEF Threads
<1>2. IsFiniteSet(Inside(L))
  BY <1>1, FS_Subset, Inside(L) \subseteq Threads DEF Inside
<1> QED BY <1>2, FS_CardinalityType

\* A set and the same set with one element more or less.
LEMMA SetCounts ==
    ASSUME NEW S, IsFiniteSet(S), NEW T, NEW t
    PROVE  /\ Cardinality(S) \in Nat
           /\ t \notin S /\ T = S \cup {t} => Cardinality(T) = Cardinality(S) + 1
           /\ t \in S /\ T = S \ {t} =>
                Cardinality(T) = Cardinality(S) - 1 /\ Cardinality(S) > 0
<1>1. Cardinality(S) \in Nat
  BY FS_CardinalityType
<1>2. t \in S => Cardinality(S) # 0
  BY FS_EmptySet
<1> QED BY <1>1, <1>2, FS_AddElement, FS_RemoveElement

\* How the two counts change when a thread comes or goes.
LEMMA Counts ==
    ASSUME NEW t
    PROVE  /\ takers \in Nat /\ fillers \in Nat
           /\ Inside(Takers)' = Inside(Takers) => takers' = takers
           /\ Inside(Fillers)' = Inside(Fillers) => fillers' = fillers
           /\ t \notin Inside(Takers) /\ Inside(Takers)' = Inside(Takers) \cup {t} =>
                takers' = takers + 1
           /\ t \notin Inside(Fillers) /\ Inside(Fillers)' = Inside(Fillers) \cup {t} =>
                fillers' = fillers + 1
           /\ t \in Inside(Takers) /\ Inside(Takers)' = Inside(Takers) \ {t} =>
                takers' = takers - 1 /\ takers > 0
           /\ t \in Inside(Fillers) /\ Inside(Fillers)' = Inside(Fillers) \ {t} =>
                fillers' = fillers - 1 /\ fillers > 0
<1>1. /\ takers' = Cardinality(Inside(Takers)')
      /\ fillers' = Cardinality(Inside(Fillers)')
  BY DEF takers, fillers, Takers, Fillers, Inside
<1>2. /\ IsFiniteSet(Inside(Takers)) /\ Cardinality(Inside(Takers)) \in Nat
      /\ IsFiniteSet(Inside(Fillers)) /\ Cardinality(Inside(Fillers)) \in Nat
  BY Countable
<1> QED BY <1>1, <1>2, SetCounts DEF takers, fillers

asleepToGet == Inside({"getWait"})
asleepToAdd == Inside({"addWait"})

\* NoLostSignal in terms of the counts.
LEMMA Signals ==
    ASSUME Inv
    PROVE  /\ asleepToGet # {} => Len(items) <= takers
           /\ asleepToAdd # {} => Capacity - Len(items) <= fillers
BY DEF Inv, NoLostSignal, takers, fillers, Takers, Fillers, asleepToGet, asleepToAdd

LEMMA SignalsAfter ==
    ASSUME asleepToGet' # {} => Len(items') <= takers',
           asleepToAdd' # {} => Capacity - Len(items') <= fillers'
    PROVE  NoLostSignal'
BY DEF NoLostSignal, takers, fillers, Takers, Fillers, asleepToGet, asleepToAdd

\* A writer takes the mutex, for the first time or after a signal: it is on its
\* way from now on or still is.
LEMMA AddLockKeepsInv ==
    ASSUME Inv, NEW w \in Writers, AddLock(w)
    PROVE  Inv'
<1> USE DEF AddLock, Goto, Lock
<1>1. /\ pc[w] \in {"loop", "addWoken"} /\ pc' = [pc EXCEPT ![w] = "adding"]
      /\ UNCHANGED <<items, count, i, expected, val>>
  OBVIOUS
<1>2. /\ asleepToGet' = asleepToGet /\ asleepToAdd' = asleepToAdd
      /\ Inside(Takers)' = Inside(Takers)
  BY <1>1, Types DEF asleepToGet, asleepToAdd, Inside, Takers, PC
<1>3. \/ Inside(Fillers)' = Inside(Fillers)
      \/ w \notin Inside(Fillers) /\ Inside(Fillers)' = Inside(Fillers) \cup {w}
  BY <1>1, Types DEF Inside, Fillers, PC
<1>4. takers' = takers /\ fillers' >= fillers /\ fillers \in Nat /\ fillers' \in Nat
  BY <1>2, <1>3, Counts
<1>5. NoLostSignal'
  BY <1>1, <1>2, <1>4, Types, Signals, SignalsAfter
<1>6. TypeOK'
  BY <1>1, Types DEF Inv, TypeOK, ThreadsTypeOK, PC
<1> QED BY <1>1, <1>5, <1>6, Types DEF Inv, WriterPC, ReaderPC, MayAdd

\* A writer goes to sleep when there is no room at all.
LEMMA AddWaitsKeepsInv ==
    ASSUME Inv, NEW w \in Writers, AddWaits(w)
    PROVE  Inv'
<1> USE DEF AddWaits, CondWait, Goto, Unlock
<1>1. /\ pc[w] = "adding" /\ pc' = [pc EXCEPT ![w] = "addWait"]
      /\ UNCHANGED <<items, count, i, expected, val>>
      /\ count = Capacity
  OBVIOUS
<1>2. asleepToGet' = asleepToGet /\ Inside(Takers)' = Inside(Takers)
  BY <1>1, Types DEF asleepToGet, Inside, Takers, PC
<1>3. w \in Inside(Fillers) /\ Inside(Fillers)' = Inside(Fillers) \ {w}
  BY <1>1, Types DEF Inside, Fillers, PC
<1>4. fillers' = fillers - 1 /\ fillers > 0 /\ fillers \in Nat /\ takers' = takers
  BY <1>2, <1>3, Counts
<1>5. NoLostSignal'
  BY <1>1, <1>2, <1>4, Types, Signals, SignalsAfter
<1>6. TypeOK'
  BY <1>1, Types DEF Inv, TypeOK, ThreadsTypeOK, PC
<1> QED BY <1>1, <1>5, <1>6, Types DEF Inv, WriterPC, ReaderPC, MayAdd

\* A writer adds a value: the value and the reader woken for it come together,
\* and the room and the writer that had come for it go together.
LEMMA AddKeepsInv ==
    ASSUME Inv, NEW w \in Writers, Add(w)
    PROVE  Inv'
<1> USE DEF Add, Insert
<1>1. /\ pc[w] = "adding" /\ count # Capacity
      /\ items' = Append(items, i[w]) /\ count' = count + 1
      /\ i' = [i EXCEPT ![w] = i[w] + 1]
      /\ UNCHANGED <<expected, val>> /\ locked' = FALSE
  BY DEF Added, Unlock
<1>2. i[w] \in Value /\ i[w] < INT_MAX /\ i[w] + 1 \in Value
  BY <1>1, Types, QueueAssumption DEF Inv, MayAdd, Value
<1>3. items' \in Seq(Value) /\ Len(items') = Len(items) + 1 /\ Len(items') \in 0..Capacity
  BY <1>1, <1>2, Types
<1>4. w \in Inside(Fillers) /\ w \in Threads /\ w \notin Readers
  BY <1>1, Types DEF Inside, Fillers
<1>5. \/ asleepToGet = {} /\ pc' = [pc EXCEPT ![w] = "loop"]
      \/ \E u \in asleepToGet : pc' = [pc EXCEPT ![w] = "loop", ![u] = "getWoken"]
  BY DEF SignalAndGo, asleepToGet
<1>6. CASE asleepToGet = {} /\ pc' = [pc EXCEPT ![w] = "loop"]
  <2>1. asleepToGet' = {} /\ asleepToAdd' = asleepToAdd
    BY <1>1, <1>6, Types DEF asleepToGet, asleepToAdd, Inside, PC
  <2>2. Inside(Fillers)' = Inside(Fillers) \ {w}
    BY <1>6, Types DEF Inside, Fillers, PC
  <2>3. fillers' = fillers - 1 /\ fillers \in Nat
    BY <1>4, <2>2, Counts
  <2>4. NoLostSignal'
    BY <1>3, <2>1, <2>3, Types, Signals, SignalsAfter
  <2>5. TypeOK'
    BY <1>1, <1>2, <1>3, <1>6, Types DEF Inv, TypeOK, ThreadsTypeOK, PC
  <2> QED BY <1>1, <1>3, <1>4, <1>6, <2>4, <2>5, Types DEF Inv, WriterPC, ReaderPC, MayAdd
<1>7. ASSUME NEW u \in asleepToGet, pc' = [pc EXCEPT ![w] = "loop", ![u] = "getWoken"]
      PROVE  Inv'
  <2>1. u \in Readers /\ pc[u] = "getWait" /\ u # w
    BY <1>1, Types DEF asleepToGet, Inside, Inv, WriterPC
  <2>2. asleepToGet' = asleepToGet \ {u} /\ asleepToAdd' = asleepToAdd
    BY <1>1, <1>7, <2>1, Types DEF asleepToGet, asleepToAdd, Inside, PC
  <2>3. /\ Inside(Fillers)' = Inside(Fillers) \ {w}
        /\ u \notin Inside(Takers) /\ Inside(Takers)' = Inside(Takers) \cup {u}
    BY <1>1, <1>7, <2>1, Types DEF Inside, Fillers, Takers, PC
  <2>4. /\ fillers' = fillers - 1 /\ fillers \in Nat
        /\ takers' = takers + 1 /\ takers \in Nat
    BY <1>4, <2>3, Counts
  <2>5. NoLostSignal'
    BY <1>3, <2>2, <2>4, Types, Signals, SignalsAfter
  <2>6. TypeOK'
    BY <1>1, <1>2, <1>3, <1>7, <2>1, Types DEF Inv, TypeOK, ThreadsTypeOK, PC
  <2> QED BY <1>1, <1>3, <1>4, <1>7, <2>1, <2>5, <2>6, Types
          DEF Inv, WriterPC, ReaderPC, MayAdd
<1> QED BY <1>5, <1>6, <1>7

\* A reader takes the mutex, for the first time or after a signal.
LEMMA GetLockKeepsInv ==
    ASSUME Inv, NEW r \in Readers, GetLock(r)
    PROVE  Inv'
<1> USE DEF GetLock, Goto, Lock
<1>1. /\ pc[r] \in {"loop", "getWoken"} /\ pc' = [pc EXCEPT ![r] = "getting"]
      /\ UNCHANGED <<items, count, i, expected, val>>
  OBVIOUS
<1>2. /\ asleepToGet' = asleepToGet /\ asleepToAdd' = asleepToAdd
      /\ Inside(Fillers)' = Inside(Fillers)
  BY <1>1, Types DEF asleepToGet, asleepToAdd, Inside, Fillers, PC
<1>3. \/ Inside(Takers)' = Inside(Takers)
      \/ r \notin Inside(Takers) /\ Inside(Takers)' = Inside(Takers) \cup {r}
  BY <1>1, Types DEF Inside, Takers, PC
<1>4. fillers' = fillers /\ takers' >= takers /\ takers \in Nat /\ takers' \in Nat
  BY <1>2, <1>3, Counts
<1>5. NoLostSignal'
  BY <1>1, <1>2, <1>4, Types, Signals, SignalsAfter
<1>6. TypeOK'
  BY <1>1, Types DEF Inv, TypeOK, ThreadsTypeOK, PC
<1> QED BY <1>1, <1>5, <1>6, Types DEF Inv, WriterPC, ReaderPC, MayAdd

\* A reader goes to sleep when there is no value at all.
LEMMA GetWaitsKeepsInv ==
    ASSUME Inv, NEW r \in Readers, GetWaits(r)
    PROVE  Inv'
<1> USE DEF GetWaits, CondWait, Goto, Unlock
<1>1. /\ pc[r] = "getting" /\ pc' = [pc EXCEPT ![r] = "getWait"]
      /\ UNCHANGED <<items, count, i, expected, val>>
      /\ count = 0
  OBVIOUS
<1>2. asleepToAdd' = asleepToAdd /\ Inside(Fillers)' = Inside(Fillers)
  BY <1>1, Types DEF asleepToAdd, Inside, Fillers, PC
<1>3. r \in Inside(Takers) /\ Inside(Takers)' = Inside(Takers) \ {r}
  BY <1>1, Types DEF Inside, Takers, PC
<1>4. takers' = takers - 1 /\ takers > 0 /\ takers \in Nat /\ fillers' = fillers
  BY <1>2, <1>3, Counts
<1>5. NoLostSignal'
  BY <1>1, <1>2, <1>4, Types, Signals, SignalsAfter
<1>6. TypeOK'
  BY <1>1, Types DEF Inv, TypeOK, ThreadsTypeOK, PC
<1> QED BY <1>1, <1>5, <1>6, Types DEF Inv, WriterPC, ReaderPC, MayAdd

\* A reader takes a value: the room and the writer woken for it come together,
\* and the value and the reader that had come for it go together.
LEMMA GetKeepsInv ==
    ASSUME Inv, NEW r \in Readers, Get(r)
    PROVE  Inv'
<1> USE DEF Get
<1>1. /\ pc[r] = "getting" /\ count # 0
      /\ items' = Tail(items) /\ count' = count - 1
      /\ val' = [val EXCEPT ![r] = Head(items)]
      /\ UNCHANGED <<expected, i>> /\ locked' = FALSE
  BY DEF Fetched, Unlock
<1>2. items # <<>>
  BY <1>1, Types
<1>3. /\ Head(items) \in Value /\ Head(items) # -1
      /\ items' \in Seq(Value) /\ Len(items') = Len(items) - 1
      /\ Len(items') \in 0..Capacity
  <2>1. Head(items) \in Value /\ items' \in Seq(Value) /\ Len(items') = Len(items) - 1
    BY <1>1, <1>2, Types, HeadTailProperties
  <2> QED BY <2>1, <1>1, Types DEF Value
<1>4. r \in Inside(Takers) /\ r \in Threads /\ r \notin Writers
  BY <1>1, Types DEF Inside, Takers
<1>5. \/ asleepToAdd = {} /\ pc' = [pc EXCEPT ![r] = "got"]
      \/ \E u \in asleepToAdd : pc' = [pc EXCEPT ![r] = "got", ![u] = "addWoken"]
  BY DEF SignalAndGo, asleepToAdd
<1>6. CASE asleepToAdd = {} /\ pc' = [pc EXCEPT ![r] = "got"]
  <2>1. asleepToAdd' = {} /\ asleepToGet' = asleepToGet
    BY <1>1, <1>6, Types DEF asleepToGet, asleepToAdd, Inside, PC
  <2>2. Inside(Takers)' = Inside(Takers) \ {r}
    BY <1>6, Types DEF Inside, Takers, PC
  <2>3. takers' = takers - 1 /\ takers \in Nat
    BY <1>4, <2>2, Counts
  <2>4. NoLostSignal'
    BY <1>3, <2>1, <2>3, Types, Signals, SignalsAfter
  <2>5. TypeOK'
    BY <1>1, <1>3, <1>6, Types DEF Inv, TypeOK, ThreadsTypeOK, PC
  <2> QED BY <1>1, <1>3, <1>4, <1>6, <2>4, <2>5, Types DEF Inv, WriterPC, ReaderPC, MayAdd
<1>7. ASSUME NEW u \in asleepToAdd, pc' = [pc EXCEPT ![r] = "got", ![u] = "addWoken"]
      PROVE  Inv'
  <2>1. u \in Writers /\ pc[u] = "addWait" /\ u # r
    BY <1>1, Types DEF asleepToAdd, Inside, Inv, ReaderPC
  <2>2. asleepToAdd' = asleepToAdd \ {u} /\ asleepToGet' = asleepToGet
    BY <1>1, <1>7, <2>1, Types DEF asleepToGet, asleepToAdd, Inside, PC
  <2>3. /\ Inside(Takers)' = Inside(Takers) \ {r}
        /\ u \notin Inside(Fillers) /\ Inside(Fillers)' = Inside(Fillers) \cup {u}
    BY <1>1, <1>7, <2>1, Types DEF Inside, Fillers, Takers, PC
  <2>4. /\ takers' = takers - 1 /\ takers \in Nat
        /\ fillers' = fillers + 1 /\ fillers \in Nat
    BY <1>4, <2>3, Counts
  <2>5. NoLostSignal'
    BY <1>3, <2>2, <2>4, Types, Signals, SignalsAfter
  <2>6. TypeOK'
    BY <1>1, <1>3, <1>7, <2>1, Types DEF Inv, TypeOK, ThreadsTypeOK, PC
  <2> QED BY <1>1, <1>3, <1>4, <1>7, <2>1, <2>5, <2>6, Types
          DEF Inv, WriterPC, ReaderPC, MayAdd
<1> QED BY <1>5, <1>6, <1>7

\* The comparison of a reader touches no queue and wakes nobody.
LEMMA CheckKeepsInv ==
    ASSUME Inv, NEW r \in Readers, Check(r), UNCHANGED queueVars
    PROVE  Inv'
<1> USE DEF Check, Goto, queueVars
<1>1. /\ pc[r] = "got" /\ pc' = [pc EXCEPT ![r] = "loop"]
      /\ UNCHANGED <<items, count, i, locked>>
      /\ expected' = [expected EXCEPT ![r] = val[r] + 1]
      /\ val' = [val EXCEPT ![r] = -1]
  OBVIOUS
<1>2. /\ asleepToGet' = asleepToGet /\ asleepToAdd' = asleepToAdd
      /\ Inside(Takers)' = Inside(Takers) /\ Inside(Fillers)' = Inside(Fillers)
  BY <1>1, Types DEF asleepToGet, asleepToAdd, Inside, Fillers, Takers, PC
<1>3. fillers' = fillers /\ takers' = takers
  BY <1>2, Counts
<1>4. NoLostSignal'
  BY <1>1, <1>2, <1>3, Types, Signals, SignalsAfter
<1>5. expected' \in [Readers -> 0..(INT_MAX + 1)]
  BY <1>1, Types, QueueAssumption DEF Value, Inv
<1>6. TypeOK'
  BY <1>1, <1>5, Types DEF Inv, TypeOK, ThreadsTypeOK, PC
<1> QED BY <1>1, <1>4, <1>6, Types DEF Inv, WriterPC, ReaderPC, MayAdd

\* A spurious wake-up puts one more thread on its way than there is work for.
LEMMA WakeSpuriouslyKeepsInv ==
    ASSUME Inv, NEW t \in Threads, WakeSpuriously(t)
    PROVE  Inv'
<1> USE DEF WakeSpuriously, Goto, queueVars
<1>1. UNCHANGED <<items, count, i, locked, expected, val>>
  OBVIOUS
<1>2. CASE pc[t] = "addWait" /\ pc' = [pc EXCEPT ![t] = "addWoken"]
  <2>1. /\ asleepToGet' = asleepToGet /\ asleepToAdd' = asleepToAdd \ {t}
        /\ Inside(Takers)' = Inside(Takers)
        /\ t \notin Inside(Fillers) /\ Inside(Fillers)' = Inside(Fillers) \cup {t}
    BY <1>2, Types DEF asleepToGet, asleepToAdd, Inside, Fillers, Takers, PC
  <2>2. fillers' = fillers + 1 /\ fillers \in Nat /\ takers' = takers
    BY <2>1, Counts
  <2>3. NoLostSignal'
    BY <1>1, <2>1, <2>2, Types, Signals, SignalsAfter
  <2>4. TypeOK'
    BY <1>1, <1>2, Types DEF Inv, TypeOK, ThreadsTypeOK, PC
  <2> QED BY <1>1, <1>2, <2>3, <2>4, Types DEF Inv, WriterPC, ReaderPC, MayAdd
<1>3. CASE pc[t] = "getWait" /\ pc' = [pc EXCEPT ![t] = "getWoken"]
  <2>1. /\ asleepToAdd' = asleepToAdd /\ asleepToGet' = asleepToGet \ {t}
        /\ Inside(Fillers)' = Inside(Fillers)
        /\ t \notin Inside(Takers) /\ Inside(Takers)' = Inside(Takers) \cup {t}
    BY <1>3, Types DEF asleepToGet, asleepToAdd, Inside, Fillers, Takers, PC
  <2>2. takers' = takers + 1 /\ takers \in Nat /\ fillers' = fillers
    BY <2>1, Counts
  <2>3. NoLostSignal'
    BY <1>1, <2>1, <2>2, Types, Signals, SignalsAfter
  <2>4. TypeOK'
    BY <1>1, <1>3, Types DEF Inv, TypeOK, ThreadsTypeOK, PC
  <2> QED BY <1>1, <1>3, <2>3, <2>4, Types DEF Inv, WriterPC, ReaderPC, MayAdd
<1> QED BY <1>2, <1>3

\* Inv is an inductive invariant.
LEMMA Invariance == Spec => []Inv
<1>1. Init => Inv
  <2> SUFFICES ASSUME Init PROVE Inv
    OBVIOUS
  <2>1. \A t \in Threads : pc[t] = "loop"
    BY DEF Init, ThreadsInit
  <2>2. NoLostSignal
    BY <2>1 DEF NoLostSignal, Inside
  <2>3. 0 \in Value /\ 0 \in 0..Capacity /\ 0 \in 0..(INT_MAX + 1)
    BY QueueAssumption DEF Value
  <2>4. ThreadsTypeOK
    BY <2>3 DEF Init, ThreadsInit, ThreadsTypeOK
  <2>5. items \in Seq(Value) /\ pc \in [Threads -> PC] /\ Len(items) = 0
    BY DEF Init, ThreadsInit, PC
  <2>6. TypeOK
    BY <2>3, <2>4, <2>5 DEF Init, TypeOK
  <2> QED
    BY <2>1, <2>2, <2>5, <2>6 DEF Inv, Init, ThreadsInit, WriterPC, ReaderPC, Threads
<1>2. Inv /\ [Next]_vars => Inv'
  <2> SUFFICES ASSUME Inv, [Next]_vars PROVE Inv'
    OBVIOUS
  <2>1. ASSUME NEW w \in Writers, Writing(w) PROVE Inv'
    BY <2>1, AddLockKeepsInv, AddWaitsKeepsInv, AddKeepsInv DEF Writing
  <2>2. ASSUME NEW r \in Readers, Reading(r) PROVE Inv'
    BY <2>2, GetLockKeepsInv, GetWaitsKeepsInv, GetKeepsInv, CheckKeepsInv DEF Reading
  <2>3. ASSUME NEW t \in Threads, WakeSpuriously(t) PROVE Inv'
    BY <2>3, WakeSpuriouslyKeepsInv
  <2>4. CASE UNCHANGED vars
    BY <2>4 DEF vars, queueVars, threadVars, Inv, TypeOK, ThreadsTypeOK,
       NoLostSignal, Inside, MayAdd
  <2> QED BY <2>1, <2>2, <2>3, <2>4 DEF Next, Finished
<1> QED BY <1>1, <1>2, PTL DEF Spec

\* No reader sleeps through a value and no writer through free room, for any
\* numbers of readers and writers: one signal per operation, given to whichever
\* sleeper the system picks, and new threads that overtake the woken ones, are
\* never too few.
THEOREM SignalsSuffice == Spec => []NoLostSignal
<1>1. Inv => NoLostSignal
  BY DEF Inv
<1> QED BY <1>1, Invariance, PTL

\* The queue with condition variables is a bounded FIFO queue.
THEOREM CondQueueIsBoundedQueue == Spec => ImplementsBoundedQueue
<1>1. Init => TheQueue!Init
  BY DEF Init, ThreadsInit, TheQueue!Init
<1>2. ASSUME Inv, NEW w \in Writers, Add(w) PROVE TheQueue!Add(w)
  <2>1. /\ pc[w] = "adding" /\ count # Capacity
        /\ items' = Append(items, i[w]) /\ i' = [i EXCEPT ![w] = i[w] + 1]
        /\ UNCHANGED <<expected, val>>
    BY <1>2 DEF Add, Insert, Added
  <2>2. i[w] < INT_MAX /\ Len(items) < Capacity
    BY <1>2, <2>1, Types DEF Inv, MayAdd
  <2> QED BY <2>1, <2>2 DEF TheQueue!Add
<1>3. ASSUME Inv, NEW r \in Readers, Get(r) PROVE TheQueue!Get(r)
  <2>1. /\ pc[r] = "getting" /\ count # 0
        /\ items' = Tail(items) /\ val' = [val EXCEPT ![r] = Head(items)]
        /\ UNCHANGED <<expected, i>>
    BY <1>3 DEF Get, Fetched
  <2>2. items # <<>> /\ val[r] = -1
    BY <1>3, <2>1, Types DEF Inv
  <2> QED BY <2>1, <2>2 DEF TheQueue!Get
<1>4. ASSUME Inv, NEW r \in Readers, Check(r), UNCHANGED queueVars
      PROVE  TheQueue!Check(r)
  BY <1>4 DEF Check, Goto, queueVars, Inv, TheQueue!Check
<1>5. ASSUME \/ \E w \in Writers : AddLock(w) \/ AddWaits(w)
             \/ \E r \in Readers : GetLock(r) \/ GetWaits(r)
             \/ \E t \in Threads : WakeSpuriously(t)
             \/ UNCHANGED vars
      PROVE  UNCHANGED TheQueue!vars
  BY <1>5 DEF AddLock, AddWaits, GetLock, GetWaits, CondWait, WakeSpuriously,
              queueVars, vars, threadVars, TheQueue!vars
<1>6. Inv /\ [Next]_vars => [TheQueue!Next]_(TheQueue!vars)
  <2> SUFFICES ASSUME Inv, [Next]_vars PROVE [TheQueue!Next]_(TheQueue!vars)
    OBVIOUS
  <2>1. ASSUME NEW w \in Writers, Writing(w)
        PROVE  [TheQueue!Next]_(TheQueue!vars)
    BY <2>1, <1>2, <1>5 DEF Writing, TheQueue!Next
  <2>2. ASSUME NEW r \in Readers, Reading(r)
        PROVE  [TheQueue!Next]_(TheQueue!vars)
    BY <2>2, <1>3, <1>4, <1>5 DEF Reading, TheQueue!Next
  <2> QED BY <2>1, <2>2, <1>5 DEF Next, Finished
<1> QED BY <1>1, <1>6, Invariance, PTL DEF Spec, ImplementsBoundedQueue, TheQueue!Spec

ReaderTheorems == INSTANCE BoundedQueueProofs

\* With one writer and one reader the check of queue-threads.c never fails.
THEOREM ReaderSeesNoError ==
    ASSUME NEW w, NEW r, Writers = {w}, Readers = {r}
    PROVE  Spec => []GetsExpected
<1>1. TheQueue!Init => ReaderTheorems!Init
  BY DEF TheQueue!Init, ReaderTheorems!Init
<1>2. [TheQueue!Next]_(TheQueue!vars) => [ReaderTheorems!Next]_(ReaderTheorems!vars)
  BY DEF TheQueue!Next, TheQueue!Add, TheQueue!Get, TheQueue!Check, TheQueue!vars,
         ReaderTheorems!Next, ReaderTheorems!Add, ReaderTheorems!Get,
         ReaderTheorems!Check, ReaderTheorems!vars
<1>3. ReaderTheorems!Spec => []ReaderTheorems!InOrder
  BY ReaderTheorems!ReadsInOrder
<1>4. Inv /\ ReaderTheorems!InOrder => GetsExpected
  BY DEF Inv, ReaderTheorems!InOrder, GetsExpected
<1> QED
  BY <1>1, <1>2, <1>3, <1>4, Invariance, CondQueueIsBoundedQueue, PTL
     DEF ImplementsBoundedQueue, TheQueue!Spec, ReaderTheorems!Spec
=============================================================================
