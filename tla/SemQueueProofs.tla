---------------------------- MODULE SemQueueProofs ----------------------------
(***************************************************************************)
(* The queue with semaphores, for any finite sets of writers and readers   *)
(* and any capacity: the semaphores always match the list, the assertions  *)
(* hold, and the queue is a bounded FIFO queue.                            *)
(***************************************************************************)
EXTENDS SemQueue, FiniteSetTheorems, SequenceTheorems, TLAPS

\* Counting threads: when one thread moves, the number of threads at some
\* labels changes by one exactly when the thread arrives there or leaves.
LEMMA CountMoves ==
    ASSUME NEW t \in Threads, NEW label, NEW L,
           pc \in [Threads -> PC],
           pc' = [pc EXCEPT ![t] = label]
    PROVE  /\ Cardinality(Inside(L)) \in Nat
           /\ pc[t] \in L /\ label \in L => Inside(L)' = Inside(L)
           /\ pc[t] \notin L /\ label \notin L => Inside(L)' = Inside(L)
           /\ pc[t] \notin L /\ label \in L =>
                Cardinality(Inside(L)') = Cardinality(Inside(L)) + 1
           /\ pc[t] \in L /\ label \notin L =>
                /\ Cardinality(Inside(L)) > 0
                /\ Cardinality(Inside(L)') = Cardinality(Inside(L)) - 1
<1>1. IsFiniteSet(Threads)
  BY FS_Union, QueueAssumption DEF Threads
<1>2. IsFiniteSet(Inside(L))
  BY <1>1, FS_Subset, Inside(L) \subseteq Threads DEF Inside
<1>3. Cardinality(Inside(L)) \in Nat
  BY <1>2, FS_CardinalityType
<1>4. pc[t] \in L /\ label \in L => Inside(L)' = Inside(L)
  BY DEF Inside
<1>5. pc[t] \notin L /\ label \notin L => Inside(L)' = Inside(L)
  BY DEF Inside
<1>6. ASSUME pc[t] \notin L, label \in L
      PROVE  Cardinality(Inside(L)') = Cardinality(Inside(L)) + 1
  <2>1. t \notin Inside(L) /\ Inside(L)' = Inside(L) \cup {t}
    BY <1>6 DEF Inside
  <2> QED BY <2>1, <1>2, FS_AddElement
<1>7. ASSUME pc[t] \in L, label \notin L
      PROVE  /\ Cardinality(Inside(L)) > 0
             /\ Cardinality(Inside(L)') = Cardinality(Inside(L)) - 1
  <2>1. t \in Inside(L) /\ Inside(L)' = Inside(L) \ {t}
    BY <1>7 DEF Inside
  <2>2. Cardinality(Inside(L)') = Cardinality(Inside(L)) - 1
    BY <2>1, <1>2, FS_RemoveElement
  <2>3. Cardinality(Inside(L)) # 0
    BY <2>1, <1>2, FS_EmptySet
  <2> QED BY <2>2, <2>3, <1>3
<1> QED BY <1>3, <1>4, <1>5, <1>6, <1>7

\* Where a thread may be.
WriterPC == {"loop", "addEnter", "adding", "added"}
ReaderPC == {"loop", "getEnter", "getting", "taken", "got"}

Promised == {"addEnter", "adding", "taken"}     \* room that somebody has waited for
Owed     == {"added", "getEnter", "getting"}    \* values that somebody has waited for

\* The inductive invariant.
Inv ==
    /\ TypeOK
    /\ count = Len(items)
    /\ SemaphoresMatchList
    /\ ListIsGuarded
    /\ \A w \in Writers : pc[w] \in WriterPC /\ (pc[w] # "loop" => MayAdd(w))
    /\ \A r \in Readers : pc[r] \in ReaderPC /\ (pc[r] = "got" <=> val[r] # -1)

\* A reader inside the list finds a first node: it has waited for sem_get.
LEMMA FrontIsThere ==
    ASSUME Inv, NEW r \in Readers, pc[r] = "getting"
    PROVE  items # <<>> /\ items \in Seq(Value)
<1>1. IsFiniteSet(Inside(Owed))
  BY FS_Union, FS_Subset, QueueAssumption, Inside(Owed) \subseteq Threads
     DEF Threads, Inside
<1>2. r \in Inside(Owed)
  BY DEF Inside, Owed, Threads
<1>3. Cardinality(Inside(Owed)) \in Nat \ {0}
  BY <1>1, <1>2, FS_CardinalityType, FS_EmptySet
<1>4. items \in Seq(Value) /\ sem_get \in Nat
  BY QueueAssumption DEF Inv, TypeOK
<1>5. Len(items) > 0
  BY <1>3, <1>4 DEF Inv, SemaphoresMatchList, Owed
<1> QED BY <1>4, <1>5

\* The same, of the two sets of labels the semaphores are about.
promised == Cardinality(Inside(Promised))
owed     == Cardinality(Inside(Owed))

LEMMA Counts ==
    ASSUME NEW t \in Threads, NEW label,
           pc \in [Threads -> PC], pc' = [pc EXCEPT ![t] = label]
    PROVE  /\ promised \in Nat /\ owed \in Nat
           /\ pc[t] \in Promised <=> label \in Promised => promised' = promised
           /\ pc[t] \notin Promised /\ label \in Promised => promised' = promised + 1
           /\ pc[t] \in Promised /\ label \notin Promised =>
                promised' = promised - 1 /\ promised > 0
           /\ pc[t] \in Owed <=> label \in Owed => owed' = owed
           /\ pc[t] \notin Owed /\ label \in Owed => owed' = owed + 1
           /\ pc[t] \in Owed /\ label \notin Owed => owed' = owed - 1 /\ owed > 0
<1>1. promised' = Cardinality(Inside(Promised)') /\ owed' = Cardinality(Inside(Owed)')
  BY DEF promised, owed, Promised, Owed, Inside
<1>2. ASSUME NEW L
      PROVE  /\ Cardinality(Inside(L)) \in Nat
             /\ pc[t] \in L <=> label \in L => Inside(L)' = Inside(L)
             /\ pc[t] \notin L /\ label \in L =>
                    Cardinality(Inside(L)') = Cardinality(Inside(L)) + 1
             /\ pc[t] \in L /\ label \notin L =>
                    /\ Cardinality(Inside(L)) > 0
                    /\ Cardinality(Inside(L)') = Cardinality(Inside(L)) - 1
  BY CountMoves
<1> QED BY <1>1, <1>2 DEF promised, owed, Promised, Owed

\* What the proofs below need of the types.
LEMMA Types ==
    ASSUME Inv
    PROVE  /\ items \in Seq(Value) /\ Len(items) \in Nat /\ count = Len(items)
           /\ pc \in [Threads -> PC]
           /\ sem_add \in Nat /\ sem_get \in Nat /\ Capacity \in Nat
           /\ sem_add + promised + Len(items) = Capacity
           /\ sem_get + owed = Len(items)
BY QueueAssumption
   DEF Inv, TypeOK, SemaphoresMatchList, Promised, Owed, promised, owed

\* One thread waits for room: the room it takes from sem_add is promised to it.
LEMMA AddWaitsForRoomKeepsInv ==
    ASSUME Inv, NEW w \in Writers, AddWaitsForRoom(w)
    PROVE  Inv'
<1> USE DEF AddWaitsForRoom, Goto
<1>1. /\ w \in Threads /\ w \notin Readers
      /\ pc \in [Threads -> PC]
      /\ pc[w] = "loop" /\ pc' = [pc EXCEPT ![w] = "addEnter"]
  BY QueueAssumption, Types DEF Threads
<1>2. /\ promised \in Nat /\ promised' = promised + 1
      /\ owed \in Nat /\ owed' = owed
  BY <1>1, Counts DEF Promised, Owed
<1>3. SemaphoresMatchList'
  BY <1>2, Types DEF SemaphoresMatchList, Promised, Owed, promised, owed
<1>4. TypeOK'
  BY <1>1, <1>2, Types DEF Inv, TypeOK, ThreadsTypeOK, PC
<1>5. ListIsGuarded'
  BY <1>1 DEF Inv, TypeOK, ListIsGuarded, Inside
<1> QED BY <1>1, <1>3, <1>4, <1>5 DEF Inv, TypeOK, WriterPC, ReaderPC, MayAdd

\* A writer starts to work on the list.
LEMMA AddEntersKeepsInv ==
    ASSUME Inv, NEW w \in Writers, AddEnters(w)
    PROVE  Inv'
<1> USE DEF AddEnters, Goto
<1>1. /\ w \in Threads /\ w \notin Readers
      /\ pc \in [Threads -> PC]
      /\ pc[w] = "addEnter" /\ pc' = [pc EXCEPT ![w] = "adding"]
  BY QueueAssumption, Types DEF Threads
<1>2. /\ promised \in Nat /\ promised' = promised
      /\ owed \in Nat /\ owed' = owed
  BY <1>1, Counts DEF Promised, Owed
<1>3. SemaphoresMatchList'
  BY <1>2, Types DEF SemaphoresMatchList, Promised, Owed, promised, owed
<1>4. TypeOK'
  BY <1>1, <1>2, Types DEF Inv, TypeOK, ThreadsTypeOK, PC
<1>5. ListIsGuarded'
  BY <1>1 DEF Inv, TypeOK, ListIsGuarded, Inside
<1> QED BY <1>1, <1>3, <1>4, <1>5, Types DEF Inv, TypeOK, ThreadsTypeOK, WriterPC, ReaderPC, MayAdd

\* The node is linked: the room promised to it is used, and a post of sem_get is owed.
LEMMA LinkKeepsInv ==
    ASSUME Inv, NEW w \in Writers, Link(w)
    PROVE  Inv'
<1> USE DEF Link, Goto
<1>1. /\ w \in Threads /\ w \notin Readers
      /\ pc \in [Threads -> PC]
      /\ pc[w] = "adding" /\ pc' = [pc EXCEPT ![w] = "added"]
  BY QueueAssumption, Types DEF Threads
<1>2. /\ promised \in Nat /\ promised' = promised - 1 /\ promised > 0
      /\ owed \in Nat /\ owed' = owed + 1
  BY <1>1, Counts DEF Promised, Owed
<1>3. /\ i[w] \in Value
      /\ items' \in Seq(Value) /\ Len(items') = Len(items) + 1
  BY <1>1, Types DEF Inv, TypeOK, ThreadsTypeOK
<1>4. SemaphoresMatchList'
  BY <1>2, <1>3, Types DEF SemaphoresMatchList, Promised, Owed, promised, owed
<1>5. TypeOK'
  BY <1>1, <1>2, <1>3, Types DEF Inv, TypeOK, ThreadsTypeOK, PC
<1>6. ListIsGuarded'
  BY <1>1 DEF Inv, TypeOK, ListIsGuarded, Inside
<1> QED BY <1>1, <1>3, <1>4, <1>5, <1>6, Types DEF Inv, TypeOK, ThreadsTypeOK, WriterPC, ReaderPC, MayAdd

\* A writer posts sem_get and returns.
LEMMA AddPostsKeepsInv ==
    ASSUME Inv, NEW w \in Writers, AddPosts(w)
    PROVE  Inv'
<1> USE DEF AddPosts, Goto
<1>1. /\ w \in Threads /\ w \notin Readers
      /\ pc \in [Threads -> PC]
      /\ pc[w] = "added" /\ pc' = [pc EXCEPT ![w] = "loop"]
  BY QueueAssumption, Types DEF Threads
<1>2. /\ promised \in Nat /\ promised' = promised
      /\ owed \in Nat /\ owed' = owed - 1 /\ owed > 0
  BY <1>1, Counts DEF Promised, Owed
<1>3. i' = [i EXCEPT ![w] = i[w] + 1] /\ i[w] \in Value /\ i[w] < INT_MAX
  BY <1>1 DEF Inv, TypeOK, ThreadsTypeOK, Added, MayAdd
<1>4. i' \in [Writers -> Value]
  BY <1>3, QueueAssumption DEF Inv, TypeOK, ThreadsTypeOK, Value
<1>5. SemaphoresMatchList'
  BY <1>2, <1>3, Types DEF SemaphoresMatchList, Promised, Owed, promised, owed
<1>6. TypeOK'
  BY <1>1, <1>2, <1>4, Types DEF Inv, TypeOK, ThreadsTypeOK, PC
<1>7. ListIsGuarded'
  BY <1>1 DEF Inv, TypeOK, ListIsGuarded, Inside
<1> QED BY <1>1, <1>3, <1>5, <1>6, <1>7, Types DEF Inv, TypeOK, ThreadsTypeOK, WriterPC, ReaderPC, MayAdd

\* One reader waits for a value: the value it takes from sem_get is owed to it.
LEMMA GetWaitsForValueKeepsInv ==
    ASSUME Inv, NEW r \in Readers, GetWaitsForValue(r)
    PROVE  Inv'
<1> USE DEF GetWaitsForValue, Goto
<1>1. /\ r \in Threads /\ r \notin Writers
      /\ pc \in [Threads -> PC]
      /\ pc[r] = "loop" /\ pc' = [pc EXCEPT ![r] = "getEnter"]
  BY QueueAssumption, Types DEF Threads
<1>2. /\ promised \in Nat /\ promised' = promised
      /\ owed \in Nat /\ owed' = owed + 1
  BY <1>1, Counts DEF Promised, Owed
<1>3. SemaphoresMatchList'
  BY <1>2, Types DEF SemaphoresMatchList, Promised, Owed, promised, owed
<1>4. TypeOK'
  BY <1>1, <1>2, Types DEF Inv, TypeOK, ThreadsTypeOK, PC
<1>5. ListIsGuarded'
  BY <1>1 DEF Inv, TypeOK, ListIsGuarded, Inside
<1> QED BY <1>1, <1>3, <1>4, <1>5, Types DEF Inv, TypeOK, ThreadsTypeOK, WriterPC, ReaderPC, MayAdd

\* A reader starts to work on the list.
LEMMA GetEntersKeepsInv ==
    ASSUME Inv, NEW r \in Readers, GetEnters(r)
    PROVE  Inv'
<1> USE DEF GetEnters, Goto
<1>1. /\ r \in Threads /\ r \notin Writers
      /\ pc \in [Threads -> PC]
      /\ pc[r] = "getEnter" /\ pc' = [pc EXCEPT ![r] = "getting"]
  BY QueueAssumption, Types DEF Threads
<1>2. /\ promised \in Nat /\ promised' = promised
      /\ owed \in Nat /\ owed' = owed
  BY <1>1, Counts DEF Promised, Owed
<1>3. SemaphoresMatchList'
  BY <1>2, Types DEF SemaphoresMatchList, Promised, Owed, promised, owed
<1>4. TypeOK'
  BY <1>1, <1>2, Types DEF Inv, TypeOK, ThreadsTypeOK, PC
<1>5. ListIsGuarded'
  BY <1>1 DEF Inv, TypeOK, ListIsGuarded, Inside
<1> QED BY <1>1, <1>3, <1>4, <1>5, Types DEF Inv, TypeOK, ThreadsTypeOK, WriterPC, ReaderPC, MayAdd

\* The first node is unlinked: a value is no longer owed, room is promised.
LEMMA UnlinkKeepsInv ==
    ASSUME Inv, NEW r \in Readers, Unlink(r)
    PROVE  Inv'
<1> USE DEF Unlink, Goto
<1>1. /\ r \in Threads /\ r \notin Writers
      /\ pc \in [Threads -> PC]
      /\ pc[r] = "getting" /\ pc' = [pc EXCEPT ![r] = "taken"]
  BY QueueAssumption, Types DEF Threads
<1>2. /\ promised \in Nat /\ promised' = promised + 1
      /\ owed \in Nat /\ owed' = owed - 1 /\ owed > 0
  BY <1>1, Counts DEF Promised, Owed
<1>3. /\ Head(items) \in Value
      /\ items' \in Seq(Value) /\ Len(items') = Len(items) - 1
  <2>1. items # <<>> /\ items \in Seq(Value)
    BY <1>1, FrontIsThere
  <2> QED BY <2>1, HeadTailProperties
<1>4. SemaphoresMatchList'
  <2>1. sem_add' + promised' + Len(items') = Capacity /\ sem_get' + owed' = Len(items')
    BY <1>2, <1>3, Types
  <2> QED BY <2>1 DEF SemaphoresMatchList, Promised, Owed, promised, owed
<1>5. TypeOK'
  BY <1>1, <1>2, <1>3, Types DEF Inv, TypeOK, ThreadsTypeOK, PC
<1>6. ListIsGuarded'
  BY <1>1 DEF Inv, TypeOK, ListIsGuarded, Inside
<1> QED BY <1>1, <1>3, <1>4, <1>5, <1>6, Types DEF Inv, TypeOK, ThreadsTypeOK, WriterPC, ReaderPC, MayAdd

\* A reader posts sem_add and returns.
LEMMA GetPostsKeepsInv ==
    ASSUME Inv, NEW r \in Readers, GetPosts(r)
    PROVE  Inv'
<1> USE DEF GetPosts, Goto
<1>1. /\ r \in Threads /\ r \notin Writers
      /\ pc \in [Threads -> PC]
      /\ pc[r] = "taken" /\ pc' = [pc EXCEPT ![r] = "got"]
  BY QueueAssumption, Types DEF Threads
<1>2. /\ promised \in Nat /\ promised' = promised - 1 /\ promised > 0
      /\ owed \in Nat /\ owed' = owed
  BY <1>1, Counts DEF Promised, Owed
<1>3. val' = [val EXCEPT ![r] = tmp[r]] /\ tmp[r] \in Value
  BY <1>1 DEF Inv, TypeOK, Fetched
<1>4. val' \in [Readers -> Value \cup {-1}] /\ val'[r] # -1
  BY <1>3 DEF Inv, TypeOK, ThreadsTypeOK, Value
<1>5. SemaphoresMatchList'
  BY <1>2, <1>3, Types DEF SemaphoresMatchList, Promised, Owed, promised, owed
<1>6. TypeOK'
  BY <1>1, <1>2, <1>3, <1>4, Types DEF Inv, TypeOK, ThreadsTypeOK, PC
<1>7. ListIsGuarded'
  BY <1>1 DEF Inv, TypeOK, ListIsGuarded, Inside
<1> QED BY <1>1, <1>3, <1>4, <1>5, <1>6, <1>7, Types DEF Inv, TypeOK, ThreadsTypeOK, WriterPC, ReaderPC, MayAdd

\* The comparison of a reader touches neither the list nor the semaphores.
LEMMA CheckKeepsInv ==
    ASSUME Inv, NEW r \in Readers, Check(r), UNCHANGED queueVars
    PROVE  Inv'
<1> USE DEF Check, Goto, queueVars, semaphores
<1>1. /\ r \in Threads /\ r \notin Writers
      /\ pc \in [Threads -> PC]
      /\ pc[r] = "got" /\ pc' = [pc EXCEPT ![r] = "loop"]
  BY QueueAssumption, Types DEF Threads
<1>2. /\ promised \in Nat /\ promised' = promised
      /\ owed \in Nat /\ owed' = owed
  BY <1>1, Counts DEF Promised, Owed
<1>3. /\ val' = [val EXCEPT ![r] = -1]
      /\ expected' = [expected EXCEPT ![r] = val[r] + 1]
      /\ val[r] \in Value
  BY <1>1 DEF Inv, TypeOK, ThreadsTypeOK, ReaderPC
<1>4. expected' \in [Readers -> 0..(INT_MAX + 1)]
  BY <1>3, QueueAssumption DEF Inv, TypeOK, ThreadsTypeOK, Value
<1>5. SemaphoresMatchList'
  BY <1>2, <1>3, Types DEF SemaphoresMatchList, Promised, Owed, promised, owed
<1>6. TypeOK'
  BY <1>1, <1>2, <1>3, <1>4, Types DEF Inv, TypeOK, ThreadsTypeOK, PC
<1>7. ListIsGuarded'
  BY <1>1 DEF Inv, TypeOK, ListIsGuarded, Inside
<1> QED BY <1>1, <1>3, <1>5, <1>6, <1>7, Types DEF Inv, TypeOK, ThreadsTypeOK, WriterPC, ReaderPC, MayAdd

\* Inv is an inductive invariant: no step of any thread breaks the bookkeeping.
LEMMA Invariance == Spec => []Inv
<1>1. Init => Inv
  <2> SUFFICES ASSUME Init PROVE Inv
    OBVIOUS
  <2>1. \A t \in Threads : pc[t] = "loop"
    BY DEF Init, ThreadsInit
  <2>2. /\ Inside({"addEnter", "adding", "taken"}) = {}
        /\ Inside({"added", "getEnter", "getting"}) = {}
        /\ Inside({"adding", "getting"}) = {}
    BY <2>1 DEF Inside
  <2>3. TypeOK
    <3>1. 0 \in Value /\ Capacity \in 0..Capacity /\ 0 \in 0..Capacity
      BY QueueAssumption DEF Value
    <3>2. ThreadsTypeOK
      BY <3>1, QueueAssumption DEF Init, ThreadsInit, ThreadsTypeOK
    <3>3. items \in Seq(Value) /\ pc \in [Threads -> PC]
      BY DEF Init, ThreadsInit, PC
    <3> QED BY <3>1, <3>2, <3>3 DEF Init, TypeOK
  <2>4. SemaphoresMatchList
    <3>1. promised = 0 /\ owed = 0
      BY <2>2, FS_EmptySet DEF promised, owed, Promised, Owed
    <3>2. sem_add + promised + Len(items) = Capacity /\ sem_get + owed = Len(items)
      BY <3>1, QueueAssumption DEF Init
    <3> QED BY <3>2 DEF SemaphoresMatchList, promised, owed, Promised, Owed
  <2>5. ListIsGuarded
    BY <2>2 DEF ListIsGuarded, Init
  <2> QED
    BY <2>1, <2>3, <2>4, <2>5
       DEF Inv, Init, ThreadsInit, WriterPC, ReaderPC, Threads
<1>2. Inv /\ [Next]_vars => Inv'
  <2> SUFFICES ASSUME Inv, [Next]_vars PROVE Inv'
    OBVIOUS
  <2>1. ASSUME NEW w \in Writers, Writing(w) PROVE Inv'
    BY <2>1, AddWaitsForRoomKeepsInv, AddEntersKeepsInv, LinkKeepsInv,
       AddPostsKeepsInv DEF Writing
  <2>2. ASSUME NEW r \in Readers, Reading(r) PROVE Inv'
    BY <2>2, GetWaitsForValueKeepsInv, GetEntersKeepsInv, UnlinkKeepsInv,
       GetPostsKeepsInv, CheckKeepsInv DEF Reading
  <2>3. CASE UNCHANGED vars
    BY <2>3 DEF vars, queueVars, semaphores, threadVars, Inv, TypeOK, ThreadsTypeOK,
       SemaphoresMatchList, ListIsGuarded, Inside, MayAdd
  <2> QED BY <2>1, <2>2, <2>3 DEF Next, Finished
<1> QED BY <1>1, <1>2, PTL DEF Spec

\* The semaphores match the list in every reachable state, whatever the
\* capacity and however many threads use the queue.
THEOREM SemaphoresAreRight == Spec => [](SemaphoresMatchList /\ ListIsGuarded)
<1>1. Inv => SemaphoresMatchList /\ ListIsGuarded
  BY DEF Inv
<1> QED BY <1>1, Invariance, PTL

\* The assertions of queue_add and queue_get never fail, and queue_get never
\* looks for a node in an empty list.
THEOREM AssertionsNeverFail == Spec => []AssertionsHold
<1>1. Inv => AssertionsHold
  <2> SUFFICES ASSUME Inv PROVE AssertionsHold
    OBVIOUS
  <2>1. 0 <= count /\ count <= Capacity
    BY QueueAssumption DEF Inv, TypeOK
  <2>2. \A r \in Readers : pc[r] = "getting" => items # <<>>
    BY FrontIsThere
  <2> QED BY <2>1, <2>2 DEF AssertionsHold
<1> QED BY <1>1, Invariance, PTL

\* Linking a node is adding to the ideal queue: there is room for it.
LEMMA LinkAdds ==
    ASSUME Inv, NEW w \in Writers, Link(w)
    PROVE  TheQueue!Add(w)
<1>1. /\ w \in Threads /\ w \notin Readers
      /\ pc \in [Threads -> PC]
      /\ pc[w] = "adding" /\ pc' = [pc EXCEPT ![w] = "added"]
  BY QueueAssumption, Types DEF Threads, Link, Goto
<1>2. /\ promised \in Nat /\ promised' = promised - 1 /\ promised > 0
      /\ owed \in Nat /\ owed' = owed + 1
  BY <1>1, Counts DEF Promised, Owed, Link, Goto
<1>3. Len(items) < Capacity
  BY <1>2, Types
<1>4. iLinked[w] = i[w] /\ i[w] < INT_MAX
  BY <1>1 DEF iLinked, Inv, MayAdd
<1>5. UNCHANGED <<i, val, expected, tmp>> /\ items' = Append(items, i[w])
  BY DEF Link
<1>6. iLinked' = [iLinked EXCEPT ![w] = @ + 1]
  BY <1>1, <1>4, <1>5 DEF iLinked, Threads
<1>7. valTaken' = valTaken
  BY <1>1, <1>5 DEF valTaken, Threads
<1> QED BY <1>3, <1>4, <1>5, <1>6, <1>7 DEF TheQueue!Add

\* Unlinking a node is taking from the ideal queue.
LEMMA UnlinkGets ==
    ASSUME Inv, NEW r \in Readers, Unlink(r)
    PROVE  TheQueue!Get(r)
<1>1. /\ r \in Threads /\ r \notin Writers
      /\ pc \in [Threads -> PC]
      /\ pc[r] = "getting" /\ pc' = [pc EXCEPT ![r] = "taken"]
      /\ UNCHANGED <<i, val, expected>>
      /\ tmp \in [Readers -> Value] /\ tmp' = [tmp EXCEPT ![r] = Head(items)]
      /\ items' = Tail(items)
  BY QueueAssumption, Types DEF Threads, Unlink, Goto, Inv, TypeOK
<1>2. items # <<>>
  BY <1>1, FrontIsThere
<1>3. val[r] = -1
  BY <1>1 DEF Inv, TypeOK, ThreadsTypeOK
<1>4. valTaken[r] = -1
  BY <1>1, <1>3 DEF valTaken
<1>5. valTaken' = [valTaken EXCEPT ![r] = Head(items)]
  BY <1>1 DEF valTaken, Threads
<1>6. iLinked' = iLinked
  BY <1>1 DEF iLinked, Threads
<1> QED BY <1>1, <1>2, <1>4, <1>5, <1>6 DEF TheQueue!Get

\* The comparison of a reader is that of the ideal reader.
LEMMA CheckChecks ==
    ASSUME Inv, NEW r \in Readers, Check(r), UNCHANGED queueVars
    PROVE  TheQueue!Check(r)
<1>1. /\ r \in Threads /\ r \notin Writers
      /\ pc \in [Threads -> PC]
      /\ pc[r] = "got" /\ pc' = [pc EXCEPT ![r] = "loop"]
      /\ UNCHANGED <<i, items, tmp>>
      /\ expected' = [expected EXCEPT ![r] = val[r] + 1]
      /\ val \in [Readers -> Value \cup {-1}] /\ val' = [val EXCEPT ![r] = -1]
  BY QueueAssumption, Types DEF Threads, Check, Goto, Inv, TypeOK, ThreadsTypeOK, queueVars
<1>2. valTaken[r] = val[r] /\ val[r] # -1
  BY <1>1 DEF valTaken, Inv
<1>3. valTaken' = [valTaken EXCEPT ![r] = -1]
  BY <1>1 DEF valTaken, Threads
<1>4. iLinked' = iLinked
  BY <1>1 DEF iLinked, Threads
<1> QED BY <1>1, <1>2, <1>3, <1>4 DEF TheQueue!Check

\* Every other step leaves the ideal queue alone.
LEMMA OthersStutter ==
    ASSUME Inv,
           \/ \E w \in Writers : AddWaitsForRoom(w) \/ AddEnters(w) \/ AddPosts(w)
           \/ \E r \in Readers : GetWaitsForValue(r) \/ GetEnters(r) \/ GetPosts(r)
    PROVE  UNCHANGED <<items, iLinked, expected, valTaken>>
<1> USE DEF Goto, iLinked, valTaken
<1>1. /\ pc \in [Threads -> PC] /\ i \in [Writers -> Value]
      /\ val \in [Readers -> Value \cup {-1}] /\ tmp \in [Readers -> Value]
      /\ Writers \subseteq Threads /\ Readers \subseteq Threads
      /\ Writers \cap Readers = {}
  BY QueueAssumption DEF Inv, TypeOK, ThreadsTypeOK, Threads
<1>2. ASSUME NEW w \in Writers, AddWaitsForRoom(w) \/ AddEnters(w)
      PROVE  UNCHANGED <<items, iLinked, expected, valTaken>>
  BY <1>1, <1>2 DEF AddWaitsForRoom, AddEnters
<1>3. ASSUME NEW w \in Writers, AddPosts(w)
      PROVE  UNCHANGED <<items, iLinked, expected, valTaken>>
  BY <1>1, <1>3 DEF AddPosts, Added
<1>4. ASSUME NEW r \in Readers, GetWaitsForValue(r) \/ GetEnters(r)
      PROVE  UNCHANGED <<items, iLinked, expected, valTaken>>
  BY <1>1, <1>4 DEF GetWaitsForValue, GetEnters
<1>5. ASSUME NEW r \in Readers, GetPosts(r)
      PROVE  UNCHANGED <<items, iLinked, expected, valTaken>>
  BY <1>1, <1>5 DEF GetPosts, Fetched
<1> QED BY <1>2, <1>3, <1>4, <1>5

\* The queue with semaphores is a bounded FIFO queue: no value is lost,
\* repeated or overtaken, and never more than max_count are inside.
THEOREM SemQueueIsBoundedQueue == Spec => ImplementsBoundedQueue
<1>1. Init => TheQueue!Init
  BY DEF Init, ThreadsInit, TheQueue!Init, iLinked, valTaken, Threads
<1>2. Inv /\ [Next]_vars => [TheQueue!Next]_(TheQueue!vars)
  <2> SUFFICES ASSUME Inv, [Next]_vars PROVE [TheQueue!Next]_(TheQueue!vars)
    OBVIOUS
  <2>1. ASSUME NEW w \in Writers, Writing(w)
        PROVE  [TheQueue!Next]_(TheQueue!vars)
    BY <2>1, LinkAdds, OthersStutter DEF Writing, TheQueue!Next, TheQueue!vars
  <2>2. ASSUME NEW r \in Readers, Reading(r)
        PROVE  [TheQueue!Next]_(TheQueue!vars)
    BY <2>2, UnlinkGets, CheckChecks, OthersStutter
       DEF Reading, TheQueue!Next, TheQueue!vars
  <2>3. CASE UNCHANGED vars
    BY <2>3 DEF vars, queueVars, threadVars, iLinked, valTaken, TheQueue!vars
  <2> QED BY <2>1, <2>2, <2>3 DEF Next, Finished
<1> QED BY <1>1, <1>2, Invariance, PTL DEF Spec, ImplementsBoundedQueue, TheQueue!Spec

ReaderTheorems == INSTANCE BoundedQueueProofs WITH i <- iLinked, val <- valTaken

\* With one writer and one reader the check of queue-threads.c never fails.
THEOREM ReaderSeesNoError ==
    ASSUME NEW w, NEW r, Writers = {w}, Readers = {r}
    PROVE  Spec => []GetsExpected
<1>1. TheQueue!Init => ReaderTheorems!Init
  BY DEF TheQueue!Init, ReaderTheorems!Init
<1>2. [TheQueue!Next]_(TheQueue!vars) => [ReaderTheorems!Next]_(ReaderTheorems!vars)
  BY DEF TheQueue!Next, TheQueue!Add, TheQueue!Get, TheQueue!Check, TheQueue!vars,
         ReaderTheorems!Next, ReaderTheorems!Add, ReaderTheorems!Get,
         ReaderTheorems!Check, ReaderTheorems!vars
<1>3. ReaderTheorems!Spec => []ReaderTheorems!InOrder
  BY ReaderTheorems!ReadsInOrder
<1>4. Inv /\ ReaderTheorems!InOrder => GetsExpected
  BY DEF Inv, ReaderTheorems!InOrder, GetsExpected, valTaken
<1> QED
  BY <1>1, <1>2, <1>3, <1>4, Invariance, SemQueueIsBoundedQueue, PTL
     DEF ImplementsBoundedQueue, TheQueue!Spec, ReaderTheorems!Spec
=============================================================================
