-------------------------- MODULE MutexQueueProofs --------------------------
(***************************************************************************)
(* Proofs about the queues with one lock, for one writer and one reader as *)
(* in the programs, any capacity and number of values, and each of the     *)
(* three disciplines:                                                      *)
(*   AssertionsNeverFail     Spec => []AssertionsHold                      *)
(*   NodesStayLive           Spec => NodesAreLive                          *)
(*   MutexQueueIsBoundedQueue  Spec => ImplementsBoundedQueue              *)
(*   ReaderSeesNoError       Spec => []GetsExpected                        *)
(*                                                                         *)
(* The nodes are numbers, and the list is an interval of them: from the    *)
(* number of nodes that have been unlinked up to the number that have been *)
(* linked.  The invariant says how first, last, next, count, tmp and val   *)
(* follow from these two.  With "list", count is tested outside the lock:  *)
(* what a thread has seen of it stays true because only the other thread   *)
(* moves, and it moves count the other way (WriterKnows, ReaderKnows).     *)
(***************************************************************************)
EXTENDS MutexQueue, TLAPS, WellFoundedInduction

\* How many nodes have been linked, unlinked and freed.
Linked(w)   == IF pc[w] = "linked" THEN i[w] + 1 ELSE i[w]
Unlinked(r) == IF pc[r] \in {"taken", "unlinked", "got"} THEN expected[r] + 1
                                                         ELSE expected[r]
Released(r) == IF pc[r] = "got" THEN expected[r] + 1 ELSE expected[r]

PC == {"loop", "room", "linked", "value", "taken", "unlinked", "got"}

Types ==
    /\ discipline \in {"all", "count", "list"}
    /\ i \in [Writers -> Value]
    /\ expected \in [Readers -> Nat]
    /\ val \in [Readers -> Value \cup {NULL}]
    /\ tmp \in [Readers -> Value \cup {NULL}]
    /\ next \in [Value -> Value \cup {NULL}]
    /\ pc \in [Threads -> PC]

\* Where the threads can be.
Places(w, r) ==
    /\ pc[w] \in {"loop", "room", "linked"}
    /\ pc[w] # "loop" => discipline = "list"
    /\ pc[r] \in {"loop", "value", "taken", "unlinked", "got"}
    /\ pc[r] \in {"value", "taken"} => discipline = "list"
    /\ pc[r] = "unlinked" => discipline = "count"

\* What a writer has found out stays true until it uses it.
WriterKnows(w) ==
    pc[w] \in {"room", "linked"} => i[w] < INT_MAX /\ count < Capacity

\* So does what a reader has found out; it has taken what it expects.
ReaderKnows(w, r) ==
    /\ pc[r] = "value" => expected[r] < i[w]
    /\ pc[r] \in {"taken", "unlinked"} => tmp[r] = expected[r]
    /\ val[r] = IF pc[r] = "got" THEN expected[r] ELSE NULL

\* A node is counted after it is linked, and until after it is unlinked.
CountIs(w, r) ==
    /\ count = (IF pc[r] = "taken" THEN i[w] + 1 ELSE i[w]) - Unlinked(r)
    /\ 0 <= count /\ count <= Capacity
    /\ Unlinked(r) <= i[w]

\* Each node points to the one made after it, or to none.
LinkedInOrder == \A n \in Value : next[n] \in {n + 1, NULL}

\* The list has the nodes from f up to, but not including, l.
ListIs(f, l) ==
    /\ first = IF f = l THEN NULL ELSE f
    /\ f < l => last = l - 1 /\ next[l - 1] = NULL
    /\ \A n \in Value : f <= n /\ n + 1 < l => next[n] = n + 1

\* A node is freed after it has been unlinked and read.
FreedAre(r) == freed \subseteq 0..(Released(r) - 1)

Inv(w, r) ==
    /\ Types
    /\ Places(w, r)
    /\ WriterKnows(w)
    /\ ReaderKnows(w, r)
    /\ CountIs(w, r)
    /\ LinkedInOrder
    /\ ListIs(Unlinked(r), Linked(w))
    /\ FreedAre(r)

-----------------------------------------------------------------------------
(* The invariant                                                           *)

\* A new node extends the interval at its end; it is stored into the last node
\* of the list only.
LEMMA AppendExtends ==
    ASSUME NEW f \in Nat, NEW l \in Nat, f <= l, l < INT_MAX,
           Types, LinkedInOrder, ListIs(f, l), AppendNode(l)
    PROVE  /\ ListIs(f, l + 1)'
           /\ LinkedInOrder'
           /\ next' \in [Value -> Value \cup {NULL}]
           /\ \A n \in Value : n < f => next'[n] = next[n]
<1> USE QueueAssumption DEF Types, ListIs, AppendNode, Value, NULL
<1>1. CASE f = l
  BY <1>1 DEF LinkedInOrder
<1>2. CASE f < l
  <2>1. /\ first = f /\ last = l - 1 /\ last \in Value /\ l \in Value
        /\ next' = [next EXCEPT ![l] = NULL, ![last] = l]
        /\ first' = f /\ last' = l
    BY <1>2
  <2>2. /\ next' \in [Value -> Value \cup {NULL}]
        /\ \A n \in Value : next'[n] = IF n = l - 1 THEN l
                                       ELSE IF n = l THEN NULL ELSE next[n]
    BY <1>2, <2>1
  <2>3. LinkedInOrder'
    BY <1>2, <2>1, <2>2 DEF LinkedInOrder
  <2>4. ListIs(f, l + 1)'
    BY <1>2, <2>1, <2>2
  <2> QED
    BY <1>2, <2>1, <2>2, <2>3, <2>4
<1> QED
  BY <1>1, <1>2

\* Unlinking the first node shortens the interval at its start.
LEMMA RemoveShortens ==
    ASSUME NEW f \in Nat, NEW l \in Nat, f < l, l <= INT_MAX,
           Types, ListIs(f, l), RemoveFirst
    PROVE  first = f /\ ListIs(f + 1, l)'
<1> USE QueueAssumption DEF Types, RemoveFirst, Value, NULL
<1>1. first = f /\ first' = next[f] /\ UNCHANGED <<next, last>>
  BY DEF ListIs
<1>2. CASE f + 1 = l
  BY <1>1, <1>2 DEF ListIs
<1>3. CASE f + 1 < l
  BY <1>1, <1>3 DEF ListIs
<1> QED
  BY <1>2, <1>3

\* The next node is freed.
LEMMA FreeOne ==
    ASSUME NEW r, NEW e \in Nat, FreedAre(r), Released(r) = e,
           freed' = freed \cup {e}, Released(r)' = e + 1
    PROVE  FreedAre(r)'
  BY DEF FreedAre

\* The two threads, and the types of what they use.
LEMMA Setting ==
    ASSUME NEW w, NEW r, Writers = {w}, Readers = {r}, Types
    PROVE  /\ w \in Writers /\ r \in Readers /\ w # r
           /\ w \in Threads /\ r \in Threads
           /\ pc \in [Threads -> PC]
           /\ i \in [Writers -> Value] /\ i[w] \in Nat
           /\ expected \in [Readers -> Nat] /\ expected[r] \in Nat
           /\ val \in [Readers -> Value \cup {NULL}]
           /\ tmp \in [Readers -> Value \cup {NULL}]
<1>1. /\ w \in Writers /\ r \in Readers /\ w # r
      /\ w \in Threads /\ r \in Threads
  BY QueueAssumption DEF Threads
<1>2. i[w] \in Nat /\ expected[r] \in Nat
  BY <1>1 DEF Types, Value
<1> QED
  BY <1>1, <1>2 DEF Types

\* Every action keeps the invariant.
LEMMA NextInv ==
    ASSUME NEW w, NEW r, Writers = {w}, Readers = {r},
           Inv(w, r), [Next]_vars
    PROVE  Inv(w, r)'
<1> USE DEF Goto, NULL, vars, threadVars, listVars, queueVars, Linked, Unlinked,
            Inv, Types, Places, WriterKnows, ReaderKnows, CountIs
<1> DEFINE Knowledge == Places(w, r) /\ WriterKnows(w) /\ ReaderKnows(w, r)
           Lists     == /\ LinkedInOrder
                        /\ ListIs(Unlinked(r), Linked(w))
                        /\ next \in [Value -> Value \cup {NULL}]
<1>a. /\ w \in Writers /\ r \in Readers /\ w # r
      /\ w \in Threads /\ r \in Threads
      /\ Threads = {w, r}
      /\ Capacity \in Nat \ {0} /\ INT_MAX \in Nat
      /\ i[w] \in Nat /\ expected[r] \in Nat
  BY QueueAssumption, Setting DEF Threads
<1>b. PICK f, l : f = Unlinked(r) /\ l = Linked(w)
  OBVIOUS
<1>c. /\ f \in Nat /\ l \in Nat /\ f <= l /\ l <= INT_MAX
      /\ ListIs(f, l)
  BY <1>a, <1>b DEF Value
<1>d. CASE UNCHANGED vars
  BY <1>b, <1>c, <1>d
     DEF FreedAre, Released, LinkedInOrder, ListIs
<1>1. CASE AddUnderLock(w) /\ ~UNCHANGED vars
  <2>1. Unlinked(r)' = f /\ Linked(w)' = l + 1
    BY <1>a, <1>b, <1>c, <1>1 DEF AddUnderLock, MayAdd, Added, Refused
  <2>2. l < INT_MAX /\ AppendNode(l)
    BY <1>a, <1>b, <1>c, <1>1
       DEF Value, ListIs, AddUnderLock, MayAdd, Added, Refused
  <2>3. Lists'
    BY <1>c, <2>1, <2>2, AppendExtends DEF LinkedInOrder, ListIs
  <2>4. Types'
    BY <1>a, <1>b, <1>c, <1>1, <2>2, <2>3
       DEF PC, Value, AddUnderLock, MayAdd, Added, Refused
  <2>5. Knowledge'
    BY <1>a, <1>b, <1>c, <1>1, <2>2
       DEF PC, Value, AddUnderLock, MayAdd, Added, Refused
  <2>6. CountIs(w, r)'
    BY <1>a, <1>b, <1>c, <1>1, <2>2 DEF AddUnderLock, MayAdd, Added, Refused
  <2>7. FreedAre(r)'
    BY <1>a, <1>b, <1>c, <1>1
       DEF FreedAre, Released, AddUnderLock, MayAdd, Added, Refused
  <2> QED
    BY <2>3, <2>4, <2>5, <2>6, <2>7
<1>2. CASE AddCounted(w) /\ ~UNCHANGED vars
  <2>1. Unlinked(r)' = f /\ Linked(w)' = l + 1
    BY <1>a, <1>b, <1>c, <1>2 DEF AddCounted, MayAdd, Added, Refused
  <2>2. l < INT_MAX /\ AppendNode(l)
    BY <1>a, <1>b, <1>c, <1>2
       DEF Value, ListIs, AddCounted, MayAdd, Added, Refused
  <2>3. Lists'
    BY <1>c, <2>1, <2>2, AppendExtends DEF LinkedInOrder, ListIs
  <2>4. Types'
    BY <1>a, <1>b, <1>c, <1>2, <2>2, <2>3
       DEF PC, Value, AddCounted, MayAdd, Added, Refused
  <2>5. Knowledge'
    BY <1>a, <1>b, <1>c, <1>2, <2>2
       DEF PC, Value, AddCounted, MayAdd, Added, Refused
  <2>6. CountIs(w, r)'
    BY <1>a, <1>b, <1>c, <1>2, <2>2 DEF AddCounted, MayAdd, Added, Refused
  <2>7. FreedAre(r)'
    BY <1>a, <1>b, <1>c, <1>2
       DEF FreedAre, Released, AddCounted, MayAdd, Added, Refused
  <2> QED
    BY <2>3, <2>4, <2>5, <2>6, <2>7
<1>3. CASE AddTests(w) /\ ~UNCHANGED vars
  <2>1. Unlinked(r)' = f /\ Linked(w)' = l
    BY <1>a, <1>b, <1>c, <1>3 DEF AddTests, MayAdd, Refused
  <2>2. UNCHANGED <<first, last, next>>
    BY <1>3 DEF AddTests, MayAdd, Refused
  <2>3. Lists'
    BY <1>c, <2>1, <2>2 DEF LinkedInOrder, ListIs
  <2>4. Types'
    BY <1>a, <1>b, <1>c, <1>3, <2>2, <2>3
       DEF PC, Value, AddTests, MayAdd, Refused
  <2>5. Knowledge'
    BY <1>a, <1>b, <1>c, <1>3, <2>2 DEF PC, Value, AddTests, MayAdd, Refused
  <2>6. CountIs(w, r)'
    BY <1>a, <1>b, <1>c, <1>3, <2>2 DEF AddTests, MayAdd, Refused
  <2>7. FreedAre(r)'
    BY <1>a, <1>b, <1>c, <1>3
       DEF FreedAre, Released, AddTests, MayAdd, Refused
  <2> QED
    BY <2>3, <2>4, <2>5, <2>6, <2>7
<1>4. CASE Link(w)
  <2>1. Unlinked(r)' = f /\ Linked(w)' = l + 1
    BY <1>a, <1>b, <1>c, <1>4 DEF Link
  <2>2. l < INT_MAX /\ AppendNode(l)
    BY <1>a, <1>b, <1>c, <1>4 DEF Value, ListIs, Link
  <2>3. Lists'
    BY <1>c, <2>1, <2>2, AppendExtends DEF LinkedInOrder, ListIs
  <2>4. Types'
    BY <1>a, <1>b, <1>c, <1>4, <2>2, <2>3 DEF PC, Value, Link
  <2>5. Knowledge'
    BY <1>a, <1>b, <1>c, <1>4, <2>2 DEF PC, Value, Link
  <2>6. CountIs(w, r)'
    BY <1>a, <1>b, <1>c, <1>4, <2>2 DEF Link
  <2>7. FreedAre(r)'
    BY <1>a, <1>b, <1>c, <1>4 DEF FreedAre, Released, Link
  <2> QED
    BY <2>3, <2>4, <2>5, <2>6, <2>7
<1>5. CASE AddCounts(w)
  <2>1. Unlinked(r)' = f /\ Linked(w)' = l
    BY <1>a, <1>b, <1>c, <1>5 DEF AddCounts, Added
  <2>2. UNCHANGED <<first, last, next>>
    BY <1>5 DEF AddCounts, Added
  <2>3. Lists'
    BY <1>c, <2>1, <2>2 DEF LinkedInOrder, ListIs
  <2>4. Types'
    BY <1>a, <1>b, <1>c, <1>5, <2>2, <2>3 DEF PC, Value, AddCounts, Added
  <2>5. Knowledge'
    BY <1>a, <1>b, <1>c, <1>5, <2>2 DEF PC, Value, AddCounts, Added
  <2>6. CountIs(w, r)'
    BY <1>a, <1>b, <1>c, <1>5, <2>2 DEF AddCounts, Added
  <2>7. FreedAre(r)'
    BY <1>a, <1>b, <1>c, <1>5 DEF FreedAre, Released, AddCounts, Added
  <2> QED
    BY <2>3, <2>4, <2>5, <2>6, <2>7
<1>6. CASE GetUnderLock(r) /\ ~UNCHANGED vars
  <2>1. Unlinked(r)' = f + 1 /\ Linked(w)' = l
    BY <1>a, <1>b, <1>c, <1>6 DEF GetUnderLock, Fetched, Free, Refused
  <2>2. f < l /\ RemoveFirst /\ first = f /\ first \in Value
    BY <1>a, <1>b, <1>c, <1>6
       DEF Value, ListIs, GetUnderLock, Fetched, Free, Refused
  <2>3. Lists'
    BY <1>c, <2>1, <2>2, RemoveShortens DEF LinkedInOrder, ListIs, RemoveFirst
  <2>4. Types'
    BY <1>a, <1>b, <1>c, <1>6, <2>2, <2>3
       DEF PC, Value, GetUnderLock, Fetched, Free, Refused
  <2>5. Knowledge'
    BY <1>a, <1>b, <1>c, <1>6, <2>2
       DEF PC, Value, GetUnderLock, Fetched, Free, Refused
  <2>6. CountIs(w, r)'
    BY <1>a, <1>b, <1>c, <1>6, <2>2 DEF GetUnderLock, Fetched, Free, Refused
  <2>7. FreedAre(r)'
    <3>1. freed' = freed \cup {expected[r]}
      BY <1>a, <1>b, <1>c, <1>6, <2>2 DEF GetUnderLock, Fetched, Free, Refused
    <3>2. Released(r) = expected[r] /\ Released(r)' = expected[r] + 1
      BY <1>a, <1>b, <1>c, <1>6
         DEF Released, GetUnderLock, Fetched, Free, Refused
    <3> QED
      BY <1>a, <3>1, <3>2, FreeOne
  <2> QED
    BY <2>3, <2>4, <2>5, <2>6, <2>7
<1>7. CASE UnlinkCounted(r) /\ ~UNCHANGED vars
  <2>1. Unlinked(r)' = f + 1 /\ Linked(w)' = l
    BY <1>a, <1>b, <1>c, <1>7 DEF UnlinkCounted, Refused
  <2>2. f < l /\ RemoveFirst /\ first = f /\ first \in Value
    BY <1>a, <1>b, <1>c, <1>7 DEF Value, ListIs, UnlinkCounted, Refused
  <2>3. Lists'
    BY <1>c, <2>1, <2>2, RemoveShortens DEF LinkedInOrder, ListIs, RemoveFirst
  <2>4. Types'
    BY <1>a, <1>b, <1>c, <1>7, <2>2, <2>3
       DEF PC, Value, UnlinkCounted, Refused
  <2>5. Knowledge'
    BY <1>a, <1>b, <1>c, <1>7, <2>2 DEF PC, Value, UnlinkCounted, Refused
  <2>6. CountIs(w, r)'
    BY <1>a, <1>b, <1>c, <1>7, <2>2 DEF UnlinkCounted, Refused
  <2>7. FreedAre(r)'
    BY <1>a, <1>b, <1>c, <1>7 DEF FreedAre, Released, UnlinkCounted, Refused
  <2> QED
    BY <2>3, <2>4, <2>5, <2>6, <2>7
<1>8. CASE TakeValue(r)
  <2>1. Unlinked(r)' = f /\ Linked(w)' = l
    BY <1>a, <1>b, <1>c, <1>8 DEF TakeValue, Fetched, Free
  <2>2. UNCHANGED <<first, last, next>>
    BY <1>8 DEF TakeValue, Fetched, Free
  <2>3. Lists'
    BY <1>c, <2>1, <2>2 DEF LinkedInOrder, ListIs
  <2>4. Types'
    BY <1>a, <1>b, <1>c, <1>8, <2>2, <2>3
       DEF PC, Value, TakeValue, Fetched, Free
  <2>5. Knowledge'
    BY <1>a, <1>b, <1>c, <1>8, <2>2 DEF PC, Value, TakeValue, Fetched, Free
  <2>6. CountIs(w, r)'
    BY <1>a, <1>b, <1>c, <1>8, <2>2 DEF TakeValue, Fetched, Free
  <2>7. FreedAre(r)'
    <3>1. freed' = freed \cup {expected[r]}
      BY <1>a, <1>b, <1>c, <1>8, <2>2 DEF TakeValue, Fetched, Free
    <3>2. Released(r) = expected[r] /\ Released(r)' = expected[r] + 1
      BY <1>a, <1>b, <1>c, <1>8 DEF Released, TakeValue, Fetched, Free
    <3> QED
      BY <1>a, <3>1, <3>2, FreeOne
  <2> QED
    BY <2>3, <2>4, <2>5, <2>6, <2>7
<1>9. CASE GetTests(r) /\ ~UNCHANGED vars
  <2>1. Unlinked(r)' = f /\ Linked(w)' = l
    BY <1>a, <1>b, <1>c, <1>9 DEF GetTests, Refused
  <2>2. UNCHANGED <<first, last, next>>
    BY <1>9 DEF GetTests, Refused
  <2>3. Lists'
    BY <1>c, <2>1, <2>2 DEF LinkedInOrder, ListIs
  <2>4. Types'
    BY <1>a, <1>b, <1>c, <1>9, <2>2, <2>3 DEF PC, Value, GetTests, Refused
  <2>5. Knowledge'
    BY <1>a, <1>b, <1>c, <1>9, <2>2 DEF PC, Value, GetTests, Refused
  <2>6. CountIs(w, r)'
    BY <1>a, <1>b, <1>c, <1>9, <2>2 DEF GetTests, Refused
  <2>7. FreedAre(r)'
    BY <1>a, <1>b, <1>c, <1>9 DEF FreedAre, Released, GetTests, Refused
  <2> QED
    BY <2>3, <2>4, <2>5, <2>6, <2>7
<1>10. CASE Unlink(r)
  <2>0. first = f /\ first # NULL
    BY <1>a, <1>b, <1>c, <1>10 DEF Unlink, ListIs, Value
  <2>1. Unlinked(r)' = f + 1 /\ Linked(w)' = l
    BY <1>a, <1>b, <1>c, <1>10, <2>0 DEF Unlink
  <2>2. f < l /\ RemoveFirst /\ first = f /\ first \in Value
    BY <1>a, <1>b, <1>c, <1>10, <2>0 DEF Value, ListIs, Unlink
  <2>3. Lists'
    BY <1>c, <2>1, <2>2, RemoveShortens DEF LinkedInOrder, ListIs, RemoveFirst
  <2>4. Types'
    BY <1>a, <1>b, <1>c, <1>10, <2>2, <2>3, <2>0 DEF PC, Value, Unlink
  <2>5. Knowledge'
    BY <1>a, <1>b, <1>c, <1>10, <2>2, <2>0 DEF PC, Value, Unlink
  <2>6. CountIs(w, r)'
    BY <1>a, <1>b, <1>c, <1>10, <2>2, <2>0 DEF Unlink
  <2>7. FreedAre(r)'
    BY <1>a, <1>b, <1>c, <1>10, <2>0 DEF FreedAre, Released, Unlink
  <2> QED
    BY <2>3, <2>4, <2>5, <2>6, <2>7
<1>11. CASE GetCounts(r)
  <2>1. Unlinked(r)' = f /\ Linked(w)' = l
    BY <1>a, <1>b, <1>c, <1>11 DEF GetCounts, Fetched, Free
  <2>2. UNCHANGED <<first, last, next>>
    BY <1>11 DEF GetCounts, Fetched, Free
  <2>3. Lists'
    BY <1>c, <2>1, <2>2 DEF LinkedInOrder, ListIs
  <2>4. Types'
    BY <1>a, <1>b, <1>c, <1>11, <2>2, <2>3
       DEF PC, Value, GetCounts, Fetched, Free
  <2>5. Knowledge'
    BY <1>a, <1>b, <1>c, <1>11, <2>2 DEF PC, Value, GetCounts, Fetched, Free
  <2>6. CountIs(w, r)'
    BY <1>a, <1>b, <1>c, <1>11, <2>2 DEF GetCounts, Fetched, Free
  <2>7. FreedAre(r)'
    <3>1. freed' = freed \cup {expected[r]}
      BY <1>a, <1>b, <1>c, <1>11, <2>2 DEF GetCounts, Fetched, Free
    <3>2. Released(r) = expected[r] /\ Released(r)' = expected[r] + 1
      BY <1>a, <1>b, <1>c, <1>11 DEF Released, GetCounts, Fetched, Free
    <3> QED
      BY <1>a, <3>1, <3>2, FreeOne
  <2> QED
    BY <2>3, <2>4, <2>5, <2>6, <2>7
<1>12. CASE Check(r) /\ UNCHANGED queueVars
  <2>1. Unlinked(r)' = f /\ Linked(w)' = l
    BY <1>a, <1>b, <1>c, <1>12 DEF Check
  <2>2. UNCHANGED <<first, last, next>>
    BY <1>12 DEF Check
  <2>3. Lists'
    BY <1>c, <2>1, <2>2 DEF LinkedInOrder, ListIs
  <2>4. Types'
    BY <1>a, <1>b, <1>c, <1>12, <2>2, <2>3 DEF PC, Value, Check
  <2>5. Knowledge'
    BY <1>a, <1>b, <1>c, <1>12, <2>2 DEF PC, Value, Check
  <2>6. CountIs(w, r)'
    BY <1>a, <1>b, <1>c, <1>12, <2>2 DEF Check
  <2>7. FreedAre(r)'
    BY <1>a, <1>b, <1>c, <1>12 DEF FreedAre, Released, Check
  <2> QED
    BY <2>3, <2>4, <2>5, <2>6, <2>7
<1> QED
  BY <1>d, <1>1, <1>2, <1>3, <1>4, <1>5, <1>6, <1>7, <1>8, <1>9, <1>10, <1>11,
     <1>12
     DEF Next, Writing, Reading

\* The empty queue of queue_init, before any thread has started.
LEMMA InitInv ==
    ASSUME NEW w, NEW r, Writers = {w}, Readers = {r}, Init
    PROVE  Inv(w, r)
  BY QueueAssumption
     DEF Init, ThreadsInit, Threads, Inv, Types, Places, WriterKnows,
         ReaderKnows, CountIs, LinkedInOrder, ListIs, FreedAre, Linked,
         Unlinked, Released, PC, Value, NULL

\* The invariant holds in every behaviour.
LEMMA Invariance ==
    ASSUME NEW w, NEW r, Writers = {w}, Readers = {r}
    PROVE  Spec => []Inv(w, r)
  BY InitInv, NextInv, PTL DEF Spec

-----------------------------------------------------------------------------
(* The items                                                               *)

\* The numbers from f up to, but not including, l, in order.
Interval(f, l) == [k \in 1..(l - f) |-> f + k - 1]

\* Intervals as sequences: the first element, the last, the rest, the length.
LEMMA IntervalCons ==
    ASSUME NEW f \in Nat, NEW l \in Nat, f < l
    PROVE  Interval(f, l) = <<f>> \o Interval(f + 1, l)
  BY DEF Interval

LEMMA IntervalAppend ==
    ASSUME NEW f \in Nat, NEW l \in Nat, f <= l
    PROVE  Interval(f, l + 1) = Append(Interval(f, l), l)
  BY DEF Interval

LEMMA IntervalTail ==
    ASSUME NEW f \in Nat, NEW l \in Nat, f < l
    PROVE  /\ Head(Interval(f, l)) = f
           /\ Tail(Interval(f, l)) = Interval(f + 1, l)
  BY DEF Interval

LEMMA IntervalFacts ==
    ASSUME NEW f \in Nat, NEW l \in Nat, f <= l
    PROVE  /\ Interval(f, l) \in Seq(Nat)
           /\ Len(Interval(f, l)) = l - f
           /\ f = l => Interval(f, l) = <<>>
           /\ f < l => Interval(f, l) # <<>>
           /\ \A k \in 1..Len(Interval(f, l)) : Interval(f, l)[k] = f + k - 1
  BY DEF Interval

\* Every set of natural numbers that is not empty has a least element.
LEMMA LeastElement ==
    ASSUME NEW T, T \subseteq Nat, T # {}
    PROVE  \E x \in T : \A y \in T : x <= y
<1> DEFINE R == OpToRel(<, Nat)
<1>1. IsWellFoundedOn(R, Nat)
  BY NatLessThanWellFounded
<1>2. \A x, y \in Nat : x < y => <<x, y>> \in R
  BY DEF OpToRel
<1> HIDE DEF R
<1>3. \E x \in T : \A y \in T : ~ (<<y, x>> \in R)
  BY <1>1, WFMin
<1>4. \A x, y \in T : ~ (<<y, x>> \in R) => x <= y
  BY <1>2
<1> QED
  BY <1>3, <1>4

\* One step of the recursion that defines items.
FromStep(v) == [n \in Value \cup {NULL} |->
    IF n = NULL THEN <<>> ELSE <<n>> \o v[next[n]]]

From == CHOOSE v : v = FromStep(v)

\* Following next ends, at the first node from n on that points to none: the
\* recursion has a solution.
LEMMA FromIsDefined ==
    ASSUME Types, LinkedInOrder
    PROVE  From = FromStep(From)
<1> DEFINE Ends(n) == {m \in Value : n <= m /\ next[m] = NULL}
           End(n)  == CHOOSE m \in Ends(n) : \A x \in Ends(n) : m <= x
           v == [n \in Value \cup {NULL} |->
                    IF n = NULL THEN <<>> ELSE Interval(n, End(n) + 1)]
<1>1. INT_MAX \in Value /\ next[INT_MAX] = NULL /\ Value \subseteq Nat
      /\ NULL \notin Value
  BY QueueAssumption DEF Types, LinkedInOrder, Value, NULL
<1>2. ASSUME NEW n \in Value
      PROVE  End(n) \in Ends(n) /\ \A x \in Ends(n) : End(n) <= x
  <2>1. INT_MAX \in Ends(n) /\ Ends(n) \subseteq Nat
    BY <1>1, QueueAssumption DEF Value
  <2> HIDE DEF Ends
  <2>2. \E m \in Ends(n) : \A x \in Ends(n) : m <= x
    BY <2>1, LeastElement
  <2> QED
    BY <2>2
<1>3. ASSUME NEW n \in Value, next[n] = NULL
      PROVE  End(n) = n
  <2>1. n \in Ends(n)
    BY <1>3, QueueAssumption DEF Value
  <2>2. End(n) \in Value /\ n <= End(n)
    BY <1>2
  <2>3. End(n) <= n
    BY <1>2, <2>1
  <2> HIDE DEF End
  <2> QED
    BY <2>2, <2>3, QueueAssumption DEF Value
<1>4. ASSUME NEW n \in Value, next[n] # NULL
      PROVE  /\ next[n] = n + 1 /\ n + 1 \in Value
             /\ End(n + 1) = End(n) /\ End(n) \in Nat /\ n < End(n)
  <2>1. next[n] = n + 1 /\ n + 1 \in Value
    BY <1>4 DEF Types, LinkedInOrder
  <2>2. Ends(n + 1) = Ends(n)
    <3> SUFFICES ASSUME NEW m \in Value
                 PROVE  m \in Ends(n + 1) <=> m \in Ends(n)
      OBVIOUS
    <3> QED
      BY <1>4, QueueAssumption DEF Value
  <2>3. End(n + 1) = End(n)
    BY <2>2
  <2>4. End(n) \in Value /\ n <= End(n) /\ next[End(n)] = NULL
    BY <1>2
  <2> HIDE DEF End
  <2> QED
    BY <1>4, <2>1, <2>3, <2>4, QueueAssumption DEF Value
<1>5. v = FromStep(v)
  <2> HIDE DEF End
  <2>1. v[NULL] = <<>>
    BY <1>1
  <2>2. ASSUME NEW n \in Value PROVE v[n] = <<n>> \o v[next[n]]
    <3>1. v[n] = Interval(n, End(n) + 1)
      BY <1>1, <2>2
    <3>2. CASE next[n] = NULL
      BY <1>1, <1>3, <2>1, <3>1, <3>2 DEF Interval
    <3>3. CASE next[n] # NULL
      <4>1. v[n + 1] = Interval(n + 1, End(n) + 1)
        BY <1>1, <1>4, <3>3
      <4> QED
        BY <1>1, <1>4, <3>1, <3>3, <4>1, IntervalCons
    <3> QED
      BY <3>2, <3>3
  <2>3. ASSUME NEW n \in Value \cup {NULL} PROVE v[n] = FromStep(v)[n]
    BY <1>1, <2>1, <2>2 DEF FromStep
  <2> QED
    BY <2>3 DEF FromStep
<1> HIDE DEF v
<1> QED
  BY <1>5 DEF From

\* The list from the node f to the end is the interval from f to l: there is
\* no last node of the list from which it is not.
LEMMA ListIsInterval ==
    ASSUME Types, LinkedInOrder, NEW f \in Nat, NEW l \in Nat,
           f <= l, l <= INT_MAX, ListIs(f, l)
    PROVE  items = Interval(f, l)
<1>1. items = From[first]
  BY DEF items, From, FromStep
<1>2. /\ From[NULL] = <<>>
      /\ \A n \in Value : From[n] = <<n>> \o From[next[n]]
  <2>1. From = FromStep(From) /\ NULL \notin Value
    BY FromIsDefined, QueueAssumption DEF Value, NULL
  <2>2. ASSUME NEW n \in Value \cup {NULL} PROVE FromStep(From)[n] = From[n]
    BY <2>1
  <2> QED
    BY <2>1, <2>2 DEF FromStep
<1> DEFINE Wrong == {d \in 1..(l - f) : From[l - d] # Interval(l - d, l)}
<1>3. ASSUME NEW d \in Wrong, \A e \in Wrong : d <= e PROVE FALSE
  <2>1. PICK n \in Nat : n = l - d /\ f <= n /\ n < l /\ n \in Value
    BY QueueAssumption DEF Value
  <2>2. From[n] = <<n>> \o From[next[n]]
    BY <1>2, <2>1
  <2>3. CASE n + 1 = l
    <3>1. next[n] = NULL
      BY <2>1, <2>3 DEF ListIs
    <3>2. Interval(n, l) = <<n>>
      BY <2>1, <2>3 DEF Interval
    <3> QED
      BY <1>2, <2>1, <2>2, <3>1, <3>2
  <2>4. CASE n + 1 < l
    <3>1. next[n] = n + 1
      BY <2>1, <2>4 DEF ListIs
    <3>2. d - 1 \in 1..(l - f) /\ d - 1 \notin Wrong /\ l - (d - 1) = n + 1
      BY <1>3, <2>1, <2>4
    <3>3. From[n + 1] = Interval(n + 1, l)
      BY <3>2
    <3> QED
      BY <2>1, <2>2, <3>1, <3>3, IntervalCons
  <2> QED
    BY <2>1, <2>3, <2>4
<1>4. Wrong = {}
  <2>1. Wrong \subseteq Nat
    OBVIOUS
  <2> HIDE DEF Wrong
  <2> QED
    BY <1>3, <2>1, LeastElement
<1>5. CASE f = l
  BY <1>1, <1>2, <1>5, IntervalFacts DEF ListIs
<1>6. CASE f < l
  <2>1. l - f \in 1..(l - f) /\ l - (l - f) = f
    BY <1>6
  <2>2. From[f] = Interval(f, l)
    BY <1>4, <2>1
  <2> QED
    BY <1>1, <1>6, <2>2 DEF ListIs
<1> QED
  BY <1>5, <1>6

\* What the queue holds: the numbers linked and not yet unlinked.
ItemsAre(w, r) ==
    /\ items = Interval(Unlinked(r), Linked(w))
    /\ Unlinked(r) \in Nat /\ Linked(w) \in Nat
    /\ Unlinked(r) <= Linked(w) /\ Linked(w) <= INT_MAX

\* The invariant determines what the queue holds.
LEMMA InvItems ==
    ASSUME NEW w, NEW r, Writers = {w}, Readers = {r}, Inv(w, r)
    PROVE  ItemsAre(w, r)
<1>1. /\ Unlinked(r) \in Nat /\ Linked(w) \in Nat
      /\ Unlinked(r) <= Linked(w) /\ Linked(w) <= INT_MAX
  BY QueueAssumption
     DEF Inv, Types, Places, WriterKnows, CountIs, Unlinked, Linked, Value
<1> QED
  BY <1>1, ListIsInterval DEF Inv, ItemsAre

-----------------------------------------------------------------------------
(* What the programs assert, and the nodes                                 *)

\* For one writer and one reader, and in each discipline: the asserted bounds
\* of count hold, and a reader that saw a value outside the lock still finds a
\* node under it.
THEOREM AssertionsNeverFail ==
    ASSUME NEW w, NEW r, Writers = {w}, Readers = {r}
    PROVE  Spec => []AssertionsHold
<1>1. Inv(w, r) => AssertionsHold
  BY QueueAssumption
     DEF Inv, Types, Places, WriterKnows, ReaderKnows, CountIs, ListIs,
         Linked, Unlinked, Value, NULL, AssertionsHold
<1> QED
  BY <1>1, Invariance, PTL

\* The check of queue-threads.c never fails.
THEOREM ReaderSeesNoError ==
    ASSUME NEW w, NEW r, Writers = {w}, Readers = {r}
    PROVE  Spec => []GetsExpected
<1>1. Inv(w, r) => GetsExpected
  BY DEF Inv, ReaderKnows, GetsExpected
<1> QED
  BY <1>1, Invariance, PTL

\* A store goes to the last node of the list or to the new node, which are
\* not freed.
LEMMA StoresAreLive ==
    ASSUME NEW w, NEW r, Writers = {w}, Readers = {r},
           Inv(w, r), [Next]_vars
    PROVE  \A n \in freed : next'[n] = next[n]
<1> USE DEF vars, queueVars, listVars
<1>1. PICK f, l : f = Unlinked(r) /\ l = Linked(w)
  OBVIOUS
<1>2. /\ f \in Nat /\ l \in Nat /\ f <= l /\ l <= INT_MAX
      /\ Types /\ LinkedInOrder /\ ListIs(f, l)
      /\ \A n \in freed : n \in Value /\ n < f
      /\ Places(w, r) /\ WriterKnows(w) /\ l = Linked(w)
  BY <1>1, InvItems, QueueAssumption
     DEF Inv, ItemsAre, FreedAre, Released, Unlinked, Value, Places, Types
<1>3. ASSUME l < INT_MAX, AppendNode(l)
      PROVE  \A n \in freed : next'[n] = next[n]
  BY <1>2, <1>3, AppendExtends
<1>4. CASE AddUnderLock(w) \/ AddCounted(w) \/ Link(w)
  <2>1. UNCHANGED next \/ (l < INT_MAX /\ AppendNode(l))
    BY <1>2, <1>4, QueueAssumption
       DEF AddUnderLock, AddCounted, Link, Refused, MayAdd, Goto, Linked,
           Places, WriterKnows
  <2> QED
    BY <1>3, <2>1
<1>5. CASE AddTests(w) \/ AddCounts(w) \/ Reading(r)
  BY <1>5
     DEF AddTests, AddCounts, Reading, GetUnderLock, UnlinkCounted, TakeValue,
         GetTests, Unlink, GetCounts, RemoveFirst, Refused
<1>6. CASE UNCHANGED vars
  BY <1>6
<1> QED
  BY <1>4, <1>5, <1>6 DEF Next, Writing

\* The first half of NodesAreLive: the nodes of the list and the one a reader
\* still has to read.
NodesInUseAreLive ==
    /\ \A k \in 1..Len(items) : items[k] \notin freed
    /\ \A r \in Readers :
          pc[r] \in {"taken", "unlinked"} => tmp[r] \notin freed

\* Nobody reads, follows or stores into a node that has been freed, although
\* the reader frees it outside the lock and last may still point to it.
THEOREM NodesStayLive ==
    ASSUME NEW w, NEW r, Writers = {w}, Readers = {r}
    PROVE  Spec => NodesAreLive
<1>1. Inv(w, r) => NodesInUseAreLive
  <2> SUFFICES ASSUME Inv(w, r) PROVE NodesInUseAreLive
    OBVIOUS
  <2>1. PICK f, l : f = Unlinked(r) /\ l = Linked(w)
    OBVIOUS
  <2>2. /\ f \in Nat /\ l \in Nat /\ f <= l /\ items = Interval(f, l)
        /\ expected[r] \in Nat
    BY <2>1, InvItems DEF ItemsAre, Inv, Types
  <2>3. \A k \in 1..Len(items) : items[k] \notin freed
    <3>1. /\ Len(items) \in Nat
          /\ \A k \in 1..Len(items) : items[k] = f + k - 1
      <4>1. /\ Len(Interval(f, l)) = l - f
            /\ \A k \in 1..Len(Interval(f, l)) : Interval(f, l)[k] = f + k - 1
        BY <2>2, IntervalFacts
      <4> QED
        BY <2>2, <4>1
    <3>2. freed \subseteq 0..(f - 1)
      BY <2>1, <2>2 DEF Inv, FreedAre, Released, Unlinked
    <3> QED
      BY <2>2, <3>1, <3>2
  <2>4. pc[r] \in {"taken", "unlinked"} => tmp[r] \notin freed
    BY <2>2 DEF Inv, FreedAre, Released, ReaderKnows
  <2> QED
    BY <2>3, <2>4 DEF NodesInUseAreLive
<1>2. Inv(w, r) /\ [Next]_vars => [\A n \in freed : next'[n] = next[n]]_vars
  BY StoresAreLive
<1>3. Spec => []NodesInUseAreLive
  BY <1>1, Invariance, PTL
<1>4. Spec => [][\A n \in freed : next'[n] = next[n]]_vars
  BY <1>2, Invariance, PTL DEF Spec
<1> QED
  BY <1>3, <1>4, PTL DEF NodesAreLive, NodesInUseAreLive
-----------------------------------------------------------------------------
(* The refinement                                                          *)

\* A step that links the next number and unlinks nothing is an Add.
LEMMA LinkAdds ==
    ASSUME NEW w, NEW r, Writers = {w}, Readers = {r},
           Inv(w, r), ItemsAre(w, r), ItemsAre(w, r)',
           AddUnderLock(w) \/ AddCounted(w) \/ Link(w), ~UNCHANGED vars
    PROVE  TheQueue!Add(w)
<1> USE QueueAssumption DEF Goto, NULL
<1>1. /\ w \in Writers /\ r \in Readers /\ w # r
      /\ w \in Threads /\ r \in Threads
      /\ pc \in [Threads -> PC]
      /\ i \in [Writers -> Value] /\ i[w] \in Nat
      /\ expected \in [Readers -> Nat] /\ expected[r] \in Nat
      /\ val \in [Readers -> Value \cup {NULL}]
      /\ tmp \in [Readers -> Value \cup {NULL}]
  BY Setting DEF Inv
<1>2. PICK f, l : f = Unlinked(r) /\ l = Linked(w)
  OBVIOUS
<1>3. f \in Nat /\ l \in Nat /\ f <= l /\ items = Interval(f, l)
  BY <1>2 DEF ItemsAre
<1>4. /\ l < INT_MAX /\ l - f < Capacity
      /\ Unlinked(r)' = f /\ Linked(w)' = l + 1
      /\ UNCHANGED <<tmp, expected, val>> /\ pc'[r] = pc[r]
  BY <1>1, <1>2, <1>3
     DEF AddUnderLock, AddCounted, Link, Refused, MayAdd, Added, Inv, Types,
         Places, WriterKnows, CountIs, Unlinked, Linked, Value
<1>5. items' = Append(items, l) /\ Len(items) = l - f
  <2>1. items' = Interval(f, l + 1)
    BY <1>4 DEF ItemsAre
  <2> QED
    BY <1>3, <2>1, IntervalAppend, IntervalFacts
<1>6. /\ iLinked = [u \in Writers |-> l]
      /\ iLinked' = [u \in Writers |-> l + 1]
  BY <1>2, <1>4 DEF iLinked, Linked
<1>7. valTaken' = valTaken
  BY <1>4 DEF valTaken
<1> QED
  BY <1>1, <1>4, <1>5, <1>6, <1>7 DEF TheQueue!Add

\* A step that unlinks the first node and links nothing is a Get.
LEMMA UnlinkGets ==
    ASSUME NEW w, NEW r, Writers = {w}, Readers = {r},
           Inv(w, r), ItemsAre(w, r), ItemsAre(w, r)',
           GetUnderLock(r) \/ UnlinkCounted(r) \/ Unlink(r), ~UNCHANGED vars
    PROVE  TheQueue!Get(r)
<1> USE QueueAssumption DEF Goto, NULL
<1>1. /\ w \in Writers /\ r \in Readers /\ w # r
      /\ w \in Threads /\ r \in Threads
      /\ pc \in [Threads -> PC]
      /\ i \in [Writers -> Value] /\ i[w] \in Nat
      /\ expected \in [Readers -> Nat] /\ expected[r] \in Nat
      /\ val \in [Readers -> Value \cup {NULL}]
      /\ tmp \in [Readers -> Value \cup {NULL}]
  BY Setting DEF Inv
<1>2. PICK f, l : f = Unlinked(r) /\ l = Linked(w)
  OBVIOUS
<1>3. f \in Nat /\ l \in Nat /\ f <= l /\ items = Interval(f, l)
  BY <1>2 DEF ItemsAre
<1>4. pc[r] \in {"loop", "value"} /\ val[r] = NULL /\ f = expected[r]
  BY <1>2 DEF GetUnderLock, UnlinkCounted, Unlink, Refused, Inv, ReaderKnows,
              Unlinked
<1>5. f < l
  BY <1>1, <1>2, <1>3, <1>4
     DEF GetUnderLock, UnlinkCounted, Unlink, Refused, Inv, Places,
         ReaderKnows, CountIs, Unlinked, Linked
<1>6. first = f
  BY <1>2, <1>3, <1>5 DEF Inv, ListIs
<1>7. /\ Unlinked(r)' = f + 1 /\ Linked(w)' = l
      /\ UNCHANGED <<i, expected>> /\ pc'[w] = pc[w]
      /\ \/ pc'[r] = "got" /\ val'[r] = f
         \/ pc'[r] \in {"taken", "unlinked"} /\ tmp'[r] = f
  BY <1>1, <1>2, <1>4, <1>6
     DEF GetUnderLock, UnlinkCounted, Unlink, Fetched, Refused, Unlinked,
         Linked
<1>8. items # <<>> /\ items' = Tail(items) /\ Head(items) = f
  <2>1. items' = Interval(f + 1, l)
    BY <1>7 DEF ItemsAre
  <2> QED
    BY <1>3, <1>5, <2>1, IntervalTail, IntervalFacts
<1>9. iLinked' = iLinked
  BY <1>7 DEF iLinked
<1>10. /\ valTaken = [q \in Readers |-> NULL]
       /\ valTaken' = [q \in Readers |-> f]
  BY <1>4, <1>7 DEF valTaken
<1> QED
  BY <1>1, <1>7, <1>8, <1>9, <1>10 DEF TheQueue!Get

\* The reader's comparison is the one of the ideal reader.
LEMMA CheckChecks ==
    ASSUME NEW w, NEW r, Writers = {w}, Readers = {r},
           Inv(w, r), ItemsAre(w, r), ItemsAre(w, r)',
           Check(r), UNCHANGED queueVars
    PROVE  TheQueue!Check(r)
<1> USE QueueAssumption DEF Goto, NULL
<1>1. /\ w \in Writers /\ r \in Readers /\ w # r
      /\ w \in Threads /\ r \in Threads
      /\ pc \in [Threads -> PC]
      /\ i \in [Writers -> Value] /\ i[w] \in Nat
      /\ expected \in [Readers -> Nat] /\ expected[r] \in Nat
      /\ val \in [Readers -> Value \cup {NULL}]
      /\ tmp \in [Readers -> Value \cup {NULL}]
  BY Setting DEF Inv
<1>2. /\ pc[r] = "got" /\ pc'[r] = "loop" /\ pc'[w] = pc[w]
      /\ val[r] = expected[r] /\ val'[r] = NULL
      /\ expected' = [expected EXCEPT ![r] = val[r] + 1]
      /\ i' = i
  BY <1>1 DEF Check, Inv, ReaderKnows
<1>3. Unlinked(r)' = Unlinked(r) /\ Linked(w)' = Linked(w)
  BY <1>1, <1>2 DEF Unlinked, Linked
<1>4. items' = items
  BY <1>3 DEF ItemsAre
<1>5. iLinked' = iLinked
  BY <1>2 DEF iLinked
<1>6. /\ valTaken = [q \in Readers |-> expected[r]]
      /\ valTaken' = [q \in Readers |-> NULL]
  BY <1>2 DEF valTaken
<1>7. valTaken[r] = val[r] /\ valTaken[r] # -1
  BY <1>1, <1>2, <1>6
<1>8. valTaken' = [valTaken EXCEPT ![r] = -1]
  BY <1>1, <1>6
<1> QED
  BY <1>2, <1>4, <1>5, <1>7, <1>8 DEF TheQueue!Check

\* Tests, counting and freeing change nothing that the ideal queue shows.
LEMMA OthersStutter ==
    ASSUME NEW w, NEW r, Writers = {w}, Readers = {r},
           Inv(w, r), ItemsAre(w, r), ItemsAre(w, r)',
           \/ AddTests(w) \/ AddCounts(w)
           \/ TakeValue(r) \/ GetTests(r) \/ GetCounts(r)
           \/ UNCHANGED vars
    PROVE  UNCHANGED <<items, iLinked, expected, valTaken>>
<1> USE QueueAssumption
    DEF Goto, NULL, vars, queueVars, threadVars, listVars, Refused
<1>1. /\ w \in Writers /\ r \in Readers /\ w # r
      /\ w \in Threads /\ r \in Threads
      /\ pc \in [Threads -> PC]
      /\ i \in [Writers -> Value] /\ i[w] \in Nat
      /\ expected \in [Readers -> Nat] /\ expected[r] \in Nat
      /\ val \in [Readers -> Value \cup {NULL}]
      /\ tmp \in [Readers -> Value \cup {NULL}]
  BY Setting DEF Inv
<1>2. /\ UNCHANGED expected
      /\ Unlinked(r)' = Unlinked(r) /\ Linked(w)' = Linked(w)
      /\ valTaken'[r] = valTaken[r]
  BY <1>1
     DEF AddTests, AddCounts, Added, TakeValue, GetTests, GetCounts, Fetched,
         Unlinked, Linked, valTaken
<1>3. items' = items
  BY <1>2 DEF ItemsAre
<1>4. iLinked' = iLinked
  BY <1>2 DEF iLinked, Linked
<1>5. valTaken' = valTaken
  BY <1>2 DEF valTaken
<1> QED
  BY <1>2, <1>3, <1>4, <1>5

\* However late full and empty are noticed, and whatever is done outside the
\* lock, these queues are bounded FIFO queues: no value is lost, repeated or
\* overtaken, and never more than max_count are inside.
THEOREM MutexQueueIsBoundedQueue ==
    ASSUME NEW w, NEW r, Writers = {w}, Readers = {r}
    PROVE  Spec => ImplementsBoundedQueue
<1>1. Init => TheQueue!Init
  <2> SUFFICES ASSUME Init PROVE TheQueue!Init
    OBVIOUS
  <2>1. Unlinked(r) = 0 /\ Linked(w) = 0
    BY DEF Init, ThreadsInit, Threads, Unlinked, Linked
  <2>2. items = <<>>
    BY <2>1, InitInv, InvItems, IntervalFacts DEF ItemsAre
  <2> QED
    BY <2>2 DEF Init, ThreadsInit, Threads, TheQueue!Init, iLinked, valTaken
<1>2. Inv(w, r) /\ Inv(w, r)' /\ [Next]_vars
        => [TheQueue!Next]_(TheQueue!vars)
  <2>1. Inv(w, r) => ItemsAre(w, r)
    BY InvItems
  <2>2. (Inv(w, r) => ItemsAre(w, r))'
    BY <2>1, PTL
  <2> SUFFICES ASSUME Inv(w, r), ItemsAre(w, r), ItemsAre(w, r)', [Next]_vars
               PROVE  [TheQueue!Next]_(TheQueue!vars)
    BY <2>1, <2>2
  <2>3. ASSUME TheQueue!Add(w) \/ TheQueue!Get(r) \/ TheQueue!Check(r)
        PROVE  [TheQueue!Next]_(TheQueue!vars)
    BY <2>3 DEF TheQueue!Next
  <2>4. ASSUME UNCHANGED <<items, iLinked, expected, valTaken>>
        PROVE  [TheQueue!Next]_(TheQueue!vars)
    BY <2>4 DEF TheQueue!vars
  <2>5. CASE UNCHANGED vars
    BY <2>4, <2>5, OthersStutter
  <2>6. CASE Writing(w) /\ ~UNCHANGED vars
    BY <2>3, <2>4, <2>6, LinkAdds, OthersStutter DEF Writing
  <2>7. CASE Reading(r) /\ ~UNCHANGED vars
    BY <2>3, <2>4, <2>7, UnlinkGets, CheckChecks, OthersStutter DEF Reading
  <2> QED
    BY <2>5, <2>6, <2>7 DEF Next
<1> QED
  BY <1>1, <1>2, Invariance, PTL
     DEF Spec, ImplementsBoundedQueue, TheQueue!Spec
=============================================================================
