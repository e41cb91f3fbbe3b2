------------------------------ MODULE MutexQueue ------------------------------
(***************************************************************************)
(* The queues of 3-grade/2_2/a, /d and /e whose list is guarded by one     *)
(* mutex or one pthread_spinlock_t.  They differ in what they do under it, *)
(* which `discipline` names:                                               *)
(*   "all"      everything (e/*/old, {a,d}/pthreads_spin_queue_combined.c) *)
(*   "count"    the list and the count; a node is made before and freed    *)
(*              after (e/withoutsleep/new, a/test_spin_queue.c)            *)
(*   "list"     the list; count, an atomic_int, is tested before and       *)
(*              changed after (e/withsleep/new, d/test_spin_queue.c)       *)
(* What is done under the lock is one action, and so is each access to     *)
(* count outside it.  A thread that follows NULL ends the program.         *)
(*                                                                         *)
(* Nodes are named by the value in them, which is unique with one writer.  *)
(***************************************************************************)
EXTENDS QueueThreads

NULL == -1

VARIABLES
    discipline,
    first, last, next,  \* q->first, q->last, per node node->next
    freed,              \* the nodes that have been freed
    count,              \* q->count
    tmp                 \* per reader: the node it has taken off the list

listVars  == <<first, last, next>>
queueVars == <<discipline, listVars, freed, count, tmp>>
vars == <<queueVars, threadVars>>

\* pc: "loop" and "got" as in QueueThreads; queue_add goes on through "room" and
\* "linked", queue_get through "value" and "taken" or through "unlinked", or
\* ends in "crashed".

\* queue_init
Init ==
    /\ ThreadsInit
    /\ discipline \in {"all", "count", "list"}
    /\ first = NULL
    /\ last = NULL
    /\ next = [n \in Value |-> NULL]
    /\ freed = {}
    /\ count = 0
    /\ tmp = [r \in Readers |-> NULL]

\* queue_add or queue_get returns 0 and changes nothing.
Refused(t) == pc[t] = "loop" /\ UNCHANGED vars

-----------------------------------------------------------------------------
(* The list                                                                *)

\* Mutants: last says whether the list is empty, but it outlives its node; the
\* new node becomes the first.
AppendAfterLast(n) ==
    /\ first' = IF first = NULL THEN n ELSE first
    /\ next' = IF last = NULL THEN [next EXCEPT ![n] = NULL]
                              ELSE [next EXCEPT ![n] = NULL, ![last] = n]
    /\ last' = n

AppendInFront(n) ==
    /\ first' = n
    /\ next' = [next EXCEPT ![n] = first]
    /\ last' = IF first = NULL THEN n ELSE last

\* The new node n becomes the last one.
AppendNode(n) ==
    /\ first' = IF first = NULL THEN n ELSE first
    /\ next' = IF first = NULL THEN [next EXCEPT ![n] = NULL]
                               ELSE [next EXCEPT ![n] = NULL, ![last] = n]
    /\ last' = n

\* q->first = q->first->next
RemoveFirst ==
    /\ first' = next[first]
    /\ UNCHANGED <<next, last>>

Free(n) == freed' = freed \cup {n}

-----------------------------------------------------------------------------
(* Everything under the lock                                               *)

AddUnderLock(w) ==
    /\ discipline = "all"
    /\ MayAdd(w)
    /\ IF count = Capacity
       THEN Refused(w)
       ELSE /\ Goto(w, "loop", "loop")
            /\ AppendNode(i[w])
            /\ count' = count + 1
            /\ Added(w)
            /\ UNCHANGED <<discipline, freed, tmp, expected, val>>

GetUnderLock(r) ==
    /\ discipline = "all"
    /\ IF count = 0
       THEN Refused(r)
       ELSE /\ Goto(r, "loop", "got")
            /\ tmp' = [tmp EXCEPT ![r] = first]
            /\ Fetched(r, first)
            /\ RemoveFirst
            /\ Free(first)
            /\ count' = count - 1
            /\ UNCHANGED <<discipline, i, expected>>

-----------------------------------------------------------------------------
(* The list and the count under the lock                                   *)

\* A refused node, made before the lock, is never freed.
AddCounted(w) ==
    /\ discipline = "count"
    /\ MayAdd(w)
    /\ IF count = Capacity
       THEN Refused(w)
       ELSE /\ Goto(w, "loop", "loop")
            /\ AppendNode(i[w])
            /\ count' = count + 1
            /\ Added(w)
            /\ UNCHANGED <<discipline, freed, tmp, expected, val>>

UnlinkCounted(r) ==
    /\ discipline = "count"
    /\ IF count = 0
       THEN Refused(r)
       ELSE /\ Goto(r, "loop", "unlinked")
            /\ tmp' = [tmp EXCEPT ![r] = first]
            /\ RemoveFirst
            /\ count' = count - 1
            /\ UNCHANGED <<discipline, freed, i, expected, val>>

\* After the lock.
TakeValue(r) ==
    /\ Goto(r, "unlinked", "got")
    /\ Fetched(r, tmp[r])
    /\ Free(tmp[r])
    /\ UNCHANGED <<discipline, listVars, count, tmp, i, expected>>

-----------------------------------------------------------------------------
(* The list under the lock: queue_add                                      *)

AddTests(w) ==
    /\ discipline = "list"
    /\ MayAdd(w)
    /\ IF count = Capacity
       THEN Refused(w)
       ELSE /\ Goto(w, "loop", "room")
            /\ UNCHANGED <<queueVars, i, expected, val>>

Link(w) ==
    /\ Goto(w, "room", "linked")
    /\ AppendNode(i[w])
    /\ UNCHANGED <<discipline, freed, count, tmp, i, expected, val>>

AddCounts(w) ==
    /\ Goto(w, "linked", "loop")
    /\ count' = count + 1
    /\ Added(w)
    /\ UNCHANGED <<discipline, listVars, freed, tmp, expected, val>>

-----------------------------------------------------------------------------
(* The list under the lock: queue_get                                      *)

\* Mutants: it goes on without a test; the comparison is off by one.
GetTestsNothing(r) ==
    /\ discipline = "list"
    /\ Goto(r, "loop", "value")
    /\ UNCHANGED <<queueVars, i, expected, val>>

GetTestsEarly(r) ==
    /\ discipline = "list"
    /\ IF count <= 1
       THEN Refused(r)
       ELSE /\ Goto(r, "loop", "value")
            /\ UNCHANGED <<queueVars, i, expected, val>>

GetTests(r) ==
    /\ discipline = "list"
    /\ IF count = 0
       THEN Refused(r)
       ELSE /\ Goto(r, "loop", "value")
            /\ UNCHANGED <<queueVars, i, expected, val>>

Unlink(r) ==
    /\ IF first = NULL
       THEN /\ Goto(r, "value", "crashed")
            /\ UNCHANGED <<listVars, tmp>>
       ELSE /\ Goto(r, "value", "taken")
            /\ tmp' = [tmp EXCEPT ![r] = first]
            /\ RemoveFirst
    /\ UNCHANGED <<discipline, freed, count, i, expected, val>>

GetCounts(r) ==
    /\ Goto(r, "taken", "got")
    /\ Fetched(r, tmp[r])
    /\ Free(tmp[r])
    /\ count' = count - 1
    /\ UNCHANGED <<discipline, listVars, tmp, i, expected>>

-----------------------------------------------------------------------------
Writing(w) ==
    AddUnderLock(w) \/ AddCounted(w) \/ AddTests(w) \/ Link(w) \/ AddCounts(w)
Reading(r) ==
    \/ GetUnderLock(r) \/ UnlinkCounted(r) \/ TakeValue(r)
    \/ GetTests(r) \/ Unlink(r) \/ GetCounts(r)
    \/ Check(r) /\ UNCHANGED queueVars

Next ==
    /\ Inside({"crashed"}) = {}
    /\ \/ \E w \in Writers : Writing(w)
       \/ \E r \in Readers : Reading(r)

Spec == Init /\ [][Next]_vars

\* Every thread is scheduled, and a thread that holds the lock leaves it.
Fairness ==
    /\ \A w \in Writers : WF_vars(Writing(w))
    /\ \A r \in Readers : WF_vars(Reading(r))
FairSpec == Spec /\ Fairness

-----------------------------------------------------------------------------
(* Properties, for one writer and one reader as in the programs.           *)

\* The list: the nodes from q->first on.
items ==
    LET from[n \in Value \cup {NULL}] ==
            IF n = NULL THEN <<>> ELSE <<n>> \o from[next[n]]
    IN  from[first]

\* A decision taken before the lock is still right under it: the asserted
\* bounds of the count hold, and a reader that saw a value never follows NULL.
AssertionsHold ==
    /\ 0 <= count /\ count <= Capacity
    /\ \A r \in Readers : pc[r] = "value" => first # NULL

\* Nobody touches a node that has been freed: no node of the list is freed, nor
\* one that a thread still has to read, and no step stores into a freed node.
\* q->last outlives its node when the list becomes empty; it must not be
\* followed before a new node has become the last one.
NodesAreLive ==
    /\ [](/\ \A k \in 1..Len(items) : items[k] \notin freed
         /\ \A r \in Readers :
                pc[r] \in {"taken", "unlinked"} => tmp[r] \notin freed)
    /\ [][\A n \in freed : next'[n] = next[n]]_vars

\* The queue is a bounded FIFO queue, although full and empty may be decided on
\* an old count.  A value is in from Link on, and taken from Unlink on.
iLinked  == [w \in Writers |-> IF pc[w] = "linked" THEN i[w] + 1 ELSE i[w]]
valTaken == [r \in Readers |->
                IF pc[r] \in {"taken", "unlinked"} THEN tmp[r] ELSE val[r]]
TheQueue == INSTANCE BoundedQueue WITH i <- iLinked, val <- valTaken
ImplementsBoundedQueue == TheQueue!Spec

\* Every value gets through: neither thread polls a full or an empty queue for
\* ever.
EverythingPasses == <>(items = <<>> /\ \A w \in Writers : i[w] = INT_MAX)
=============================================================================
