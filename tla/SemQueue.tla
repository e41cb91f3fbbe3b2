------------------------------- MODULE SemQueue -------------------------------
(***************************************************************************)
(* The queue with three semaphores (3-grade/2_2/g/withoutsleep/old):       *)
(* sem_add counts room, sem_get counts values, sem_modify guards the list. *)
(* Between sem_wait and sem_post of sem_modify nobody else looks at the    *)
(* list; the assertions of queue_add and queue_get read the count outside. *)
(***************************************************************************)
EXTENDS QueueThreads

VARIABLES
    items,      \* the list: q->first, ..., q->last
    count,      \* q->count, an atomic_int
    sem_add,
    sem_get,
    sem_modify,
    tmp         \* per reader: the value of the node it has taken off the list

semaphores == <<sem_add, sem_get, sem_modify>>
queueVars  == <<items, count, semaphores, tmp>>
vars == <<queueVars, threadVars>>

PC == {"loop", "got",
       "addEnter", "adding", "added",       \* queue_add
       "getEnter", "getting", "taken"}      \* queue_get

TypeOK ==
    /\ ThreadsTypeOK
    /\ pc \in [Threads -> PC]
    /\ items \in Seq(Value)
    /\ count \in 0..Capacity
    /\ sem_add \in 0..Capacity
    /\ sem_get \in 0..Capacity
    /\ sem_modify \in {0, 1}
    /\ tmp \in [Readers -> Value]

\* Mutant: sem_add starts with room for one value too many.
InitOneTooMany ==
    /\ ThreadsInit
    /\ items = <<>>
    /\ count = 0
    /\ sem_add = Capacity + 1
    /\ sem_get = 0
    /\ sem_modify = 1
    /\ tmp = [r \in Readers |-> 0]

\* queue_init: sem_get is waited for until it is 0.
Init ==
    /\ ThreadsInit
    /\ items = <<>>
    /\ count = 0
    /\ sem_add = Capacity
    /\ sem_get = 0
    /\ sem_modify = 1
    /\ tmp = [r \in Readers |-> 0]

-----------------------------------------------------------------------------
(* queue_add                                                               *)

AddWaitsForRoom(w) ==
    /\ Goto(w, "loop", "addEnter")
    /\ MayAdd(w)
    /\ sem_add > 0
    /\ sem_add' = sem_add - 1
    /\ UNCHANGED <<items, count, sem_get, sem_modify, tmp, i, expected, val>>

\* Mutant: the list is not waited for.
AddRushesIn(w) ==
    /\ Goto(w, "addEnter", "adding")
    /\ sem_modify' = 0
    /\ UNCHANGED <<items, count, sem_add, sem_get, tmp, i, expected, val>>

AddEnters(w) ==
    /\ Goto(w, "addEnter", "adding")
    /\ sem_modify = 1
    /\ sem_modify' = 0
    /\ UNCHANGED <<items, count, sem_add, sem_get, tmp, i, expected, val>>

\* Mutant: the new node becomes the first.
LinkInFront(w) ==
    /\ Goto(w, "adding", "added")
    /\ items' = <<i[w]>> \o items
    /\ count' = count + 1
    /\ sem_modify' = 1
    /\ UNCHANGED <<sem_add, sem_get, tmp, i, expected, val>>

Link(w) ==
    /\ Goto(w, "adding", "added")
    /\ items' = Append(items, i[w])
    /\ count' = count + 1
    /\ sem_modify' = 1
    /\ UNCHANGED <<sem_add, sem_get, tmp, i, expected, val>>

AddPosts(w) ==
    /\ Goto(w, "added", "loop")
    /\ sem_get' = sem_get + 1
    /\ Added(w)
    /\ UNCHANGED <<items, count, sem_add, sem_modify, tmp, expected, val>>

-----------------------------------------------------------------------------
(* queue_get                                                               *)

GetWaitsForValue(r) ==
    /\ Goto(r, "loop", "getEnter")
    /\ sem_get > 0
    /\ sem_get' = sem_get - 1
    /\ UNCHANGED <<items, count, sem_add, sem_modify, tmp, i, expected, val>>

GetEnters(r) ==
    /\ Goto(r, "getEnter", "getting")
    /\ sem_modify = 1
    /\ sem_modify' = 0
    /\ UNCHANGED <<items, count, sem_add, sem_get, tmp, i, expected, val>>

Unlink(r) ==
    /\ Goto(r, "getting", "taken")
    /\ tmp' = [tmp EXCEPT ![r] = Head(items)]
    /\ items' = Tail(items)
    /\ count' = count - 1
    /\ sem_modify' = 1
    /\ UNCHANGED <<sem_add, sem_get, i, expected, val>>

\* Mutant: the post is forgotten.
GetForgetsPost(r) ==
    /\ Goto(r, "taken", "got")
    /\ Fetched(r, tmp[r])
    /\ UNCHANGED <<queueVars, i, expected>>

GetPosts(r) ==
    /\ Goto(r, "taken", "got")
    /\ sem_add' = sem_add + 1
    /\ Fetched(r, tmp[r])
    /\ UNCHANGED <<items, count, sem_get, sem_modify, tmp, i, expected>>

-----------------------------------------------------------------------------
Writing(w) == AddWaitsForRoom(w) \/ AddEnters(w) \/ Link(w) \/ AddPosts(w)
Reading(r) ==
    \/ GetWaitsForValue(r) \/ GetEnters(r) \/ Unlink(r) \/ GetPosts(r)
    \/ Check(r) /\ UNCHANGED queueVars

\* Every writer has reached INT_MAX and the readers wait for ever.
Finished ==
    /\ \A w \in Writers : pc[w] = "loop" /\ ~MayAdd(w)
    /\ \A r \in Readers : pc[r] = "loop"
    /\ items = <<>>
    /\ UNCHANGED vars

Next ==
    \/ \E w \in Writers : Writing(w)
    \/ \E r \in Readers : Reading(r)
    \/ Finished

Spec == Init /\ [][Next]_vars

\* Every thread that can run does, and sem_post wakes a thread that waits.
Fairness ==
    /\ \A w \in Writers : WF_vars(Writing(w))
    /\ \A r \in Readers : WF_vars(Reading(r))
FairSpec == Spec /\ Fairness

-----------------------------------------------------------------------------
(* Properties.                                                             *)

\* Only one thread at a time works on the list, which is what lets Link and
\* Unlink be one action each.
ListIsGuarded ==
    /\ \A t, u \in Inside({"adding", "getting"}) : t = u
    /\ sem_modify = 1 <=> Inside({"adding", "getting"}) = {}

\* The semaphores tell the truth about the list, whoever is on the way: room
\* that is counted, promised or used makes up the capacity, and so do values
\* that are counted or promised and those in the list.
SemaphoresMatchList ==
    /\ sem_add + Cardinality(Inside({"addEnter", "adding", "taken"}))
         + Len(items) = Capacity
    /\ sem_get + Cardinality(Inside({"added", "getEnter", "getting"}))
         = Len(items)

\* assert(q->count <= q->max_count), assert(q->count >= 0) and the use of
\* q->first without a test: none of them can go wrong, although the first two
\* read the count without a lock.
AssertionsHold ==
    /\ count <= Capacity
    /\ count >= 0
    /\ \A r \in Readers : pc[r] = "getting" => items # <<>>

\* The queue is a bounded FIFO queue.  A value is in from the moment it is
\* linked, and taken from the moment it is unlinked.
iLinked   == [w \in Writers |-> IF pc[w] = "added" THEN i[w] + 1 ELSE i[w]]
valTaken  == [r \in Readers |-> IF pc[r] = "taken" THEN tmp[r] ELSE val[r]]
TheQueue == INSTANCE BoundedQueue WITH i <- iLinked, val <- valTaken
ImplementsBoundedQueue == TheQueue!Spec

\* Every value gets through: no thread waits for a semaphore for ever while
\* there is work for it.
EverythingPasses == <>(items = <<>> /\ \A w \in Writers : i[w] = INT_MAX)
=============================================================================
