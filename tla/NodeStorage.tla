----------------------------- MODULE NodeStorage -----------------------------
(***************************************************************************)
(* The linked list with a lock in every node that five programs share      *)
(* (second/4-grade/2_3/{rwlock,mutex,spinlock}.c, second/5-grade/          *)
(* my-mutex/main.c and my-spinlock/main.c).  Checkers walk it hand over    *)
(* hand and compare neighbours; swappers walk it hand over hand and now    *)
(* and then exchange the two nodes ahead of them.  The programs differ in  *)
(* the lock: a checker locks for reading in rwlock.c and exclusively in    *)
(* the others.                                                             *)
(*                                                                         *)
(* The strings and the three kinds of comparison are left out: what        *)
(* matters is which nodes a walk compares.  Each store to a next pointer   *)
(* is an action of its own.                                                *)
(***************************************************************************)
EXTENDS Integers

CONSTANTS
    N,              \* storage_size; nodes are 1..N in the order of the list main builds
    Checkers,       \* increasing, decreasing and equal length checkers
    Swappers,
    SharedReading   \* TRUE: checkers take the lock of a node for reading

ASSUME StorageAssumption ==
    /\ N \in Nat \ {0, 1}
    /\ Checkers \cap Swappers = {}
    /\ SharedReading \in BOOLEAN

Nodes     == 1..N
FirstNode == 1          \* storage->first: no thread ever changes it
End       == 0          \* NULL
Threads   == Checkers \cup Swappers

VARIABLES
    next,       \* per node: node->next
    holders,    \* per node: the threads that hold its lock
    pc,
    current,    \* per thread: `current` of a checker, `base` of a swapper
    first,      \* per thread: `next` of a checker, `first` of a swapper
    second,     \* per thread: `second` of a swapper
    seen        \* history: the nodes a checker has locked in this pass

vars == <<next, holders, pc, current, first, second, seen>>

PC == {"start", "walk", "step", "lockFirst", "choose", "lockSecond",
       "storeFirst", "storeSecond", "storeBase", "swapped", "last"}

TypeOK ==
    /\ next \in [Nodes -> Nodes \cup {End}]
    /\ holders \in [Nodes -> SUBSET Threads]
    /\ pc \in [Threads -> PC]
    /\ current \in [Threads -> Nodes \cup {End}]
    /\ first \in [Threads -> Nodes \cup {End}]
    /\ second \in [Threads -> Nodes \cup {End}]
    /\ seen \in [Checkers -> SUBSET Nodes]
    \* nobody locks, unlocks or follows NULL
    /\ \A t \in Threads :
        /\ pc[t] \notin {"start", "last"} => current[t] # End
        /\ pc[t] \notin {"start", "walk"} => first[t] # End
        /\ pc[t] \in {"lockSecond", "storeFirst", "storeSecond", "storeBase",
                       "swapped"} => second[t] # End

\* The list main has built with add_storage when it starts the threads.
Init ==
    /\ next = [n \in Nodes |-> IF n = N THEN End ELSE n + 1]
    /\ holders = [n \in Nodes |-> {}]
    /\ pc = [t \in Threads |-> "start"]
    /\ current = [t \in Threads |-> End]
    /\ first = [t \in Threads |-> End]
    /\ second = [t \in Threads |-> End]
    /\ seen = [c \in Checkers |-> {}]

Goto(t, from, to) ==
    /\ pc[t] = from
    /\ pc' = [pc EXCEPT ![t] = to]

\* Two threads exclude each other unless both are readers.
Exclude(t, u) == ~(SharedReading /\ t \in Checkers /\ u \in Checkers)

\* lock_node (rlock_node, wlock_node) returns; unlock_node.
Lock(t, n) ==
    /\ \A u \in holders[n] : ~Exclude(t, u)
    /\ holders' = [holders EXCEPT ![n] = @ \cup {t}]
Unlock(t, n) == holders' = [holders EXCEPT ![n] = @ \ {t}]

Set(f, t, value) == [f EXCEPT ![t] = value]

-----------------------------------------------------------------------------
(* The checkers                                                            *)

LockHead(c) ==
    /\ Goto(c, "start", "walk")
    /\ Lock(c, FirstNode)
    /\ current' = Set(current, c, FirstNode)
    /\ first' = Set(first, c, next[FirstNode])
    /\ seen' = Set(seen, c, {FirstNode})
    /\ UNCHANGED <<next, second>>

\* Lock the next node and compare it with the current one.
LockNext(c) ==
    /\ first[c] # End
    /\ Goto(c, "walk", "step")
    /\ Lock(c, first[c])
    /\ seen' = Set(seen, c, seen[c] \cup {first[c]})
    /\ UNCHANGED <<next, current, first, second>>

\* Only now is the current node let go.
StepOn(c) ==
    /\ Goto(c, "step", "walk")
    /\ Unlock(c, current[c])
    /\ current' = Set(current, c, first[c])
    /\ first' = Set(first, c, next[first[c]])
    /\ UNCHANGED <<next, second, seen>>

\* The end of the list: the pass is counted and the next one starts.
EndPass(c) ==
    /\ first[c] = End
    /\ Goto(c, "walk", "start")
    /\ Unlock(c, current[c])
    /\ current' = Set(current, c, End)
    /\ seen' = Set(seen, c, {})
    /\ UNCHANGED <<next, first, second>>

Checker(c) == LockHead(c) \/ LockNext(c) \/ StepOn(c) \/ EndPass(c)

-----------------------------------------------------------------------------
(* The swappers                                                            *)

LockBase(s) ==
    /\ Goto(s, "start", "lockFirst")
    /\ Lock(s, FirstNode)
    /\ current' = Set(current, s, FirstNode)
    /\ first' = Set(first, s, next[FirstNode])
    /\ UNCHANGED <<next, second, seen>>

LockFirst(s) ==
    /\ Goto(s, "lockFirst", "choose")
    /\ Lock(s, first[s])
    /\ second' = Set(second, s, next[first[s]])
    /\ UNCHANGED <<next, current, first, seen>>

\* Mutant: the end of the list is not looked for.
SkipAlways(s) ==
    /\ Goto(s, "choose", "lockFirst")
    /\ Unlock(s, current[s])
    /\ current' = Set(current, s, first[s])
    /\ first' = Set(first, s, second[s])
    /\ UNCHANGED <<next, second, seen>>

\* rand() says no: move on by one node.
Skip(s) ==
    /\ second[s] # End
    /\ Goto(s, "choose", "lockFirst")
    /\ Unlock(s, current[s])
    /\ current' = Set(current, s, first[s])
    /\ first' = Set(first, s, second[s])
    /\ UNCHANGED <<next, second, seen>>

\* rand() says swap.
DecideToSwap(s) ==
    /\ second[s] # End
    /\ Goto(s, "choose", "lockSecond")
    /\ UNCHANGED <<next, holders, current, first, second, seen>>

\* Mutant: only base and first are locked.
LockSecondMissing(s) ==
    /\ Goto(s, "lockSecond", "storeFirst")
    /\ UNCHANGED <<next, holders, current, first, second, seen>>

LockSecond(s) ==
    /\ Goto(s, "lockSecond", "storeFirst")
    /\ Lock(s, second[s])
    /\ UNCHANGED <<next, current, first, second, seen>>

\* The three stores that turn base -> first -> second into
\* base -> second -> first.
StoreFirst(s) ==
    /\ Goto(s, "storeFirst", "storeSecond")
    /\ next' = [next EXCEPT ![first[s]] = next[second[s]]]
    /\ UNCHANGED <<holders, current, first, second, seen>>

\* Mutant: base is unlocked one statement too early.
StoreSecondUnlocksBase(s) ==
    /\ Goto(s, "storeSecond", "storeBase")
    /\ next' = [next EXCEPT ![second[s]] = first[s]]
    /\ Unlock(s, current[s])
    /\ UNCHANGED <<current, first, second, seen>>

StoreSecond(s) ==
    /\ Goto(s, "storeSecond", "storeBase")
    /\ next' = [next EXCEPT ![second[s]] = first[s]]
    /\ UNCHANGED <<holders, current, first, second, seen>>

StoreBase(s) ==
    /\ Goto(s, "storeBase", "swapped")
    /\ next' = [next EXCEPT ![current[s]] = second[s]]
    /\ UNCHANGED <<holders, current, first, second, seen>>

\* Mutant: the old base stays locked.
SwappedKeepsBase(s) ==
    /\ Goto(s, "swapped", "choose")
    /\ current' = Set(current, s, second[s])
    /\ second' = Set(second, s, next[first[s]])
    /\ UNCHANGED <<next, holders, first, seen>>

\* base moves on to the node that was second; its lock is kept.
Swapped(s) ==
    /\ Goto(s, "swapped", "choose")
    /\ Unlock(s, current[s])
    /\ current' = Set(current, s, second[s])
    /\ second' = Set(second, s, next[first[s]])
    /\ UNCHANGED <<next, first, seen>>

UnlockBase(s) ==
    /\ second[s] = End
    /\ Goto(s, "choose", "last")
    /\ Unlock(s, current[s])
    /\ current' = Set(current, s, End)
    /\ UNCHANGED <<next, first, second, seen>>

UnlockFirst(s) ==
    /\ Goto(s, "last", "start")
    /\ Unlock(s, first[s])
    /\ first' = Set(first, s, End)
    /\ UNCHANGED <<next, current, second, seen>>

Swapper(s) ==
    \/ LockBase(s) \/ LockFirst(s) \/ Skip(s) \/ DecideToSwap(s)
    \/ LockSecond(s) \/ StoreFirst(s) \/ StoreSecond(s) \/ StoreBase(s)
    \/ Swapped(s) \/ UnlockBase(s) \/ UnlockFirst(s)

-----------------------------------------------------------------------------
Next ==
    \/ \E c \in Checkers : Checker(c)
    \/ \E s \in Swappers : Swapper(s)

Spec == Init /\ [][Next]_vars

\* The threads are scheduled; a lock that stays free is eventually granted.
Fairness ==
    /\ \A c \in Checkers : WF_vars(Checker(c))
    /\ \A s \in Swappers : WF_vars(Swapper(s))
FairSpec == Spec /\ Fairness

-----------------------------------------------------------------------------
(* Properties.                                                             *)

\* The list as it is once the swaps under way are completed.
Pending(n) == {s \in Swappers :
    \/ pc[s] \in {"storeSecond", "storeBase"} /\ n = current[s]
    \/ pc[s] = "storeSecond" /\ n = second[s]}
Settled(n) ==
    IF Pending(n) = {} THEN next[n]
    ELSE LET s == CHOOSE s \in Pending(n) : TRUE
         IN  IF n = current[s] THEN second[s] ELSE first[s]

\* The k-th node of that list, counted from 1.
Walk == LET walk[k \in Nodes] ==
                IF k = 1 THEN FirstNode
                ELSE IF walk[k - 1] = End THEN End ELSE Settled(walk[k - 1])
        IN  walk

\* Swaps neither lose a node nor make a cycle, whatever the other threads do
\* between the three stores: the list always has all the nodes, once each.
WholeList ==
    /\ {Walk[k] : k \in Nodes} = Nodes
    /\ Settled(Walk[N]) = End

\* A walking checker has compared exactly the nodes from the head up to the
\* last one it locked: no swap moves a node from ahead of it to behind it, or
\* back.  At the end of the list it has seen every node once.
ChecksEveryNode ==
    \A c \in Checkers :
        pc[c] # "start" =>
            LET at == IF pc[c] = "step" THEN first[c] ELSE current[c]
            IN  \E k \in Nodes : Walk[k] = at /\ seen[c] = {Walk[i] : i \in 1..k}

\* A node's next pointer changes only under that node's lock, held by the
\* thread that stores and by nobody else.
StoresAreLocked ==
    [][\A n \in Nodes : next'[n] # next[n] =>
        \E s \in Swappers : holders[n] = {s} /\ pc'[s] # pc[s]]_vars

\* Whoever is past the lock of the first node gets to the end of the list:
\* nobody overtakes it, so nobody can keep a lock from it for ever.
PassesEnd == \A t \in Threads : pc[t] # "start" ~> pc[t] = "start"
=============================================================================
