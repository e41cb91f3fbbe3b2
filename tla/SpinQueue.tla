------------------------------ MODULE SpinQueue ------------------------------
(***************************************************************************)
(* The queue of 3-grade/2_2/a and /d, whose spinlock is an exchange on     *)
(* is_modifying.  The value the exchange expects is the global FALSE_MOCK, *)
(* which a failed exchange overwrites with the value it saw.               *)
(*                                                                         *)
(* Nodes are named by the value in them, which is unique with one writer.  *)
(* A node keeps its fields when it is freed: one of the outcomes a use     *)
(* after free can have.  A thread that follows NULL takes no more steps.   *)
(***************************************************************************)
EXTENDS QueueThreads

NULL      == -1
TRUE_MOCK == 1      \* a _Bool initialised with 2

VARIABLES
    FALSE_MOCK,     \* a _Bool initialised with 1
    is_modifying,
    seen,           \* per thread: the expected value its exchange has loaded
    first, last, next,
    count,
    tmp             \* per reader: the node it has found at the front

lockVars == <<FALSE_MOCK, is_modifying, seen>>
listVars == <<first, last, next, count, tmp>>
vars == <<lockVars, listVars, threadVars>>

\* queue_init
Init ==
    /\ ThreadsInit
    /\ FALSE_MOCK = 1
    /\ is_modifying = FALSE_MOCK
    /\ seen = [t \in Threads |-> 0]
    /\ first = NULL
    /\ last = NULL
    /\ next = [v \in Value |-> NULL]
    /\ count = 0
    /\ tmp = [r \in Readers |-> NULL]

-----------------------------------------------------------------------------
(* atomic_compare_exchange_strong(&q->is_modifying, &FALSE_MOCK, TRUE_MOCK) *)

LoadExpected(t) ==
    /\ t \in Writers => MayAdd(t)
    /\ Goto(t, "loop", "exchange")
    /\ seen' = [seen EXCEPT ![t] = FALSE_MOCK]
    /\ UNCHANGED <<FALSE_MOCK, is_modifying, listVars, i, expected, val>>

Exchange(t) ==
    /\ IF is_modifying = seen[t]
       THEN /\ Goto(t, "exchange", "inside")
            /\ is_modifying' = TRUE_MOCK
            /\ UNCHANGED FALSE_MOCK
       ELSE /\ Goto(t, "exchange", "loop")
            /\ FALSE_MOCK' = is_modifying
            /\ UNCHANGED is_modifying
    /\ UNCHANGED <<seen, listVars, i, expected, val>>

Unlock == is_modifying' = 0 /\ UNCHANGED <<FALSE_MOCK, seen>>

-----------------------------------------------------------------------------
(* queue_add, past the lock                                                *)

AddFull(w) ==
    /\ Goto(w, "inside", "loop")
    /\ count = Capacity
    /\ Unlock
    /\ UNCHANGED <<listVars, i, expected, val>>

AddFirst(w) ==
    /\ Goto(w, "inside", "linked")
    /\ count # Capacity
    /\ first = NULL
    /\ first' = i[w] /\ last' = i[w]
    /\ next' = [next EXCEPT ![i[w]] = NULL]
    /\ UNCHANGED <<lockVars, count, tmp, i, expected, val>>

AddBehind(w) ==
    /\ Goto(w, "inside", "linked")
    /\ count # Capacity
    /\ first # NULL
    /\ next' = [next EXCEPT ![i[w]] = NULL, ![last] = i[w]]
    /\ last' = i[w]
    /\ UNCHANGED <<lockVars, first, count, tmp, i, expected, val>>

AddReturns(w) ==
    /\ Goto(w, "linked", "loop")
    /\ count' = count + 1
    /\ Added(w)
    /\ Unlock
    /\ UNCHANGED <<first, last, next, tmp, expected, val>>

-----------------------------------------------------------------------------
(* queue_get, past the lock                                                *)

GetEmpty(r) ==
    /\ Goto(r, "inside", "loop")
    /\ count = 0
    /\ Unlock
    /\ UNCHANGED <<listVars, i, expected, val>>

GetValue(r) ==
    /\ Goto(r, "inside", "unlinking")
    /\ count # 0
    /\ first # NULL
    /\ tmp' = [tmp EXCEPT ![r] = next[first]]
    /\ Fetched(r, first)
    /\ UNCHANGED <<lockVars, first, last, next, count, i, expected>>

GetReturns(r) ==
    /\ Goto(r, "unlinking", "got")
    /\ first' = tmp[r]
    /\ count' = count - 1
    /\ Unlock
    /\ UNCHANGED <<last, next, tmp, i, expected, val>>

-----------------------------------------------------------------------------
Next ==
    \/ \E t \in Threads : LoadExpected(t) \/ Exchange(t)
    \/ \E w \in Writers : AddFull(w) \/ AddFirst(w) \/ AddBehind(w) \/ AddReturns(w)
    \/ \E r \in Readers :
        \/ GetEmpty(r) \/ GetValue(r) \/ GetReturns(r)
        \/ Check(r) /\ UNCHANGED <<lockVars, listVars>>

Spec == Init /\ [][Next]_vars
=============================================================================
