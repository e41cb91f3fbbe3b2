---------------------------- MODULE BoundedQueue ----------------------------
(***************************************************************************)
(* What a queue promises the threads of queue-threads.c: values leave it   *)
(* in the order in which they entered, each once, never more than Capacity *)
(* are inside.  Blocking, polling and locking are up to the queue.         *)
(***************************************************************************)
EXTENDS Integers, Sequences

CONSTANTS Writers, Readers, Capacity, INT_MAX

VARIABLES
    items,      \* the values inside, oldest first
    i,          \* per writer: the next value
    expected,   \* per reader: the value it expects
    val         \* per reader: the value it has taken and not compared, or -1

vars == <<items, i, expected, val>>

Init ==
    /\ items = <<>>
    /\ i = [w \in Writers |-> 0]
    /\ expected = [r \in Readers |-> 0]
    /\ val = [r \in Readers |-> -1]

Add(w) ==
    /\ i[w] < INT_MAX
    /\ Len(items) < Capacity
    /\ items' = Append(items, i[w])
    /\ i' = [i EXCEPT ![w] = @ + 1]
    /\ UNCHANGED <<expected, val>>

Get(r) ==
    /\ val[r] = -1
    /\ items # <<>>
    /\ val' = [val EXCEPT ![r] = Head(items)]
    /\ items' = Tail(items)
    /\ UNCHANGED <<i, expected>>

Check(r) ==
    /\ val[r] # -1
    /\ expected' = [expected EXCEPT ![r] = val[r] + 1]
    /\ val' = [val EXCEPT ![r] = -1]
    /\ UNCHANGED <<items, i>>

Next ==
    \/ \E w \in Writers : Add(w)
    \/ \E r \in Readers : Get(r) \/ Check(r)

Spec == Init /\ [][Next]_vars

\* With one writer and one reader, the reader gets the value it expects.
InOrder == \A r \in Readers : val[r] # -1 => val[r] = expected[r]
=============================================================================
