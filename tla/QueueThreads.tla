---------------------------- MODULE QueueThreads ----------------------------
(***************************************************************************)
(* queue-threads.c: writers that add 0, 1, 2, ... to a queue for ever and  *)
(* readers that take values from it and compare each with the one they     *)
(* expect.  The programs start one of each; a queue does not know.  Each   *)
(* queue module EXTENDS this one with its queue_add and queue_get, which   *)
(* start in pc "loop" and end, with a value, in "loop" or "got".           *)
(***************************************************************************)
EXTENDS Integers, Sequences, FiniteSets

CONSTANTS
    Writers,
    Readers,
    Capacity,   \* max_count, the argument of queue_init
    INT_MAX     \* the writer's i++ is defined up to here; the model ends there

ASSUME QueueAssumption ==
    /\ Writers \cap Readers = {}
    /\ IsFiniteSet(Writers)
    /\ IsFiniteSet(Readers)
    /\ Capacity \in Nat \ {0}
    /\ INT_MAX \in Nat

VARIABLES
    i,          \* per writer: the next value
    expected,   \* per reader: the value it expects
    val,        \* per reader: where queue_get puts the value, -1 before
    pc          \* per thread: where it is

threadVars == <<i, expected, val, pc>>

Threads == Writers \cup Readers
Value   == 0..INT_MAX

ThreadsTypeOK ==
    /\ i \in [Writers -> Value]
    /\ expected \in [Readers -> 0..(INT_MAX + 1)]
    /\ val \in [Readers -> Value \cup {-1}]

ThreadsInit ==
    /\ i = [w \in Writers |-> 0]
    /\ expected = [r \in Readers |-> 0]
    /\ val = [r \in Readers |-> -1]
    /\ pc = [t \in Threads |-> "loop"]

Goto(t, from, to) ==
    /\ pc[t] = from
    /\ pc' = [pc EXCEPT ![t] = to]

Inside(labels) == {t \in Threads : pc[t] \in labels}

\* A writer calls queue_add only while i can still be incremented.
MayAdd(w) == i[w] < INT_MAX

\* queue_add has returned 1: i++.
Added(w) == i' = [i EXCEPT ![w] = @ + 1]

\* queue_get stores through its argument and returns 1.
Fetched(r, v) == val' = [val EXCEPT ![r] = v]

\* The reader's check, the next `expected`, and a new `val` for the next turn.
Check(r) ==
    /\ Goto(r, "got", "loop")
    /\ expected' = [expected EXCEPT ![r] = val[r] + 1]
    /\ val' = [val EXCEPT ![r] = -1]
    /\ UNCHANGED i

\* "ERROR: get value is %d but expected - %d" is never printed.
GetsExpected == \A r \in Readers : pc[r] = "got" => val[r] = expected[r]
=============================================================================
