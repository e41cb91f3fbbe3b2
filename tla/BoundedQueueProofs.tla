-------------------------- MODULE BoundedQueueProofs --------------------------
(***************************************************************************)
(* A FIFO queue between one writer and one reader delivers 0, 1, 2, ... in *)
(* this order: whatever implements BoundedQueue never makes the reader of  *)
(* queue-threads.c print its error.                                        *)
(***************************************************************************)
EXTENDS BoundedQueue, TLAPS

\* The next value to leave the queue.
Front(r) == IF val[r] = -1 THEN expected[r] ELSE val[r] + 1

\* The queue holds the numbers from the next one the reader will get up to the
\* last one the writer has added.
Consecutive(w, r) ==
    /\ i \in [Writers -> Nat]
    /\ expected \in [Readers -> Nat]
    /\ val \in [Readers -> Nat \cup {-1}]
    /\ items \in Seq(Nat)
    /\ val[r] # -1 => val[r] = expected[r]
    /\ i[w] = Front(r) + Len(items)
    /\ \A k \in 1..Len(items) : items[k] = Front(r) + k - 1

\* Adding keeps the numbers in the queue consecutive: queue_add appends i.
LEMMA AddKeepsOrder ==
    ASSUME NEW w \in Writers, NEW r \in Readers, Writers = {w}, Readers = {r},
           Consecutive(w, r), Add(w)
    PROVE  Consecutive(w, r)'
<1>1. /\ items' = Append(items, i[w])
      /\ i' = [i EXCEPT ![w] = @ + 1]
      /\ UNCHANGED <<expected, val>>
  BY DEF Add
<1>2. i[w] \in Nat /\ items \in Seq(Nat) /\ Len(items) \in Nat
  BY DEF Consecutive
<1>3. items' \in Seq(Nat) /\ Len(items') = Len(items) + 1
  BY <1>1, <1>2
<1>4. Front(r)' = Front(r) /\ Front(r) \in Nat
  BY <1>1 DEF Front, Consecutive
<1>5. i'[w] = i[w] + 1 /\ i' \in [Writers -> Nat]
  BY <1>1, <1>2 DEF Consecutive
<1>6. ASSUME NEW k \in 1..Len(items') PROVE items'[k] = Front(r)' + k - 1
  <2>1. CASE k = Len(items) + 1
    BY <2>1, <1>1, <1>2, <1>4 DEF Consecutive
  <2>2. CASE k \in 1..Len(items)
    BY <2>2, <1>1, <1>2, <1>4 DEF Consecutive
  <2> QED BY <2>1, <2>2, <1>2, <1>3
<1> QED BY <1>1, <1>2, <1>3, <1>4, <1>5, <1>6 DEF Consecutive

\* Taking the head hands over the number that is expected.
LEMMA GetKeepsOrder ==
    ASSUME NEW w \in Writers, NEW r \in Readers, Writers = {w}, Readers = {r},
           Consecutive(w, r), Get(r)
    PROVE  Consecutive(w, r)'
<1>1. /\ val[r] = -1
      /\ items # <<>>
      /\ val' = [val EXCEPT ![r] = Head(items)]
      /\ items' = Tail(items)
      /\ UNCHANGED <<i, expected>>
  BY DEF Get
<1>2. /\ items \in Seq(Nat)
      /\ Len(items) \in Nat \ {0}
      /\ expected[r] \in Nat
      /\ i[w] \in Nat
  BY <1>1 DEF Consecutive
<1>3. Front(r) = expected[r]
  BY <1>1 DEF Front
<1>4. Head(items) = items[1] /\ items[1] = expected[r]
  BY <1>2, <1>3 DEF Consecutive
<1>5. val' \in [Readers -> Nat \cup {-1}] /\ val'[r] = expected[r]
  BY <1>1, <1>2, <1>4 DEF Consecutive
<1>6. Front(r)' = expected[r] + 1
  BY <1>5, <1>2 DEF Front
<1>7. items' \in Seq(Nat) /\ Len(items') = Len(items) - 1
  BY <1>1, <1>2
<1>8. ASSUME NEW k \in 1..Len(items') PROVE items'[k] = Front(r)' + k - 1
  <2>1. items'[k] = items[k + 1] /\ k + 1 \in 1..Len(items)
    BY <1>1, <1>2, <1>7
  <2> QED BY <2>1, <1>2, <1>3, <1>6 DEF Consecutive
<1> QED BY <1>1, <1>2, <1>3, <1>5, <1>6, <1>7, <1>8 DEF Consecutive

\* The comparison of the reader moves no number.
LEMMA CheckKeepsOrder ==
    ASSUME NEW w \in Writers, NEW r \in Readers, Writers = {w}, Readers = {r},
           Consecutive(w, r), Check(r)
    PROVE  Consecutive(w, r)'
<1>1. /\ val[r] # -1
      /\ expected' = [expected EXCEPT ![r] = val[r] + 1]
      /\ val' = [val EXCEPT ![r] = -1]
      /\ UNCHANGED <<items, i>>
  BY DEF Check
<1>2. val[r] \in Nat /\ expected'[r] = val[r] + 1 /\ val'[r] = -1
  BY <1>1 DEF Consecutive
<1>3. Front(r)' = Front(r)
  BY <1>1, <1>2 DEF Front
<1>4. /\ expected' \in [Readers -> Nat]
      /\ val' \in [Readers -> Nat \cup {-1}]
  BY <1>1, <1>2 DEF Consecutive
<1> QED BY <1>1, <1>2, <1>3, <1>4 DEF Consecutive

\* Whatever the capacity, a FIFO queue hands the only reader the numbers of
\* the only writer in order: the reader's check of queue-threads.c never fails.
THEOREM ReadsInOrder ==
    ASSUME NEW w, NEW r, Writers = {w}, Readers = {r}
    PROVE  Spec => []InOrder
<1>1. Init => Consecutive(w, r)
  BY DEF Init, Consecutive, Front
<1>2. Consecutive(w, r) /\ [Next]_vars => Consecutive(w, r)'
  <2> SUFFICES ASSUME Consecutive(w, r), [Next]_vars
               PROVE  Consecutive(w, r)'
    OBVIOUS
  <2>1. CASE Add(w)
    BY <2>1, AddKeepsOrder
  <2>2. CASE Get(r)
    BY <2>2, GetKeepsOrder
  <2>3. CASE Check(r)
    BY <2>3, CheckKeepsOrder
  <2>4. CASE UNCHANGED vars
    BY <2>4 DEF Consecutive, Front, vars
  <2> QED BY <2>1, <2>2, <2>3, <2>4 DEF Next
<1>3. Consecutive(w, r) => InOrder
  BY DEF Consecutive, InOrder
<1> QED BY <1>1, <1>2, <1>3, PTL DEF Spec
=============================================================================
