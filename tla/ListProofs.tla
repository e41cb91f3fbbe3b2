------------------------------ MODULE ListProofs ------------------------------
(***************************************************************************)
(* Proofs about the two linked structures: the list of locked nodes and    *)
(* the ring of coroutines.  The modules have nothing in common but this    *)
(* one and LeastElement.                                                   *)
(*                                                                         *)
(* NodeStorage, for a list of any length, any numbers of checkers and      *)
(* swappers, shared or exclusive reading:                                  *)
(*   TypeCorrect           Spec => []TypeOK                                *)
(*   StoresUnderLock       Spec => StoresAreLocked                         *)
(*   ListStaysWhole        Spec => []WholeList                             *)
(*   CheckersMissNothing   Spec => []ChecksEveryNode                       *)
(* MyCoroutine, for any number of coroutines and of calls:                 *)
(*   CoroutineJoinTellsTheTruth  CoSpec => []JoinReturnsResult             *)
(*   RingStaysWhole              CoSpec => []RingIsWhole                   *)
(***************************************************************************)
EXTENDS NodeStorage, MyCoroutine, TLAPS, FiniteSetTheorems,
        WellFoundedInduction

-----------------------------------------------------------------------------
(* The list of locked nodes.                                               *)
(*                                                                         *)
(* Inv says who holds which lock.  For the last two theorems, WholeInv     *)
(* says that there is an order of the nodes (Order) of which next is the   *)
(* links, but for the swaps under way (Links, Settled), and in which each  *)
(* checker has its place (InPlace): StoreFirst, the first of the three     *)
(* stores, changes the order, for two nodes that no checker stands on, and *)
(* nothing else does.  Walk is recursive; WalkIsOrder shows that it can    *)
(* only be that order, since there is no least position where they differ. *)

\* Where each kind of thread can be.
Roles ==
    /\ \A c \in Checkers : pc[c] \in {"start", "walk", "step"}
    /\ \A s \in Swappers : pc[s] \notin {"walk", "step"}

\* The first node stays the first one, and is never the only one.
HeadIsFirst ==
    /\ next[FirstNode] # End
    /\ \A n \in Nodes : next[n] # FirstNode
    /\ \A t \in Threads : first[t] # FirstNode /\ second[t] # FirstNode

\* The holders of a node are compatible.
Exclusive ==
    \A n \in Nodes : \A t, u \in holders[n] : t # u => ~Exclude(t, u)

\* What a swapper holds at each point of its walk.  The nodes are different
\* because a swapper cannot lock a node it holds already, so that unlocking
\* one of them never releases another.
SwapperLocks ==
    \A s \in Swappers :
        /\ pc[s] \notin {"start", "last"} => s \in holders[current[s]]
        /\ pc[s] \notin {"start", "lockFirst"} => s \in holders[first[s]]
        /\ pc[s] \notin {"start", "lockFirst", "last"} => current[s] # first[s]
        /\ pc[s] \in {"storeFirst", "storeSecond", "storeBase", "swapped"} =>
              /\ s \in holders[second[s]]
              /\ second[s] # current[s]
              /\ second[s] # first[s]

Inv == TypeOK /\ Roles /\ HeadIsFirst /\ Exclusive /\ SwapperLocks

\* The list main builds, before any thread has started.
THEOREM InitInv == Init => Inv
  BY StorageAssumption
     DEF Init, Inv, TypeOK, Roles, HeadIsFirst, Exclusive, SwapperLocks, PC,
         Nodes, FirstNode, End, Threads

-----------------------------------------------------------------------------
\* Each action of a checker and of a swapper keeps the invariant.
LEMMA NextInv == Inv /\ [Next]_vars => Inv'
<1> SUFFICES ASSUME Inv, [Next]_vars PROVE Inv'
  OBVIOUS
<1> USE StorageAssumption
    DEF Inv, TypeOK, Roles, HeadIsFirst, Exclusive, SwapperLocks, PC, Nodes,
        FirstNode, End, Threads, Goto, Set, Lock, Unlock, Exclude
<1>1. ASSUME NEW c \in Checkers, LockHead(c) PROVE Inv'
  BY <1>1 DEF LockHead
<1>2. ASSUME NEW c \in Checkers, LockNext(c) PROVE Inv'
  BY <1>2 DEF LockNext
<1>3. ASSUME NEW c \in Checkers, StepOn(c) PROVE Inv'
  BY <1>3 DEF StepOn
<1>4. ASSUME NEW c \in Checkers, EndPass(c) PROVE Inv'
  BY <1>4 DEF EndPass
<1>5. ASSUME NEW s \in Swappers, LockBase(s) PROVE Inv'
  BY <1>5 DEF LockBase
<1>6. ASSUME NEW s \in Swappers, LockFirst(s) PROVE Inv'
  BY <1>6 DEF LockFirst
<1>7. ASSUME NEW s \in Swappers, Skip(s) PROVE Inv'
  BY <1>7 DEF Skip
<1>8. ASSUME NEW s \in Swappers, DecideToSwap(s) PROVE Inv'
  BY <1>8 DEF DecideToSwap
<1>9. ASSUME NEW s \in Swappers, LockSecond(s) PROVE Inv'
  BY <1>9 DEF LockSecond
<1>10. ASSUME NEW s \in Swappers, StoreFirst(s) PROVE Inv'
  BY <1>10 DEF StoreFirst
<1>11. ASSUME NEW s \in Swappers, StoreSecond(s) PROVE Inv'
  BY <1>11 DEF StoreSecond
<1>12. ASSUME NEW s \in Swappers, StoreBase(s) PROVE Inv'
  BY <1>12 DEF StoreBase
<1>13. ASSUME NEW s \in Swappers, Swapped(s) PROVE Inv'
  BY <1>13 DEF Swapped
<1>14. ASSUME NEW s \in Swappers, UnlockBase(s) PROVE Inv'
  BY <1>14 DEF UnlockBase
<1>15. ASSUME NEW s \in Swappers, UnlockFirst(s) PROVE Inv'
  BY <1>15 DEF UnlockFirst
<1>16. CASE UNCHANGED vars
  BY <1>16 DEF vars
<1> QED
  BY <1>1, <1>2, <1>3, <1>4, <1>5, <1>6, <1>7, <1>8, <1>9, <1>10, <1>11,
     <1>12, <1>13, <1>14, <1>15, <1>16
     DEF Next, Checker, Swapper

\* No thread ever locks, unlocks or follows NULL, and every field keeps its
\* type.
THEOREM TypeCorrect == Spec => []TypeOK
<1>1. Inv => TypeOK
  BY DEF Inv
<1> QED
  BY <1>1, InitInv, NextInv, PTL DEF Spec

\* The three actions that store to a next pointer belong to a swapper that
\* holds the lock of that node, and Exclusive leaves no other holder.
LEMMA StoreUnderLock ==
    Inv /\ [Next]_vars =>
        \A n \in Nodes : next'[n] # next[n] =>
            \E s \in Swappers : holders[n] = {s} /\ pc'[s] # pc[s]
<1> SUFFICES ASSUME Inv, [Next]_vars, NEW n \in Nodes, next'[n] # next[n]
             PROVE  \E s \in Swappers : holders[n] = {s} /\ pc'[s] # pc[s]
  OBVIOUS
<1> USE DEF Inv, TypeOK, PC, Nodes, End, Threads, Goto
<1>1. PICK s \in Swappers : StoreFirst(s) \/ StoreSecond(s) \/ StoreBase(s)
  BY DEF Next, Checker, Swapper, vars, LockHead, LockNext, StepOn, EndPass,
         LockBase, LockFirst, Skip, DecideToSwap, LockSecond, Swapped,
         UnlockBase, UnlockFirst
<1>2. s \in holders[n]
  BY <1>1 DEF StoreFirst, StoreSecond, StoreBase, SwapperLocks
<1>3. \A t \in holders[n] : t = s
  BY <1>2, StorageAssumption DEF Exclusive, Exclude
<1>4. pc'[s] # pc[s]
  BY <1>1 DEF StoreFirst, StoreSecond, StoreBase
<1> QED
  BY <1>2, <1>3, <1>4

\* A next pointer changes only in the hands of the one holder of its node.
THEOREM StoresUnderLock == Spec => StoresAreLocked
<1>1. Inv /\ [Next]_vars =>
        [\A n \in Nodes : next'[n] # next[n] =>
            \E s \in Swappers : holders[n] = {s} /\ pc'[s] # pc[s]]_vars
  BY StoreUnderLock
<1> QED
  BY <1>1, InitInv, NextInv, PTL DEF Spec, StoresAreLocked
-----------------------------------------------------------------------------
(* The list stays whole.                                                   *)

\* What a thread has read, as long as it holds the node it has read it from.
\* A swapper's three stores go through base -> first -> second,
\* base -> first -> after second, and second -> first -> after.
Linked(t) ==
    /\ pc[t] \notin {"start", "last", "swapped"} => next[current[t]] = first[t]
    /\ pc[t] \in {"choose", "lockSecond", "storeFirst"} =>
          next[first[t]] = second[t]
    /\ pc[t] = "storeSecond" => next[second[t]] = next[first[t]]
    /\ pc[t] = "storeBase" => next[second[t]] = first[t]
    /\ pc[t] = "swapped" =>
          next[current[t]] = second[t] /\ next[second[t]] = first[t]

CheckerLocks ==
    \A c \in Checkers :
        /\ pc[c] # "start" => c \in holders[current[c]]
        /\ pc[c] = "step" =>
              c \in holders[first[c]] /\ first[c] # current[c]

Links == CheckerLocks /\ \A t \in Threads : Linked(t)

\* w lists the nodes in the order of the list.
Order(w) ==
    /\ w \in [Nodes -> Nodes]
    /\ w[1] = FirstNode
    /\ \A n \in Nodes : \E k \in Nodes : w[k] = n
    /\ \A k, l \in Nodes : w[k] = w[l] => k = l
    /\ \A k \in Nodes : k # N => Settled(w[k]) = w[k + 1]
    /\ Settled(w[N]) = End

At(c) == IF pc[c] = "step" THEN first[c] ELSE current[c]

\* In that order every walking checker has seen the nodes up to its own.
InPlace(w) ==
    \A c \in Checkers : pc[c] # "start" =>
        \E k \in Nodes : w[k] = At(c) /\ seen[c] = {w[j] : j \in 1..k}

Ordered == \E w : Order(w) /\ InPlace(w)

WholeInv == Inv /\ Links /\ Ordered

\* Nobody else holds a node that a swapper holds.
LEMMA HeldAlone ==
    ASSUME Inv, NEW s \in Swappers, NEW n \in Nodes, s \in holders[n]
    PROVE  holders[n] = {s}
  BY StorageAssumption DEF Inv, Exclusive, Exclude, TypeOK, Threads

\* No node is its own successor, as far as a checker can see.
NoLoop == \A c \in Checkers : pc[c] = "walk" => first[c] # current[c]

\* What a thread holds nobody else stores to.
LEMMA NextLinks == Inv /\ Links /\ NoLoop /\ [Next]_vars => Links'
<1> SUFFICES ASSUME Inv, Links, NoLoop, [Next]_vars PROVE Links'
  OBVIOUS
<1> USE StorageAssumption
    DEF Inv, TypeOK, Roles, HeadIsFirst, Exclusive, SwapperLocks, PC, Nodes,
        FirstNode, End, Threads, Goto, Set, Lock, Unlock, Exclude, Links,
        CheckerLocks, Linked
<1>1. ASSUME NEW c \in Checkers, LockHead(c) PROVE Links'
  BY <1>1 DEF LockHead
<1>2. ASSUME NEW c \in Checkers, LockNext(c) PROVE Links'
  BY <1>2 DEF LockNext, NoLoop
<1>3. ASSUME NEW c \in Checkers, StepOn(c) PROVE Links'
  BY <1>3 DEF StepOn
<1>4. ASSUME NEW c \in Checkers, EndPass(c) PROVE Links'
  BY <1>4 DEF EndPass
<1>5. ASSUME NEW s \in Swappers, LockBase(s) PROVE Links'
  BY <1>5 DEF LockBase
<1>6. ASSUME NEW s \in Swappers, LockFirst(s) PROVE Links'
  BY <1>6 DEF LockFirst
<1>7. ASSUME NEW s \in Swappers, Skip(s) PROVE Links'
  BY <1>7 DEF Skip
<1>8. ASSUME NEW s \in Swappers, DecideToSwap(s) PROVE Links'
  BY <1>8 DEF DecideToSwap
<1>9. ASSUME NEW s \in Swappers, LockSecond(s) PROVE Links'
  <2>1. CheckerLocks'
    BY <1>9 DEF LockSecond
  <2>2. ASSUME NEW t \in Threads PROVE Linked(t)'
    BY <1>9 DEF LockSecond
  <2> QED
    BY <2>1, <2>2
<1>10. ASSUME NEW s \in Swappers, StoreFirst(s) PROVE Links'
  <2>1. s \in holders[first[s]] /\ s \in holders[second[s]]
    BY <1>10 DEF StoreFirst
  <2>2. holders[first[s]] = {s}
    BY <1>10, <2>1, HeldAlone DEF StoreFirst
  <2>3. \A n \in Nodes : n # first[s] => next'[n] = next[n]
    BY <1>10 DEF StoreFirst
  <2>4. \A c \in Checkers : pc[c] # "start" => current[c] # first[s]
    BY <2>2
  <2>5. \A t \in Swappers \ {s} :
          /\ pc[t] \notin {"start", "last"} => current[t] # first[s]
          /\ pc[t] \notin {"start", "lockFirst"} => first[t] # first[s]
          /\ pc[t] \in {"storeSecond", "storeBase", "swapped"} =>
                second[t] # first[s]
    BY <2>2
  <2>6. ASSUME NEW t \in Threads PROVE Linked(t)'
    <3>1. CASE t = s
      BY <1>10, <3>1 DEF StoreFirst
    <3>2. CASE t \in Checkers
      BY <1>10, <3>2, <2>3, <2>4 DEF StoreFirst
    <3>3. CASE t \in Swappers \ {s}
      BY <1>10, <3>3, <2>3, <2>5 DEF StoreFirst
    <3> QED
      BY <3>1, <3>2, <3>3
  <2>7. CheckerLocks'
    BY <1>10 DEF StoreFirst
  <2> QED
    BY <2>6, <2>7
<1>11. ASSUME NEW s \in Swappers, StoreSecond(s) PROVE Links'
  BY <1>11 DEF StoreSecond
<1>12. ASSUME NEW s \in Swappers, StoreBase(s) PROVE Links'
  BY <1>12 DEF StoreBase
<1>13. ASSUME NEW s \in Swappers, Swapped(s) PROVE Links'
  <2>1. CheckerLocks'
    BY <1>13 DEF Swapped
  <2>2. ASSUME NEW t \in Threads PROVE Linked(t)'
    BY <1>13 DEF Swapped
  <2> QED
    BY <2>1, <2>2
<1>14. ASSUME NEW s \in Swappers, UnlockBase(s) PROVE Links'
  BY <1>14 DEF UnlockBase
<1>15. ASSUME NEW s \in Swappers, UnlockFirst(s) PROVE Links'
  BY <1>15 DEF UnlockFirst
<1>16. CASE UNCHANGED vars
  BY <1>16 DEF vars
<1> QED
  BY <1>1, <1>2, <1>3, <1>4, <1>5, <1>6, <1>7, <1>8, <1>9, <1>10, <1>11,
     <1>12, <1>13, <1>14, <1>15, <1>16
     DEF Next, Checker, Swapper
-----------------------------------------------------------------------------
\* What Settled means, without its CHOOSE: at most one swap is under way at a
\* node.
SettledMeans ==
    \A n \in Nodes :
        /\ Pending(n) = {} => Settled(n) = next[n]
        /\ \A t \in Pending(n) :
              Settled(n) = IF n = current[t] THEN second[t] ELSE first[t]

LEMMA SettledIs == Inv => SettledMeans
<1> SUFFICES ASSUME Inv, NEW n \in Nodes
             PROVE  /\ Pending(n) = {} => Settled(n) = next[n]
                    /\ \A t \in Pending(n) :
                         Settled(n) = IF n = current[t] THEN second[t]
                                                        ELSE first[t]
  BY DEF SettledMeans
<1>1. Pending(n) = {} => Settled(n) = next[n]
  BY DEF Settled
<1>2. ASSUME NEW s \in Pending(n)
      PROVE  Settled(n) = IF n = current[s] THEN second[s] ELSE first[s]
  <2>1. \A t \in Pending(n) : t \in Swappers /\ t \in holders[n]
    BY DEF Pending, Inv, SwapperLocks
  <2>2. \A t \in Pending(n) : t = s
    BY <2>1, HeldAlone
  <2>3. (CHOOSE t \in Pending(n) : TRUE) = s
    BY <2>2
  <2> QED
    BY <2>3 DEF Settled
<1> QED
  BY <1>1, <1>2

\* A node that a thread holds is the settled one while it is not swapping.
LEMMA HeldIsSettled ==
    ASSUME Inv, NEW t \in Threads, NEW n \in Nodes, t \in holders[n],
           pc[t] \notin {"storeSecond", "storeBase"}
    PROVE  Settled(n) = next[n]
<1>1. \A s \in Pending(n) : s \in Swappers /\ s \in holders[n] /\ s # t
  BY DEF Pending, Inv, SwapperLocks
<1>2. Pending(n) = {}
  BY <1>1, HeldAlone
<1> QED
  BY <1>2, SettledIs DEF SettledMeans

\* No action but the first store changes the order of the list.
LEMMA SettledStays ==
    Inv /\ Links /\ [Next]_vars /\ (\A s \in Swappers : ~StoreFirst(s)) =>
        \A n \in Nodes : Settled(n)' = Settled(n)
<1> SUFFICES ASSUME Inv, Links, [Next]_vars,
                    \A s \in Swappers : ~StoreFirst(s)
             PROVE  \A n \in Nodes : Settled(n)' = Settled(n)
  OBVIOUS
<1>1. Inv'
  BY NextInv
<1>2. SettledMeans /\ SettledMeans'
  <2>1. (Inv => SettledMeans)'
    BY SettledIs, PTL
  <2> QED
    BY <1>1, <2>1, SettledIs
<1>3. ASSUME NEW s \in Swappers, StoreSecond(s), NEW n \in Nodes
      PROVE  Settled(n)' = Settled(n)
  <2> USE <1>3 DEF StoreSecond, Goto, Inv, TypeOK, Threads, PC
  <2>1. \A t \in Swappers \ {s} :
          pc'[t] = pc[t] /\ current'[t] = current[t]
          /\ second'[t] = second[t] /\ first'[t] = first[t]
    OBVIOUS
  <2>2. pc'[s] = "storeBase" /\ pc[s] = "storeSecond"
    OBVIOUS
  <2>3. s \in Pending(current[s]) /\ s \in Pending(current[s])'
    BY <2>2 DEF Pending
  <2>4. CASE n = current[s]
    BY <2>3, <2>4, <1>2 DEF SettledMeans
  <2>5. CASE n = second[s]
    <3>1. s \in Pending(n) /\ n # current[s] /\ s \in holders[n]
      BY <2>2, <2>5 DEF Pending, SwapperLocks
    <3>2. Settled(n) = first[s]
      BY <3>1, <1>2 DEF SettledMeans
    <3>3. \A t \in Pending(n)' : t \in Swappers \ {s} /\ t \in Pending(n)
      BY <2>1, <2>2, <3>1 DEF Pending
    <3>4. \A t \in Pending(n) : t \in holders[n]
      BY DEF Pending, SwapperLocks
    <3>5. Pending(n)' = {}
      BY <3>3, <3>4, <3>1, HeldAlone
    <3> QED
      BY <3>2, <3>5, <1>2, <2>5 DEF SettledMeans
  <2>6. CASE n # current[s] /\ n # second[s]
    <3>1. Pending(n)' = Pending(n)
      BY <2>1, <2>2, <2>6 DEF Pending
    <3>2. next'[n] = next[n]
      BY <2>6
    <3> QED
      BY <3>1, <3>2, <1>2 DEF SettledMeans
  <2> QED
    BY <2>4, <2>5, <2>6
<1>4. ASSUME NEW s \in Swappers, StoreBase(s), NEW n \in Nodes
      PROVE  Settled(n)' = Settled(n)
  <2> USE <1>4 DEF StoreBase, Goto, Inv, TypeOK, Threads, PC
  <2>1. \A t \in Swappers \ {s} :
          pc'[t] = pc[t] /\ current'[t] = current[t]
          /\ second'[t] = second[t] /\ first'[t] = first[t]
    OBVIOUS
  <2>2. pc'[s] = "swapped" /\ pc[s] = "storeBase"
    OBVIOUS
  <2>5. CASE n = current[s]
    <3>1. s \in Pending(n) /\ s \in holders[n]
      BY <2>2, <2>5 DEF Pending, SwapperLocks
    <3>2. Settled(n) = second[s]
      BY <3>1, <2>5, <1>2 DEF SettledMeans
    <3>3. \A t \in Pending(n)' : t \in Swappers \ {s} /\ t \in Pending(n)
      BY <2>1, <2>2, <3>1 DEF Pending
    <3>4. \A t \in Pending(n) : t \in holders[n]
      BY DEF Pending, SwapperLocks
    <3>5. Pending(n)' = {}
      BY <3>3, <3>4, <3>1, HeldAlone
    <3> QED
      BY <3>2, <3>5, <1>2, <2>5 DEF SettledMeans
  <2>6. CASE n # current[s]
    <3>1. Pending(n)' = Pending(n)
      BY <2>1, <2>2, <2>6 DEF Pending
    <3>2. next'[n] = next[n]
      BY <2>6
    <3> QED
      BY <3>1, <3>2, <1>2 DEF SettledMeans
  <2> QED
    BY <2>5, <2>6
<1>5. CASE /\ \A s \in Swappers : ~StoreSecond(s) /\ ~StoreBase(s)
           /\ Next
  <2> DEFINE OnlyMoves(t) ==
                /\ pc[t] \notin {"storeSecond", "storeBase"}
                /\ pc'[t] \notin {"storeSecond", "storeBase"}
                /\ \A u \in Threads \ {t} :
                      /\ pc'[u] = pc[u]
                      /\ current'[u] = current[u]
                      /\ second'[u] = second[u]
                      /\ first'[u] = first[u]
                /\ next' = next
  <2>1. PICK t \in Threads : OnlyMoves(t)
    <3> USE DEF Threads, Inv, TypeOK, Goto, Set, PC
    <3>1. ASSUME NEW c \in Checkers, Checker(c) PROVE OnlyMoves(c)
      BY <3>1 DEF Checker, LockHead, LockNext, StepOn, EndPass
    <3>2. ASSUME NEW s \in Swappers, Swapper(s) PROVE OnlyMoves(s)
      BY <3>2, <1>5 DEF Swapper, LockBase, LockFirst, Skip, DecideToSwap,
            LockSecond, Swapped, UnlockBase, UnlockFirst
    <3> QED
      BY <3>1, <3>2, <1>5 DEF Next
  <2>2. ASSUME NEW n \in Nodes PROVE Pending(n)' = Pending(n)
    BY <2>1 DEF Pending, Threads
  <2>3. \A n \in Nodes : \A s \in Pending(n) :
          /\ current'[s] = current[s]
          /\ second'[s] = second[s]
          /\ first'[s] = first[s]
    BY <2>1 DEF Pending, Threads
  <2> QED
    BY <1>2, <2>1, <2>2, <2>3 DEF SettledMeans
<1>6. CASE UNCHANGED vars
  BY <1>6 DEF vars, Settled, Pending
<1> QED
  BY <1>3, <1>4, <1>5, <1>6 DEF Next, Swapper
-----------------------------------------------------------------------------
\* The node after the k-th one.
LEMMA After ==
    ASSUME NEW w, Order(w), NEW k \in Nodes
    PROVE  /\ Settled(w[k]) # End => k + 1 \in Nodes /\ Settled(w[k]) = w[k + 1]
           /\ Settled(w[k]) # w[k]
<1>1. k \in 1..N /\ N \in Nat
  BY StorageAssumption DEF Nodes
<1>2. CASE k = N
  BY <1>1, <1>2 DEF Order, Nodes, End
<1>3. CASE k # N
  <2>1. k + 1 \in Nodes /\ k + 1 # k
    BY <1>1, <1>3 DEF Nodes
  <2>2. Settled(w[k]) = w[k + 1]
    BY <1>3 DEF Order
  <2>3. w[k + 1] # w[k]
    BY <2>1 DEF Order
  <2> QED
    BY <2>1, <2>2, <2>3
<1> QED
  BY <1>2, <1>3

\* A walking checker holds the node it has read the next one from.
LEMMA CheckerNext ==
    ASSUME Inv, Links, NEW c \in Checkers, pc[c] = "walk"
    PROVE  Settled(current[c]) = first[c]
<1>1. /\ c \in Threads /\ current[c] \in Nodes /\ c \in holders[current[c]]
      /\ next[current[c]] = first[c]
  BY DEF Inv, TypeOK, Threads, Links, CheckerLocks, Linked
<1> QED
  BY <1>1, HeldIsSettled

LEMMA OrderedNoLoop == WholeInv => NoLoop
<1> SUFFICES ASSUME WholeInv, NEW c \in Checkers, pc[c] = "walk"
             PROVE  first[c] # current[c]
  BY DEF NoLoop
<1>1. PICK w : Order(w)
  BY DEF WholeInv, Ordered
<1>2. PICK k \in Nodes : w[k] = current[c]
  BY <1>1 DEF WholeInv, Inv, TypeOK, Threads, Order
<1> QED
  BY <1>1, <1>2, After, CheckerNext DEF WholeInv

\* What every action but the first store does to the order: nothing, and a
\* checker goes on by one node.
LEMMA OthersKeepOrder ==
    ASSUME WholeInv, [Next]_vars, \A s \in Swappers : ~StoreFirst(s),
           NEW w, Order(w), InPlace(w)
    PROVE  Order(w)' /\ InPlace(w)'
<1> USE DEF WholeInv
<1>1. \A n \in Nodes : Settled(n)' = Settled(n)
  BY SettledStays
<1>2. Order(w)'
  <2>1. \A k \in Nodes : Settled(w[k])' = Settled(w[k])
    BY <1>1 DEF Order
  <2>2. N \in Nodes
    BY StorageAssumption DEF Nodes
  <2> QED
    BY <2>1, <2>2 DEF Order
<1>3. ASSUME NEW c \in Checkers, Checker(c) PROVE InPlace(w)'
  <2> USE DEF Inv, TypeOK, Threads, Goto, Set, PC
  <2>1. \A d \in Checkers \ {c} :
          /\ pc'[d] = pc[d] /\ seen'[d] = seen[d]
          /\ current'[d] = current[d] /\ first'[d] = first[d]
    BY <1>3 DEF Checker, LockHead, LockNext, StepOn, EndPass
  <2>2. ASSUME NEW d \in Checkers \ {c}, pc'[d] # "start"
        PROVE  \E k \in Nodes : w[k] = At(d)' /\ seen'[d] = {w[j] : j \in 1..k}
    BY <2>1, <2>2 DEF InPlace, At
  <2>3. ASSUME pc'[c] # "start"
        PROVE  \E k \in Nodes : w[k] = At(c)' /\ seen'[c] = {w[j] : j \in 1..k}
    <3>1. CASE LockHead(c)
      <4>1. At(c)' = FirstNode /\ seen'[c] = {FirstNode}
        BY <3>1 DEF LockHead, At, Nodes, FirstNode
      <4>2. 1 \in Nodes /\ w[1] = FirstNode /\ {w[j] : j \in 1..1} = {FirstNode}
        <5>1. 1 \in Nodes /\ 1..1 = {1}
          BY StorageAssumption DEF Nodes
        <5>2. w[1] = FirstNode
          BY DEF Order
        <5> QED
          BY <5>1, <5>2
      <4> QED
        BY <4>1, <4>2
    <3>2. CASE LockNext(c)
      <4>1. PICK k \in Nodes :
              w[k] = current[c] /\ seen[c] = {w[j] : j \in 1..k}
        BY <3>2 DEF LockNext, InPlace, At
      <4>2. Settled(w[k]) = first[c] /\ first[c] # End
        BY <3>2, <4>1, CheckerNext DEF LockNext
      <4>3. k + 1 \in Nodes /\ w[k + 1] = first[c]
        BY <4>2, After
      <4>4. At(c)' = first[c] /\ seen'[c] = seen[c] \cup {first[c]}
        BY <3>2 DEF LockNext, At
      <4>5. 1..(k + 1) = (1..k) \cup {k + 1}
        BY StorageAssumption DEF Nodes
      <4>6. {w[j] : j \in 1..(k + 1)} = {w[j] : j \in 1..k} \cup {w[k + 1]}
        BY <4>5
      <4> QED
        BY <4>1, <4>3, <4>4, <4>6
    <3>3. CASE StepOn(c)
      BY <3>3 DEF StepOn, InPlace, At
    <3>4. CASE EndPass(c)
      BY <3>4, <2>3 DEF EndPass
    <3> QED
      BY <1>3, <3>1, <3>2, <3>3, <3>4 DEF Checker
  <2> QED
    BY <2>2, <2>3 DEF InPlace
<1>4. ASSUME NEW s \in Swappers, Swapper(s) PROVE InPlace(w)'
  <2>1. \A c \in Checkers : /\ pc'[c] = pc[c] /\ seen'[c] = seen[c]
                            /\ current'[c] = current[c]
                            /\ first'[c] = first[c]
    BY <1>4, StorageAssumption
       DEF Swapper, LockBase, LockFirst, Skip, DecideToSwap, LockSecond,
           StoreFirst, StoreSecond, StoreBase, Swapped, UnlockBase,
           UnlockFirst, Goto, Set, Inv, TypeOK, Threads
  <2> QED
    BY <2>1 DEF InPlace, At
<1>5. CASE UNCHANGED vars
  <2>1. /\ \A c \in Checkers : At(c)' = At(c)
        /\ pc' = pc /\ seen' = seen
    BY <1>5 DEF vars, At
  <2>2. ASSUME NEW c \in Checkers, pc'[c] # "start"
        PROVE  \E k \in Nodes : w[k] = At(c)' /\ seen'[c] = {w[j] : j \in 1..k}
    BY <2>1, <2>2 DEF InPlace
  <2> QED
    BY <1>2, <2>2 DEF InPlace
<1> QED
  BY <1>2, <1>3, <1>4, <1>5 DEF Next
-----------------------------------------------------------------------------
\* The first store decides the swap: where the list had base, first, second
\* it has base, second, first from then on.
LEMMA SettledSwaps ==
    ASSUME Inv, Links, [Next]_vars, NEW s \in Swappers, StoreFirst(s),
           NEW b, b = current[s], NEW f, f = first[s], NEW g, g = second[s]
    PROVE  /\ Settled(b) = f
           /\ Settled(f) = g
           /\ Settled(b)' = g
           /\ Settled(g)' = f
           /\ Settled(f)' = Settled(g)
           /\ \A n \in Nodes \ {b, f, g} : Settled(n)' = Settled(n)
<1>4. SettledMeans /\ SettledMeans'
  <2>1. (Inv => SettledMeans)'
    BY SettledIs, PTL
  <2> QED
    BY <2>1, NextInv, SettledIs
<1> USE DEF Inv, TypeOK, Threads, PC, Goto
<1>1. /\ pc[s] = "storeFirst" /\ pc'[s] = "storeSecond"
      /\ current' = current /\ first' = first /\ second' = second
      /\ next' = [next EXCEPT ![f] = next[g]]
  BY DEF StoreFirst
<1>2. /\ b \in Nodes /\ f \in Nodes /\ g \in Nodes
      /\ s \in holders[b] /\ s \in holders[f] /\ s \in holders[g]
      /\ b # f /\ f # g /\ b # g
      /\ next[b] = f /\ next[f] = g
  BY <1>1 DEF SwapperLocks, Links, Linked, End, Nodes
<1>3. Settled(b) = f /\ Settled(f) = g /\ Settled(g) = next[g]
  BY <1>1, <1>2, HeldIsSettled
<1>5. \A t \in Swappers \ {s} : pc'[t] = pc[t]
  BY DEF StoreFirst
<1>6. s \in Pending(b)' /\ s \in Pending(g)'
  BY <1>1 DEF Pending
<1>7. Settled(b)' = g /\ Settled(g)' = f
  BY <1>1, <1>2, <1>4, <1>6 DEF SettledMeans
<1>8. \A n \in Nodes : \A t \in Pending(n)' :
        t # s => t \in Pending(n) /\ t \in holders[n]
  BY <1>1, <1>5 DEF Pending, SwapperLocks
<1>9. Settled(f)' = Settled(g)
  <2>1. s \notin Pending(f)'
    BY <1>1, <1>2 DEF Pending
  <2>2. Pending(f)' = {}
    BY <2>1, <1>2, <1>8, HeldAlone DEF Pending
  <2>3. next'[f] = next[g]
    BY <1>1, <1>2
  <2> QED
    BY <2>2, <2>3, <1>2, <1>3, <1>4 DEF SettledMeans
<1>10. ASSUME NEW n \in Nodes \ {b, f, g} PROVE Settled(n)' = Settled(n)
  <2>1. Pending(n)' = Pending(n)
    BY <1>1, <1>5 DEF Pending
  <2>2. next'[n] = next[n] /\ s \notin Pending(n)
    BY <1>1 DEF Pending
  <2> QED
    BY <2>1, <2>2, <1>1, <1>4 DEF SettledMeans
<1> QED
  BY <1>3, <1>7, <1>9, <1>10

\* Exchanging two neighbours in the order leaves it an order, and no walking
\* checker is at one of the three nodes.
LEMMA StoreFirstKeepsOrder ==
    ASSUME WholeInv, [Next]_vars, NEW s \in Swappers, StoreFirst(s),
           NEW w, Order(w), InPlace(w)
    PROVE  \E v : Order(v)' /\ InPlace(v)'
<1> USE DEF WholeInv
<1>N. N \in Nat
  BY StorageAssumption
<1>0. PICK b, f, g : b = current[s] /\ f = first[s] /\ g = second[s]
  OBVIOUS
<1>1. /\ b \in Nodes /\ f \in Nodes /\ g \in Nodes
      /\ s \in holders[b] /\ s \in holders[f] /\ s \in holders[g]
      /\ b # f /\ f # g /\ b # g
      /\ f # FirstNode /\ g # FirstNode
  BY <1>0
     DEF StoreFirst, Goto, Inv, TypeOK, PC, Threads, SwapperLocks, Nodes, End,
         HeadIsFirst
<1>2. /\ Settled(b) = f /\ Settled(f) = g
      /\ Settled(b)' = g /\ Settled(g)' = f /\ Settled(f)' = Settled(g)
      /\ \A n \in Nodes \ {b, f, g} : Settled(n)' = Settled(n)
  BY <1>0, SettledSwaps
<1>3. PICK k \in Nodes : w[k] = b
  BY <1>1 DEF Order
<1>4. /\ k + 1 \in Nodes /\ w[k + 1] = f
      /\ k + 2 \in Nodes /\ w[k + 2] = g
  <2>1. k + 1 \in Nodes /\ w[k + 1] = f
    BY <1>1, <1>2, <1>3, After DEF Nodes, End
  <2>2. (k + 1) + 1 \in Nodes /\ w[(k + 1) + 1] = g
    BY <1>1, <1>2, <2>1, After DEF Nodes, End
  <2>3. (k + 1) + 1 = k + 2
    BY <1>N DEF Nodes
  <2> QED
    BY <2>1, <2>2, <2>3
<1>W. /\ w \in [Nodes -> Nodes] /\ w[1] = FirstNode
      /\ \A n \in Nodes : \E j \in Nodes : w[j] = n
      /\ \A j, l \in Nodes : w[j] = w[l] => j = l
  BY DEF Order
<1>5. PICK v \in [Nodes -> Nodes] :
        /\ v[k] = b /\ v[k + 1] = g /\ v[k + 2] = f
        /\ \A j \in Nodes \ {k + 1, k + 2} : v[j] = w[j]
  <2>1. k # k + 1 /\ k # k + 2 /\ k + 1 # k + 2
    BY <1>N DEF Nodes
  <2> DEFINE v == [w EXCEPT ![k + 1] = g, ![k + 2] = f]
  <2>2. /\ v \in [Nodes -> Nodes]
        /\ v[k] = w[k] /\ v[k + 1] = g /\ v[k + 2] = f
        /\ \A j \in Nodes \ {k + 1, k + 2} : v[j] = w[j]
    BY <2>1, <1>1, <1>4, <1>W
  <2>3. w[k] = b
    BY <1>3
  <2> QED
    BY <2>2, <2>3
<1>6. \A j \in Nodes : w[j] \in {b, f, g} => j \in {k, k + 1, k + 2}
  BY <1>3, <1>4 DEF Order
<1>7. Order(v)'
  <2>1. v[1] = FirstNode
    <3>1. 1 \in Nodes \ {k + 1, k + 2}
      BY <1>3, <1>N, StorageAssumption DEF Nodes
    <3> QED
      BY <3>1, <1>5, <1>W
  <2>2. ASSUME NEW n \in Nodes PROVE \E j \in Nodes : v[j] = n
    <3>1. CASE n \in {f, g}
      BY <3>1, <1>4, <1>5
    <3>2. CASE n \notin {f, g}
      <4>1. PICK j \in Nodes : w[j] = n
        BY <1>W
      <4>2. j \notin {k + 1, k + 2}
        BY <4>1, <3>2, <1>4
      <4> QED
        BY <4>1, <4>2, <1>5
    <3> QED
      BY <3>1, <3>2
  <2>3. ASSUME NEW j \in Nodes, NEW l \in Nodes, v[j] = v[l] PROVE j = l
    BY <2>3, <1>1, <1>3, <1>4, <1>5, <1>W
  <2>4. ASSUME NEW j \in Nodes
        PROVE  /\ j # N => Settled(v[j])' = v[j + 1]
               /\ j = N => Settled(v[j])' = End
    <3>1. CASE j = k
      BY <3>1, <1>2, <1>4, <1>5, <1>N DEF Nodes
    <3>2. CASE j = k + 1
      <4>1. j + 1 = k + 2 /\ j # N
        BY <3>2, <1>3, <1>4, StorageAssumption DEF Nodes
      <4> QED
        BY <4>1, <3>2, <1>2, <1>5
    <3>3. CASE j = k + 2
      <4>1. Settled(v[j])' = Settled(w[j])
        BY <3>3, <1>2, <1>4, <1>5
      <4>2. j # N => j + 1 \in Nodes \ {k + 1, k + 2}
        BY <3>3, <1>3, StorageAssumption DEF Nodes
      <4> QED
        BY <4>1, <4>2, <1>5 DEF Order
    <3>4. CASE j \notin {k, k + 1, k + 2}
      <4>1. v[j] = w[j] /\ w[j] \in Nodes \ {b, f, g}
        BY <3>4, <1>5, <1>6 DEF Order
      <4>2. Settled(v[j])' = Settled(w[j])
        BY <4>1, <1>2
      <4>3. j # N => j + 1 \in Nodes \ {k + 1, k + 2}
        BY <3>4, <1>3, StorageAssumption DEF Nodes
      <4> QED
        BY <4>2, <4>3, <1>5 DEF Order
    <3> QED
      BY <3>1, <3>2, <3>3, <3>4
  <2>5. N \in Nodes
    BY StorageAssumption DEF Nodes
  <2> QED
    BY <1>5, <2>1, <2>2, <2>3, <2>4, <2>5 DEF Order
<1>8. ASSUME NEW c \in Checkers, pc'[c] # "start"
      PROVE  \E j \in Nodes : v[j] = At(c)' /\ seen'[c] = {v[l] : l \in 1..j}
  <2>1. pc'[c] = pc[c] /\ At(c)' = At(c) /\ seen'[c] = seen[c]
    BY StorageAssumption DEF StoreFirst, Goto, At, Inv, TypeOK, Threads
  <2>2. PICK j \in Nodes : w[j] = At(c) /\ seen[c] = {w[l] : l \in 1..j}
    BY <1>8, <2>1 DEF InPlace
  <2>3. c \in holders[At(c)] /\ At(c) \in Nodes
    BY <1>8, <2>1, <2>2 DEF At, Links, CheckerLocks, Order
  <2>4. At(c) \notin {b, f, g}
    BY <1>1, <2>3, HeldAlone, StorageAssumption
  <2>5. j \notin {k, k + 1, k + 2}
    BY <1>3, <1>4, <2>2, <2>4
  <2>6. {v[l] : l \in 1..j} = {w[l] : l \in 1..j}
    <3>1. CASE j < k
      <4>1. ASSUME NEW l \in 1..j PROVE v[l] = w[l]
        <5>1. l \in Nodes \ {k + 1, k + 2}
          BY <3>1, <1>3, <1>N, <2>2 DEF Nodes
        <5> QED
          BY <5>1, <1>5
      <4> QED
        BY <4>1
    <3>2. CASE j > k + 2
      <4>1. k + 1 \in 1..j /\ k + 2 \in 1..j /\ 1..j \subseteq Nodes
        BY <3>2, <1>3, <1>N DEF Nodes
      <4>2. \A l \in 1..j : l \notin {k + 1, k + 2} => v[l] = w[l]
        BY <4>1, <1>5
      <4>3. ASSUME NEW l \in 1..j PROVE \E m \in 1..j : v[l] = w[m]
        BY <4>1, <4>2, <1>4, <1>5
      <4>4. ASSUME NEW l \in 1..j PROVE \E m \in 1..j : w[l] = v[m]
        BY <4>1, <4>2, <1>4, <1>5
      <4> QED
        BY <4>3, <4>4
    <3>3. j < k \/ j > k + 2
      BY <2>5, <1>N DEF Nodes
    <3> QED
      BY <3>1, <3>2, <3>3
  <2>7. v[j] = w[j]
    BY <2>5, <1>5
  <2> QED
    BY <2>1, <2>2, <2>6, <2>7
<1> QED
  BY <1>7, <1>8 DEF InPlace
-----------------------------------------------------------------------------
\* The list main builds is in the order of its nodes.
LEMMA InitWhole == Init => WholeInv
<1> SUFFICES ASSUME Init PROVE WholeInv
  OBVIOUS
<1>1. Inv
  BY InitInv
<1>2. Links
  BY DEF Init, Links, CheckerLocks, Linked, Threads
<1> DEFINE w == [n \in Nodes |-> n]
<1>3. Order(w)
  <2>1. \A n \in Nodes : Pending(n) = {}
    BY StorageAssumption DEF Init, Pending, Threads
  <2>2. \A n \in Nodes : Settled(n) = IF n = N THEN End ELSE n + 1
    BY <2>1 DEF Settled, Init
  <2>3. 1 \in Nodes /\ N \in Nodes
    BY StorageAssumption DEF Nodes
  <2>4. \A n \in Nodes : n # N => n + 1 \in Nodes
    BY StorageAssumption DEF Nodes
  <2> QED
    BY <2>2, <2>3, <2>4 DEF Order, FirstNode
<1>4. InPlace(w)
  BY DEF Init, InPlace, Threads
<1> HIDE DEF w
<1> QED
  BY <1>1, <1>2, <1>3, <1>4 DEF WholeInv, Ordered

LEMMA NextWhole == WholeInv /\ [Next]_vars => WholeInv'
<1> SUFFICES ASSUME WholeInv, [Next]_vars PROVE WholeInv'
  OBVIOUS
<1>1. Inv' /\ Links'
  BY NextInv, NextLinks, OrderedNoLoop DEF WholeInv
<1>2. PICK w : Order(w) /\ InPlace(w)
  BY DEF WholeInv, Ordered
<1>3. CASE \A s \in Swappers : ~StoreFirst(s)
  BY <1>1, <1>2, <1>3, OthersKeepOrder DEF WholeInv, Ordered
<1>4. ASSUME NEW s \in Swappers, StoreFirst(s) PROVE WholeInv'
  <2>1. PICK v : Order(v)' /\ InPlace(v)'
    BY <1>2, <1>4, StoreFirstKeepsOrder
  <2> QED
    BY <1>1, <2>1 DEF WholeInv, Ordered
<1> QED
  BY <1>3, <1>4

-----------------------------------------------------------------------------
(* The walk along the settled list is the order: by induction on the       *)
(* position, in the form that there is no first one at which they differ.  *)

\* Every set of natural numbers that is not empty has a least element.
LEMMA LeastElement ==
    ASSUME NEW T, T \subseteq Nat, T # {}
    PROVE  \E x \in T : \A y \in T : x <= y
<1> DEFINE R == OpToRel(<, Nat)
<1>1. IsWellFoundedOn(R, Nat)
  BY NatLessThanWellFounded
<1>2. \A x, y \in Nat : x < y => <<x, y>> \in R
  BY DEF OpToRel
<1> HIDE DEF R
<1>3. \E x \in T : \A y \in T : ~ (<<y, x>> \in R)
  BY <1>1, WFMin
<1>4. \A x, y \in T : ~ (<<y, x>> \in R) => x <= y
  BY <1>2
<1> QED
  BY <1>3, <1>4

\* One step of the recursion that defines Walk.
WalkStep(w) == [k \in Nodes |->
    IF k = 1 THEN FirstNode
    ELSE IF w[k - 1] = End THEN End ELSE Settled(w[k - 1])]

LEMMA WalkIsOrder ==
    ASSUME NEW w, Order(w)
    PROVE  Walk = w
<1>1. w = WalkStep(w)
  <2>1. w = [k \in Nodes |-> w[k]]
    BY DEF Order
  <2>2. ASSUME NEW k \in Nodes PROVE w[k] = WalkStep(w)[k]
    <3>1. CASE k = 1
      BY <3>1 DEF WalkStep, Order
    <3>2. CASE k # 1
      <4>1. k - 1 \in Nodes /\ (k - 1) + 1 = k /\ k - 1 # N
        BY <3>2, StorageAssumption DEF Nodes
      <4>2. w[k - 1] \in Nodes /\ Settled(w[k - 1]) = w[(k - 1) + 1]
        BY <4>1 DEF Order
      <4>3. w[k - 1] # End /\ Settled(w[k - 1]) = w[k]
        BY <4>1, <4>2 DEF Nodes, End
      <4> QED
        BY <3>2, <4>3 DEF WalkStep
    <3> QED
      BY <3>1, <3>2
  <2> QED
    BY <2>1, <2>2 DEF WalkStep
<1>2. Walk = CHOOSE v : v = WalkStep(v)
  BY DEF Walk, WalkStep
<1>3. Walk = WalkStep(Walk)
  BY <1>1, <1>2
<1> DEFINE Differ == {n \in Nodes : Walk[n] # w[n]}
<1>4. ASSUME NEW n \in Differ, \A m \in Differ : n <= m PROVE FALSE
  <2>1. WalkStep(Walk)[n] = Walk[n] /\ WalkStep(w)[n] = w[n]
    BY <1>1, <1>3
  <2>2. CASE n = 1
    BY <2>1, <2>2 DEF WalkStep
  <2>3. CASE n # 1
    <3>1. n - 1 \in Nodes /\ n - 1 \notin Differ
      BY <1>4, <2>3, StorageAssumption DEF Nodes
    <3>2. Walk[n - 1] = w[n - 1]
      BY <3>1
    <3> QED
      BY <2>1, <2>3, <3>2 DEF WalkStep
  <2> QED
    BY <2>2, <2>3
<1>5. Differ = {}
  <2>1. Differ \subseteq Nat
    BY StorageAssumption DEF Nodes
  <2> HIDE DEF Differ
  <2> QED
    BY <1>4, <2>1, LeastElement
<1>6. \A n \in Nodes : Walk[n] = w[n]
  BY <1>5
<1>7. WalkStep(w) = WalkStep(Walk)
  BY <1>1, <1>3, <1>6 DEF WalkStep
<1> QED
  BY <1>1, <1>3, <1>7

\* However the stores of the swappers interleave with each other and with the
\* walks, the list that they leave has all the nodes, once each, and ends.
THEOREM ListStaysWhole == Spec => []WholeList
<1>1. WholeInv => WholeList
  <2> SUFFICES ASSUME WholeInv PROVE WholeList
    OBVIOUS
  <2>1. PICK w : Order(w)
    BY DEF WholeInv, Ordered
  <2>2. Walk = w
    BY <2>1, WalkIsOrder
  <2> QED
    BY <2>1, <2>2 DEF Order, WholeList
<1> QED
  BY <1>1, InitWhole, NextWhole, PTL DEF Spec

\* No swap moves a node past a walking checker: at each step it has seen
\* exactly the nodes up to its own, so all of them at the end.
THEOREM CheckersMissNothing == Spec => []ChecksEveryNode
<1>1. WholeInv => ChecksEveryNode
  <2> SUFFICES ASSUME WholeInv PROVE ChecksEveryNode
    OBVIOUS
  <2>1. PICK w : Order(w) /\ InPlace(w)
    BY DEF WholeInv, Ordered
  <2>2. Walk = w
    BY <2>1, WalkIsOrder
  <2> QED
    BY <2>1, <2>2 DEF InPlace, At, ChecksEveryNode
<1> QED
  BY <1>1, InitWhole, NextWhole, PTL DEF Spec

-----------------------------------------------------------------------------
(* The coroutines.                                                         *)
(*                                                                         *)
(* RingIsWhole speaks of what the scheduler reaches, by a recursive        *)
(* function, and is not inductive: it says nothing of the half inserted    *)
(* element.  The invariant lists the ring instead: RingIs(n, w) gives its  *)
(* n elements in the order of the walk, and says which of the pointers of  *)
(* an insertion or a deletion that is under way are still to be set.       *)

MainAt == {"main", "add1", "add2", "add3", "add4", "add5", "join", "waiting",
           "interrupted", "joinTest", "joinResult", "joinEnd", "detach", "ended"}
WorkerAt == {"none", "routine", "check", "setWait", "setFutex", "setCanceled",
             "switch0", "switch1", "delete2"}
Adding == {"add1", "add2", "add3", "add4", "add5"}

CoTypes ==
    /\ at \in [Coroutines -> MainAt \cup WorkerAt]
    /\ at[Main] \in MainAt
    /\ \A w \in Workers : at[w] \in WorkerAt
    /\ joinable \in [Coroutines -> BOOLEAN]
    /\ joinWait \in [Coroutines -> BOOLEAN]
    /\ canceled \in [Coroutines -> BOOLEAN]
    /\ joinFutex \in [Coroutines -> BOOLEAN]
    /\ result \in [Coroutines -> Coroutines \cup {NULL}]
    /\ errno \in {"EAGAIN", "other"} /\ misled \in BOOLEAN
    /\ at[Main] \notin {"main", "ended"} => call \in Created

\* The result of a coroutine is there before anything tells main so.
ResultIsStored ==
    /\ \A w \in Workers :
          at[w] \notin {"none", "routine"} \/ joinFutex[w] => result[w] = w
    /\ at[Main] = "joinTest" /\ errno = "EAGAIN" => joinFutex[call] \/ misled
    /\ at[Main] = "joinResult" => joinFutex[call] \/ misled

JoinInv == CoTypes /\ ResultIsStored

\* What main and the coroutine that ends do to the flags.
FlagsInv ==
    /\ Runnable(Main)
    /\ \A w \in Workers : at[w] = "none" => ~canceled[w] /\ ~joinWait[w]
    /\ \A w \in Workers :
          at[w] \in {"setFutex", "switch0", "switch1", "delete2"} => ~Runnable(w)
    /\ at[Main] \in Adding =>
          joinable[call] /\ ~canceled[call] /\ at[call] # "setCanceled"

\* Whose stack, whose context.
StacksInv ==
    /\ running \in Coroutines
    /\ context = [c \in Coroutines |-> c]
    /\ from = [w \in Workers |-> w]
    /\ handling \in {NULL, running}
    /\ handling # NULL => at[running] \notin Windows
    /\ handling = NULL /\ at[running] \notin {"switch1", "delete2"} =>
          ring.current = running
    /\ at[Main] \in {"add2", "add3"} => running = Main /\ handling = NULL
    /\ \A w \in Workers : at[w] = "delete2" =>
          /\ running = w /\ handling = NULL
          /\ canceled[ring.current]

\* w lists n different coroutines along next and back along prev, from the
\* current one on.  If cut, the last one points past the first; if loose, the
\* prev of Main may be wrong.
Chained(w, n, cut, loose) ==
    /\ n \in Nat /\ n >= (IF cut THEN 2 ELSE 1)
    /\ w \in [1..n -> Coroutines]
    /\ \A k, l \in 1..n : w[k] = w[l] => k = l
    /\ ring.current = w[1]
    /\ \A k \in 1..(n - 1) : ring.next[w[k]] = w[k + 1]
    /\ ring.next[w[n]] = (IF cut THEN w[2] ELSE w[1])
    /\ \A k \in 1..n :
          \/ ring.prev[w[k]] = (IF k = 1 THEN w[n] ELSE w[k - 1])
          \/ loose /\ w[k] = Main

Elements(w, n) == {w[k] : k \in 1..n}

\* The ring is such a list of the coroutines in R.
Lists(n, loose, R) ==
    \E v \in [1..n -> Coroutines] :
        Chained(v, n, FALSE, loose) /\ Elements(v, n) = R

Members(R) ==
    /\ Main \in R
    /\ R \subseteq Inserted \cup {Main}
    /\ \A c \in Inserted : ~canceled[c] => c \in R

RingType ==
    ring \in [next : [Coroutines -> Coroutines],
              prev : [Coroutines -> Coroutines],
              current : Coroutines,
              size : Nat]

\* The new element of cycle_deque_add.
NewElement ==
    /\ at[Main] \in {"add2", "add3", "add4"} => ring.next[call] = Main
    /\ at[Main] \in {"add2", "add3"} => prevSeen = ring.prev[Main]
    /\ at[Main] = "add3" => ring.prev[call] = ring.prev[Main]

\* The explicit switch has unlinked the current element in one direction.
Cut == at[running] = "delete2"

\* The new element is linked, but not in the prev of Main; nor counted.
Loose == at[Main] = "add4"
Uncounted == at[Main] \in {"add4", "add5"}

\* The size, of n elements.  When its increment has begun, the deletions since
\* are counted in the size that is still there, and as lost.
Counted(n) ==
    /\ lost \in Nat
    /\ at[Main] # "add5" => ring.size = (IF Uncounted THEN n - 1 ELSE n) + lost
    /\ at[Main] = "add5" => sizeSeen + 1 = n + lost /\ ring.size >= n - 1

RingIs(n, w) ==
    /\ Chained(w, n, Cut, Loose)
    /\ Members(Elements(w, n))
    /\ Counted(n)

RingInv ==
    /\ RingType
    /\ NewElement
    /\ \E n \in Nat : \E w \in [1..n -> Coroutines] : RingIs(n, w)

\* BaseInv holds wherever the ticks come, the rest while they miss the windows.
BaseInv == JoinInv /\ FlagsInv
CoInv == BaseInv /\ (~torn => StacksInv /\ RingInv)

-----------------------------------------------------------------------------
\* One step keeps the types, the results and the flags.
LEMMA NextBase == BaseInv /\ [CoNext]_coVars => BaseInv'
<1> SUFFICES ASSUME BaseInv, [CoNext]_coVars PROVE BaseInv'
  OBVIOUS
<1> USE WorkersAssumption
    DEF BaseInv, JoinInv, CoTypes, ResultIsStored, FlagsInv,
        Runnable, Created, Coroutines, MainAt, WorkerAt, Adding, flags, aside, history, ProceedTo
<1>1. ASSUME NEW w \in Workers, RoutineReturns(w) PROVE BaseInv'
  BY <1>1 DEF RoutineReturns
<1>2. ASSUME NEW w \in Workers, CheckJoinable(w) PROVE BaseInv'
  BY <1>2 DEF CheckJoinable
<1>3. ASSUME NEW w \in Workers, SetJoinWait(w) PROVE BaseInv'
  BY <1>3 DEF SetJoinWait
<1>4. ASSUME NEW w \in Workers, SetFutex(w) PROVE BaseInv'
  BY <1>4 DEF SetFutex
<1>5. ASSUME NEW w \in Workers, SetCanceled(w) PROVE BaseInv'
  BY <1>5 DEF SetCanceled
<1>6. ASSUME NEW w \in Workers, SwitchBegins(w) PROVE BaseInv'
  BY <1>6 DEF SwitchBegins
<1>7. ASSUME NEW w \in Workers, SwitchUnlinks(w) PROVE BaseInv'
  BY <1>7 DEF SwitchUnlinks
<1>8. ASSUME NEW w \in Workers, SwitchDeletes(w) PROVE BaseInv'
  BY <1>8 DEF SwitchDeletes
<1>9. ASSUME NEW w \in Workers, Create(w) PROVE BaseInv'
  BY <1>9 DEF Create, Runs
<1>10. ASSUME NEW w \in Workers, Join(w) PROVE BaseInv'
  BY <1>10 DEF Join, Calls, Runs
<1>11. ASSUME NEW w \in Workers, Detach(w) PROVE BaseInv'
  <2>1. CASE canceled[w]
    BY <1>11, <2>1 DEF Detach, Calls, Runs, history
  <2>2. CASE ~canceled[w]
    <3>1. /\ at[Main] = "main" /\ at' = [at EXCEPT ![Main] = "detach"]
          /\ call' = w /\ w \in Created
          /\ joinable' = [joinable EXCEPT ![w] = FALSE]
          /\ UNCHANGED <<joinWait, canceled, joinFutex, result, errno, misled>>
      BY <1>11, <2>2 DEF Detach, Calls, Runs, history
    <3>2. CoTypes'
      BY <3>1
    <3>3. ResultIsStored'
      BY <3>1
    <3>4. FlagsInv'
      BY <3>1
    <3> QED
      BY <3>2, <3>3, <3>4
  <2> QED
    BY <2>1, <2>2
<1>12. ASSUME NEW w \in Workers, Cancel(w) PROVE BaseInv'
  BY <1>12 DEF Cancel, Calls, Runs
<1>13. CASE Tick
  <2>1. /\ \/ at' = at
           \/ at' = [at EXCEPT ![running] = "interrupted"] /\ at[running] = "waiting"
        /\ UNCHANGED <<joinable, joinWait, canceled, joinFutex, result, call, errno, misled>>
    <3>1. CASE at[running] = "waiting"
      BY <1>13, <3>1 DEF Tick
    <3>2. CASE at[running] # "waiting"
      BY <1>13, <3>2 DEF Tick
    <3> QED
      BY <3>1, <3>2
  <2>2. /\ DOMAIN at' = Coroutines /\ at' = [c \in Coroutines |-> at'[c]]
        /\ \A w \in Workers : at'[w] = at[w]
        /\ at'[Main] = at[Main] \/ (at[Main] = "waiting" /\ at'[Main] = "interrupted")
    BY <2>1
  <2>3. CoTypes'
    BY <2>1, <2>2
  <2>4. ResultIsStored'
    BY <2>1, <2>2
  <2>5. FlagsInv'
    BY <2>1, <2>2
  <2> QED
    BY <2>3, <2>4, <2>5
<1>14. CASE SwitchPasses
  BY <1>14 DEF SwitchPasses
<1>15. CASE HandlerDeletes
  BY <1>15 DEF HandlerDeletes
<1>16. CASE SwitchEnds
  BY <1>16 DEF SwitchEnds
<1>17. CASE Add
  BY <1>17 DEF Add
<1>18. CASE JoinWaits
  BY <1>18 DEF JoinWaits
<1>19. CASE JoinTest
  <2>1. CASE errno = "EAGAIN"
    BY <1>19, <2>1 DEF JoinTest
  <2>2. CASE errno # "EAGAIN"
    <3>1. /\ at[Main] = "joinTest" /\ at' = [at EXCEPT ![Main] = "main"]
          /\ canceled' = [canceled EXCEPT ![call] = TRUE]
          /\ call \in Workers /\ call # Main
          /\ UNCHANGED <<joinable, joinWait, joinFutex, result, call, errno, misled>>
      BY <1>19, <2>2 DEF JoinTest
    <3>2. CoTypes'
      BY <3>1
    <3>3. ResultIsStored'
      BY <3>1
    <3>4. FlagsInv'
      BY <3>1
    <3> QED
      BY <3>2, <3>3, <3>4
  <2> QED
    BY <2>1, <2>2
<1>20. CASE JoinResult
  BY <1>20 DEF JoinResult
<1>21. CASE JoinEnd
  BY <1>21 DEF JoinEnd
<1>22. CASE DetachEnd
  BY <1>22 DEF DetachEnd
<1>23. CASE MainReturns
  BY <1>23 DEF MainReturns
<1>24. CASE UNCHANGED coVars
  BY <1>24 DEF coVars
<1>25. ASSUME NEW w \in Workers, RoutineSetsErrno(w) PROVE BaseInv'
  BY <1>25 DEF RoutineSetsErrno
<1> QED
  BY <1>1, <1>2, <1>3, <1>4, <1>5, <1>6, <1>7, <1>8, <1>9, <1>10, <1>11, <1>12, <1>13,
     <1>14, <1>15, <1>16, <1>17, <1>18, <1>19, <1>20, <1>21, <1>22, <1>23, <1>24, <1>25, SMTT(30)
     DEF CoNext, Loop, InCall, Wrapper

-----------------------------------------------------------------------------
(* The ring.                                                               *)

\* cycle_deque_next goes round.
LEMMA AdvanceRotates ==
    ASSUME RingType, NEW n, NEW w, NEW loose \in BOOLEAN,
           Chained(w, n, FALSE, loose), ring' = Advance(ring)
    PROVE  /\ RingType'
           /\ ring'.next = ring.next /\ ring'.prev = ring.prev
           /\ ring'.size = ring.size
           /\ \E v \in [1..n -> Coroutines] :
                 Chained(v, n, FALSE, loose)' /\ Elements(v, n) = Elements(w, n)
<1> DEFINE v == [k \in 1..n |-> IF k = n THEN w[1] ELSE w[k + 1]]
<1>1. /\ n \in Nat /\ n >= 1 /\ w \in [1..n -> Coroutines]
      /\ 1 \in 1..n /\ w[1] \in Coroutines
  BY DEF Chained
<1>2. /\ ring'.next = ring.next /\ ring'.prev = ring.prev
      /\ ring'.size = ring.size /\ ring'.current = ring.next[w[1]]
      /\ RingType'
  BY <1>1 DEF RingType, Advance, Chained
<1>3. v \in [1..n -> Coroutines]
  BY <1>1
<1>4. Chained(v, n, FALSE, loose)'
  <2>1. \A k, l \in 1..n : v[k] = v[l] => k = l
    BY <1>1 DEF Chained
  <2>2. ring'.current = v[1]
    BY <1>1, <1>2 DEF Chained
  <2>3. \A k \in 1..(n - 1) : ring'.next[v[k]] = v[k + 1]
    BY <1>1, <1>2 DEF Chained
  <2>4. ring'.next[v[n]] = v[1]
    BY <1>1, <1>2 DEF Chained
  <2>5. \A k \in 1..n :
           \/ ring'.prev[v[k]] = (IF k = 1 THEN v[n] ELSE v[k - 1])
           \/ loose /\ v[k] = Main
    BY <1>1, <1>2 DEF Chained
  <2> HIDE DEF v
  <2> QED
    BY <1>1, <1>3, <2>1, <2>2, <2>3, <2>4, <2>5 DEF Chained
<1>5. Elements(v, n) = Elements(w, n)
  <2>1. ASSUME NEW k \in 1..n PROVE \E l \in 1..n : v[l] = w[k]
    <3>1. CASE k = 1
      BY <1>1, <3>1
    <3>2. CASE k # 1
      <4>1. k - 1 \in 1..n /\ v[k - 1] = w[k]
        BY <1>1, <3>2
      <4> QED
        BY <4>1
    <3> QED
      BY <3>1, <3>2
  <2>2. ASSUME NEW k \in 1..n PROVE \E l \in 1..n : v[k] = w[l]
    BY <1>1
  <2> HIDE DEF v
  <2> QED
    BY <2>1, <2>2 DEF Elements
<1> HIDE DEF v
<1> QED
  BY <1>2, <1>3, <1>4, <1>5

\* cycle_deque_delete takes the current element out, whether or not a part of
\* its work has been done already.
LEMMA DeleteShortens ==
    ASSUME RingType, NEW n \in Nat, NEW w \in [1..n -> Coroutines],
           NEW cut \in BOOLEAN, NEW loose \in BOOLEAN,
           Chained(w, n, cut, loose), n >= 2, w[1] # Main, ring.size > 1,
           ring' = Delete(ring)
    PROVE  /\ RingType'
           /\ ring'.size = ring.size - 1
           /\ ring'.next = [ring.next EXCEPT ![w[n]] = w[2]]
           /\ Lists(n - 1, loose, Elements(w, n) \ {w[1]})'
<1> DEFINE v == [k \in 1..(n - 1) |-> w[k + 1]]
<1>1. /\ n \in Nat /\ w \in [1..n -> Coroutines]
      /\ 1 \in 1..n /\ 2 \in 1..n /\ n \in 1..n
      /\ w[1] \in Coroutines /\ w[2] \in Coroutines /\ w[n] \in Coroutines
  BY DEF Chained
<1>2. /\ ring.current = w[1] /\ ring.next[w[1]] = w[2] /\ ring.prev[w[1]] = w[n]
  BY <1>1 DEF Chained
<1>3. /\ ring'.next = [ring.next EXCEPT ![w[n]] = w[2]]
      /\ ring'.prev = [ring.prev EXCEPT ![w[2]] = w[n]]
      /\ ring'.current = w[2] /\ ring'.size = ring.size - 1
      /\ RingType'
  <2>1. ring' = [ring EXCEPT !.next[w[n]] = w[2], !.prev[w[2]] = w[n],
                             !.current = w[2], !.size = @ - 1]
    BY <1>2 DEF RingType, Delete
  <2>2. ring.size - 1 \in Nat
    BY DEF RingType
  <2>3. /\ ring'.next = [ring.next EXCEPT ![w[n]] = w[2]]
        /\ ring'.prev = [ring.prev EXCEPT ![w[2]] = w[n]]
        /\ ring'.current = w[2] /\ ring'.size = ring.size - 1
    BY <2>1 DEF RingType
  <2>4. ring' = [next |-> ring'.next, prev |-> ring'.prev,
                 current |-> ring'.current, size |-> ring'.size]
    BY <2>1 DEF RingType
  <2>5. /\ ring'.next \in [Coroutines -> Coroutines]
        /\ ring'.prev \in [Coroutines -> Coroutines]
    BY <1>1, <2>3 DEF RingType
  <2>6. RingType'
    BY <1>1, <2>2, <2>3, <2>4, <2>5, SMTT(30) DEF RingType
  <2> QED
    BY <2>3, <2>6
<1>4. v \in [1..(n - 1) -> Coroutines]
  BY <1>1
<1>5. Chained(v, n - 1, FALSE, loose)'
  <2>1. \A k, l \in 1..(n - 1) : v[k] = v[l] => k = l
    BY <1>1 DEF Chained
  <2>2. ring'.current = v[1]
    BY <1>1, <1>3
  <2>3. \A k \in 1..((n - 1) - 1) : ring'.next[v[k]] = v[k + 1]
    BY <1>1, <1>3 DEF Chained, RingType
  <2>4. ring'.next[v[n - 1]] = v[1]
    BY <1>1, <1>3 DEF RingType
  <2>5. ASSUME NEW k \in 1..(n - 1)
        PROVE \/ ring'.prev[v[k]] = (IF k = 1 THEN v[n - 1] ELSE v[k - 1])
              \/ loose /\ v[k] = Main
    <3>1. CASE k = 1
      BY <1>1, <1>3, <3>1 DEF RingType
    <3>2. CASE k # 1
      <4>1. w[k + 1] # w[2] /\ k + 1 \in 1..n
        BY <1>1, <3>2 DEF Chained
      <4>2. ring.prev[w[k + 1]] = w[k] \/ (loose /\ w[k + 1] = Main)
        BY <1>1, <3>2, <4>1 DEF Chained
      <4> QED
        BY <1>1, <1>3, <3>2, <4>1, <4>2 DEF RingType
    <3> QED
      BY <3>1, <3>2
  <2> HIDE DEF v
  <2> QED
    BY <1>1, <1>4, <2>1, <2>2, <2>3, <2>4, <2>5 DEF Chained
<1>6. Elements(v, n - 1) = Elements(w, n) \ {w[1]}
  <2>1. ASSUME NEW k \in 1..n, w[k] # w[1] PROVE \E l \in 1..(n - 1) : v[l] = w[k]
    <3>1. k - 1 \in 1..(n - 1) /\ v[k - 1] = w[k]
      BY <1>1, <2>1
    <3> QED
      BY <3>1
  <2>2. ASSUME NEW k \in 1..(n - 1)
        PROVE \E l \in 1..n : v[k] = w[l] /\ w[l] # w[1]
    <3>1. k + 1 \in 1..n /\ w[k + 1] # w[1] /\ v[k] = w[k + 1]
      BY <1>1 DEF Chained
    <3> QED
      BY <3>1
  <2> HIDE DEF v
  <2>3. \A x \in Elements(v, n - 1) : x \in Elements(w, n) \ {w[1]}
    BY <2>2 DEF Elements
  <2>4. \A x \in Elements(w, n) \ {w[1]} : x \in Elements(v, n - 1)
    BY <2>1 DEF Elements
  <2> QED
    BY <2>3, <2>4
<1> HIDE DEF v
<1>7. Lists(n - 1, loose, Elements(w, n) \ {w[1]})'
  BY <1>4, <1>5, <1>6 DEF Lists
<1> QED
  BY <1>3, <1>7

-----------------------------------------------------------------------------
(* Steps that leave the insertion where it is.                             *)

SameStage ==
    /\ \/ at'[Main] = at[Main] /\ call' = call
       \/ at[Main] \notin Adding /\ at'[Main] \notin Adding \ {"add1"}
    /\ Inserted' = Inserted
    /\ \A c \in Coroutines : canceled[c] => canceled'[c]
    /\ UNCHANGED registers

\* What SameStage is for.
LEMMA StageFacts ==
    ASSUME BaseInv, RingType, SameStage
    PROVE  /\ Loose' = Loose /\ Uncounted' = Uncounted
           /\ Loose \in BOOLEAN
           /\ \A R : Members(R) => Members(R)'
           /\ at'[Main] \in {"add2", "add3", "add4"} =>
                 at'[Main] = at[Main] /\ call' = call
           /\ (at'[Main] = "add5") = (at[Main] = "add5")
           /\ prevSeen' = prevSeen /\ sizeSeen' = sizeSeen
  BY DEF SameStage, Loose, Uncounted, Adding, Members, Inserted, Created, BaseInv,
         JoinInv, CoTypes, Coroutines, registers

LEMMA RingUntouched ==
    ASSUME BaseInv, RingInv, SameStage, ring' = ring, Cut' = Cut, lost' = lost
    PROVE  RingInv'
<1>0. PICK n \in Nat : \E w \in [1..n -> Coroutines] : RingIs(n, w)
  BY DEF RingInv
<1>1. PICK w \in [1..n -> Coroutines] : RingIs(n, w)
  BY <1>0
<1>2. Chained(w, n, Cut, Loose)'
  BY <1>1, StageFacts DEF RingInv, RingIs, Chained
<1>3. Members(Elements(w, n))'
  BY <1>1, StageFacts DEF RingInv, RingIs, Elements
<1>4. NewElement' /\ RingType'
  BY StageFacts DEF RingInv, NewElement, RingType
<1> QED
  BY <1>1, <1>2, <1>3, <1>4, StageFacts DEF RingInv, RingIs, Counted

LEMMA RingRotated ==
    ASSUME BaseInv, RingInv, SameStage, ring' = Advance(ring), ~Cut, ~Cut',
           lost' = lost
    PROVE  RingInv'
<1>0. PICK n \in Nat : \E w \in [1..n -> Coroutines] : RingIs(n, w)
  BY DEF RingInv
<1>1. PICK w \in [1..n -> Coroutines] : RingIs(n, w)
  BY <1>0
<1>2. Chained(w, n, FALSE, Loose) /\ Cut = FALSE /\ Cut' = FALSE
  BY <1>1 DEF RingIs, Cut
<1>3. PICK loose \in BOOLEAN : loose = Loose
  BY DEF Loose
<1>4. /\ RingType'
      /\ ring'.next = ring.next /\ ring'.prev = ring.prev
      /\ ring'.size = ring.size
  BY <1>2, <1>3, AdvanceRotates DEF RingInv
<1>5. PICK v \in [1..n -> Coroutines] :
         Chained(v, n, FALSE, loose)' /\ Elements(v, n) = Elements(w, n)
  BY <1>2, <1>3, AdvanceRotates DEF RingInv
<1>6. Chained(v, n, Cut, Loose)'
  BY <1>2, <1>3, <1>5, StageFacts DEF RingInv
<1>7. Members(Elements(v, n))'
  BY <1>1, <1>5, StageFacts DEF RingInv, RingIs, Elements
<1>8. NewElement'
  BY <1>4, StageFacts DEF RingInv, NewElement
<1> QED
  BY <1>1, <1>4, <1>6, <1>7, <1>8, StageFacts DEF RingInv, RingIs, Counted

\* The element that goes is cancelled, so neither main nor the new one; the
\* ring is never emptied.
LEMMA RingIsShorter ==
    ASSUME BaseInv, RingType, NEW n \in Nat, NEW w \in [1..n -> Coroutines],
           RingIs(n, w), canceled[ring.current]
    PROVE  n >= 2 /\ w[1] # Main /\ ring.size > 1
<1>1. w[1] # Main /\ w[1] = ring.current
  BY DEF RingIs, Chained, BaseInv, FlagsInv, Runnable
<1>2. PICK a \in 1..n : w[a] = Main
  BY DEF RingIs, Members, Elements
<1>3. n >= 2
  BY <1>1, <1>2
<1>4. CASE Uncounted
  <2>1. call \in Inserted /\ ~canceled[call] /\ call # Main
    BY <1>4, WorkersAssumption
       DEF Uncounted, Inserted, BaseInv, JoinInv, CoTypes, FlagsInv, Adding, Created
  <2>2. PICK b \in 1..n : w[b] = call
    BY <2>1 DEF RingIs, Members, Elements
  <2>3. n >= 3
    BY <1>1, <1>2, <2>1, <2>2
  <2>4. ring.size >= n - 1
    BY <1>4 DEF RingIs, Counted, Uncounted
  <2>5. ring.size \in Nat
    BY DEF RingType
  <2> QED
    BY <1>1, <2>3, <2>4, <2>5
<1>5. CASE ~Uncounted
  BY <1>1, <1>3, <1>5 DEF RingIs, Counted, Uncounted
<1> QED
  BY <1>4, <1>5

LEMMA RingShortened ==
    ASSUME BaseInv, RingInv, SameStage, ring' = Delete(ring),
           canceled[ring.current], at[Main] \notin {"add2", "add3"}, ~Cut', CountLost
    PROVE  RingInv'
<1>0. PICK n \in Nat : \E w \in [1..n -> Coroutines] : RingIs(n, w)
  BY DEF RingInv
<1>1. PICK w \in [1..n -> Coroutines] : RingIs(n, w)
  BY <1>0
<1>2. n >= 2 /\ w[1] # Main /\ ring.size > 1
  BY <1>1, RingIsShorter DEF RingInv
<1>3. PICK cut \in BOOLEAN, loose \in BOOLEAN : cut = Cut /\ loose = Loose
  BY DEF Cut, Loose
<1>4. Chained(w, n, cut, loose) /\ RingType
  BY <1>1, <1>3 DEF RingIs, RingInv
<1>5. /\ RingType'
      /\ ring'.size = ring.size - 1
      /\ ring'.next = [ring.next EXCEPT ![w[n]] = w[2]]
      /\ Lists(n - 1, loose, Elements(w, n) \ {w[1]})'
  BY <1>2, <1>4, DeleteShortens, ZenonT(40)
<1>6. Lists(n - 1, loose, Elements(w, n) \ {w[1]})'
  BY <1>5
<1>7. PICK v \in [1..(n - 1) -> Coroutines] :
         /\ Chained(v, n - 1, FALSE, loose)'
         /\ Elements(v, n - 1) = Elements(w, n) \ {w[1]}
  BY <1>6 DEF Lists
<1>8. Chained(v, n - 1, Cut, Loose)'
  BY <1>3, <1>4, <1>7, StageFacts DEF Cut
<1>9. Members(Elements(v, n - 1))'
  <2>1. Members(Elements(w, n))' /\ canceled'[w[1]]
    BY <1>1, <1>4, StageFacts DEF RingIs, Chained, Elements, SameStage, RingType
  <2> QED
    BY <1>2, <1>7, <2>1 DEF Members, Elements
<1>10. NewElement'
  <2> SUFFICES ASSUME at'[Main] \in {"add2", "add3", "add4"}
               PROVE  NewElement'
    BY DEF NewElement
  <2>1. at'[Main] = at[Main] /\ call' = call /\ ring.next[call] = Main
    BY <1>4, StageFacts DEF RingInv, NewElement
  <2>2. call \in Workers /\ call \in Coroutines
    BY <2>1 DEF BaseInv, JoinInv, CoTypes, Created, Coroutines
  <2>3. ring'.next[call] = Main
    <3>1. CASE call # w[n]
      BY <1>4, <1>5, <2>1, <2>2, <3>1 DEF RingType
    <3>2. CASE call = w[n] /\ cut
      BY <1>4, <1>5, <2>1, <2>2, <3>2 DEF RingType, Chained
    <3>3. CASE call = w[n] /\ ~cut
      BY <1>2, <1>4, <2>1, <3>3 DEF Chained
    <3> QED
      BY <3>1, <3>2, <3>3
  <2> QED
    BY <2>1, <2>3 DEF NewElement
<1>11. n - 1 \in Nat /\ Counted(n - 1)'
  <2>1. /\ n - 1 \in Nat /\ ring.size \in Nat /\ ring'.size = ring.size - 1
        /\ Uncounted' = Uncounted /\ (at'[Main] = "add5") = (at[Main] = "add5")
        /\ sizeSeen' = sizeSeen /\ lost \in Nat
    BY <1>1, <1>2, <1>4, <1>5, StageFacts DEF RingIs, RingType, Counted
  <2>2. CASE at[Main] = "add5"
    <3>1. lost' = lost + 1 /\ sizeSeen + 1 = n + lost /\ ring.size >= n - 1
      BY <1>1, <2>2 DEF RingIs, Counted, CountLost
    <3> QED
      BY <2>1, <2>2, <3>1 DEF Counted
  <2>3. CASE at[Main] # "add5"
    <3>1. lost' = lost /\ ring.size = (IF Uncounted THEN n - 1 ELSE n) + lost
      BY <1>1, <2>3 DEF RingIs, Counted, CountLost
    <3> QED
      BY <2>1, <2>3, <3>1 DEF Counted
  <2> QED
    BY <2>2, <2>3
<1>12. RingIs(n - 1, v)'
  BY <1>8, <1>9, <1>11 DEF RingIs
<1> QED
  BY <1>5, <1>10, <1>11, <1>12 DEF RingInv

\* The explicit switch may stop after the first of the two pointers.
LEMMA RingUnlinked ==
    ASSUME BaseInv, RingInv, SameStage, canceled[ring.current],
           at[Main] \notin {"add2", "add3"}, ~Cut, Cut', lost' = lost,
           ring' = [ring EXCEPT !.next[ring.prev[ring.current]] = ring.next[ring.current]]
    PROVE  RingInv'
<1>0. PICK n \in Nat : \E w \in [1..n -> Coroutines] : RingIs(n, w)
  BY DEF RingInv
<1>1. PICK w \in [1..n -> Coroutines] : RingIs(n, w)
  BY <1>0
<1>2. n >= 2 /\ w[1] # Main /\ ring.size > 1
  BY <1>1, RingIsShorter DEF RingInv
<1>3. PICK loose \in BOOLEAN : loose = Loose
  BY DEF Loose
<1>4. Chained(w, n, FALSE, loose) /\ RingType
  BY <1>1, <1>3 DEF RingIs, RingInv, Cut
<1>5. /\ 1 \in 1..n /\ 2 \in 1..n /\ n \in 1..n
      /\ w[1] \in Coroutines /\ w[2] \in Coroutines /\ w[n] \in Coroutines
      /\ ring.current = w[1] /\ ring.next[w[1]] = w[2] /\ ring.prev[w[1]] = w[n]
      /\ ring.next[w[n]] = w[1]
  BY <1>2, <1>4 DEF Chained
<1>6. ring' = [ring EXCEPT !.next[w[n]] = w[2]]
  BY <1>5
<1>7. /\ ring'.next = [ring.next EXCEPT ![w[n]] = w[2]]
      /\ ring'.prev = ring.prev /\ ring'.current = ring.current
      /\ ring'.size = ring.size
  BY <1>4, <1>6 DEF RingType
<1>8. RingType'
  <2>1. ring' = [next |-> ring'.next, prev |-> ring'.prev,
                 current |-> ring'.current, size |-> ring'.size]
    BY <1>4, <1>6 DEF RingType
  <2> QED
    BY <1>4, <1>5, <1>7, <2>1 DEF RingType
<1>9. Chained(w, n, TRUE, loose)'
  <2>1. \A k \in 1..(n - 1) : ring'.next[w[k]] = w[k + 1]
    BY <1>4, <1>5, <1>7 DEF Chained, RingType
  <2>2. ring'.next[w[n]] = w[2]
    BY <1>4, <1>5, <1>7 DEF RingType
  <2> QED
    BY <1>2, <1>4, <1>7, <2>1, <2>2 DEF Chained
<1>10. Chained(w, n, Cut, Loose)'
  BY <1>3, <1>9, StageFacts, <1>4 DEF Cut
<1>11. Members(Elements(w, n))'
  BY <1>1, <1>4, StageFacts DEF RingIs, Elements
<1>12. NewElement'
  <2> SUFFICES ASSUME at'[Main] \in {"add2", "add3", "add4"}
               PROVE  NewElement'
    BY DEF NewElement
  <2>1. at'[Main] = at[Main] /\ call' = call /\ ring.next[call] = Main
    BY <1>4, StageFacts DEF RingInv, NewElement
  <2>2. call # w[n] /\ call \in Coroutines
    BY <1>2, <1>5, <2>1 DEF BaseInv, JoinInv, CoTypes, Created, Coroutines
  <2> QED
    BY <1>4, <1>5, <1>7, <2>1, <2>2 DEF NewElement, RingType
<1>13. Counted(n)'
  BY <1>1, <1>4, <1>7, StageFacts DEF RingIs, Counted
<1>14. RingIs(n, w)'
  BY <1>10, <1>11, <1>13 DEF RingIs
<1> QED
  BY <1>8, <1>12, <1>14 DEF RingInv

-----------------------------------------------------------------------------
(* cycle_deque_add, in its five assignments.                               *)

\* Main, in the insertion, is the current element.
LEMMA InsertionFacts ==
    ASSUME BaseInv, StacksInv, RingInv, Add
    PROVE  /\ running = Main /\ ring.current = Main
           /\ Cut = FALSE /\ Cut' = FALSE
           /\ call \in Workers /\ call \in Created /\ call # Main
           /\ call \in Coroutines /\ Main \in Coroutines
           /\ ~canceled[call]
           /\ call' = call /\ canceled' = canceled /\ Created' = Created
           /\ lost' = lost
  BY WorkersAssumption
     DEF BaseInv, JoinInv, CoTypes, FlagsInv, StacksInv, Add, Runs, Cut, Created,
         Coroutines, Adding, MainAt, WorkerAt, ProceedTo, flags, history

\* The new element's own pointers are set.
LEMMA AddPrepares ==
    ASSUME BaseInv, StacksInv, RingInv, Add, at[Main] \in {"add1", "add2"}
    PROVE  RingInv'
<1> USE InsertionFacts
<1>0. PICK n \in Nat : \E w \in [1..n -> Coroutines] : RingIs(n, w)
  BY DEF RingInv
<1>1. PICK w \in [1..n -> Coroutines] : RingIs(n, w)
  BY <1>0
<1>2. /\ Chained(w, n, FALSE, FALSE) /\ RingType
      /\ ring.size = n + lost /\ lost \in Nat
      /\ Members(Elements(w, n))
  BY <1>1 DEF RingIs, RingInv, Loose, Uncounted, Counted
<1>3. \A k \in 1..n : w[k] # call
  BY <1>2 DEF Members, Elements, Inserted
<1>4. /\ ring'.next \in [Coroutines -> Coroutines]
      /\ ring'.prev \in [Coroutines -> Coroutines]
      /\ \A c \in Coroutines \ {call} :
            ring'.next[c] = ring.next[c] /\ ring'.prev[c] = ring.prev[c]
      /\ ring'.current = ring.current /\ ring'.size = ring.size
      /\ RingType' /\ NewElement'
      /\ at'[Main] \in {"add2", "add3"}
  <2>1. CASE at[Main] = "add1"
    <3>1. /\ ring' = [ring EXCEPT !.next[call] = Main] /\ at'[Main] = "add2"
          /\ prevSeen' = ring.prev[Main]
      BY <2>1 DEF Add, ProceedTo, BaseInv, JoinInv, CoTypes
    <3>2. /\ ring'.next = [ring.next EXCEPT ![call] = Main]
          /\ ring'.prev = ring.prev /\ ring'.current = ring.current
          /\ ring'.size = ring.size
          /\ ring' = [next |-> ring'.next, prev |-> ring'.prev,
                      current |-> ring'.current, size |-> ring'.size]
      BY <1>2, <3>1 DEF RingType
    <3>3. ring'.next[call] = Main
      BY <1>2, <3>2 DEF RingType
    <3> QED
      BY <1>2, <3>1, <3>2, <3>3 DEF RingType, NewElement
  <2>2. CASE at[Main] = "add2"
    <3>1. /\ ring' = [ring EXCEPT !.prev[call] = ring.prev[Main]]
          /\ at'[Main] = "add3" /\ ring.next[call] = Main
          /\ prevSeen' = ring.prev[Main]
      BY <2>2 DEF Add, ProceedTo, BaseInv, JoinInv, CoTypes, RingInv, NewElement
    <3>2. /\ ring'.prev = [ring.prev EXCEPT ![call] = ring.prev[Main]]
          /\ ring'.next = ring.next /\ ring'.current = ring.current
          /\ ring'.size = ring.size
          /\ ring' = [next |-> ring'.next, prev |-> ring'.prev,
                      current |-> ring'.current, size |-> ring'.size]
      BY <1>2, <3>1 DEF RingType
    <3>3. ring'.prev[call] = ring'.prev[Main]
      BY <1>2, <3>2 DEF RingType
    <3> QED
      BY <1>2, <3>1, <3>2, <3>3 DEF RingType, NewElement
  <2> QED
    BY <2>1, <2>2
<1>5. Chained(w, n, FALSE, FALSE)'
  <2>1. \A k \in 1..n : /\ w[k] \in Coroutines \ {call}
                        /\ ring'.next[w[k]] = ring.next[w[k]]
                        /\ ring'.prev[w[k]] = ring.prev[w[k]]
    BY <1>2, <1>3, <1>4 DEF Chained
  <2>2. \A k \in 1..(n - 1) : ring'.next[w[k]] = w[k + 1]
    BY <1>2, <2>1 DEF Chained
  <2>3. n \in 1..n /\ ring'.next[w[n]] = w[1]
    BY <1>2, <2>1 DEF Chained
  <2>4. \A k \in 1..n : ring'.prev[w[k]] = (IF k = 1 THEN w[n] ELSE w[k - 1])
    BY <1>2, <2>1 DEF Chained
  <2>5. /\ \A k, l \in 1..n : w[k] = w[l] => k = l
        /\ ring'.current = w[1] /\ n >= 1
    BY <1>2, <1>4 DEF Chained
  <2> QED
    BY <2>2, <2>3, <2>4, <2>5 DEF Chained
<1>6. Members(Elements(w, n))'
  BY <1>2, <1>4 DEF Members, Elements, Inserted
<1>7. RingIs(n, w)'
  BY <1>2, <1>4, <1>5, <1>6 DEF RingIs, Loose, Uncounted, Counted
<1> QED
  BY <1>4, <1>7 DEF RingInv

\* The new element is linked to, and becomes the last one.
LEMMA AddLinks ==
    ASSUME BaseInv, StacksInv, RingInv, Add, at[Main] = "add3"
    PROVE  RingInv'
<1> USE InsertionFacts
<1>0. PICK n \in Nat : \E w \in [1..n -> Coroutines] : RingIs(n, w)
  BY DEF RingInv
<1>1. PICK w \in [1..n -> Coroutines] : RingIs(n, w)
  BY <1>0
<1>2. /\ Chained(w, n, FALSE, FALSE) /\ RingType
      /\ ring.size = n + lost /\ lost \in Nat
      /\ Members(Elements(w, n))
  BY <1>1 DEF RingIs, RingInv, Loose, Uncounted, Counted
<1>3. /\ \A k \in 1..n : w[k] # call
      /\ ring.next[call] = Main /\ ring.prev[call] = ring.prev[Main]
      /\ prevSeen = ring.prev[Main]
  BY <1>2 DEF Members, Elements, Inserted, RingInv, NewElement
<1>4. /\ n \in 1..n /\ 1 \in 1..n /\ w[n] \in Coroutines
      /\ w[1] = Main /\ ring.prev[Main] = w[n]
  BY <1>2 DEF Chained
<1>5. ring' = [ring EXCEPT !.next[w[n]] = call] /\ at'[Main] = "add4"
  BY <1>3, <1>4 DEF Add, ProceedTo, BaseInv, JoinInv, CoTypes
<1>6. /\ ring'.next = [ring.next EXCEPT ![w[n]] = call]
      /\ ring'.prev = ring.prev /\ ring'.current = Main
      /\ ring'.size = n + lost
      /\ ring' = [next |-> ring'.next, prev |-> ring'.prev,
                  current |-> ring'.current, size |-> ring'.size]
  BY <1>2, <1>5 DEF RingType
<1>7. RingType'
  BY <1>2, <1>4, <1>6 DEF RingType
<1>8. NewElement'
  BY <1>2, <1>3, <1>4, <1>5, <1>6 DEF NewElement, RingType
<1>9. PICK q \in Nat : q = n + 1
  OBVIOUS
<1>10. PICK v \in [1..q -> Coroutines] :
          v[q] = call /\ \A k \in 1..n : v[k] = w[k]
  <2> DEFINE u == [k \in 1..q |-> IF k = q THEN call ELSE w[k]]
  <2>1. u \in [1..q -> Coroutines] /\ u[q] = call /\ \A k \in 1..n : u[k] = w[k]
    BY <1>9
  <2> HIDE DEF u
  <2> QED
    BY <2>1
<1>11. Chained(v, q, FALSE, TRUE)'
  <2>1. \A k, l \in 1..q : v[k] = v[l] => k = l
    BY <1>2, <1>3, <1>9, <1>10 DEF Chained
  <2>2. ring'.current = v[1]
    BY <1>4, <1>6, <1>10
  <2>3. ASSUME NEW k \in 1..(q - 1) PROVE ring'.next[v[k]] = v[k + 1]
    <3>1. CASE k = n
      BY <1>2, <1>4, <1>6, <1>9, <1>10, <3>1 DEF RingType
    <3>2. CASE k # n
      <4>1. k \in 1..n /\ k + 1 \in 1..n /\ k \in 1..(n - 1)
        BY <1>9, <3>2
      <4>2. w[k] # w[n] /\ w[k] \in Coroutines /\ ring.next[w[k]] = w[k + 1]
        BY <1>2, <1>4, <3>2, <4>1 DEF Chained
      <4> QED
        BY <1>2, <1>4, <1>6, <1>10, <4>1, <4>2 DEF RingType
    <3> QED
      BY <3>1, <3>2
  <2>4. ring'.next[v[q]] = v[1]
    BY <1>2, <1>3, <1>4, <1>6, <1>10 DEF RingType
  <2>5. ASSUME NEW k \in 1..q
        PROVE \/ ring'.prev[v[k]] = (IF k = 1 THEN v[q] ELSE v[k - 1])
              \/ v[k] = Main
    <3>1. CASE k = 1
      BY <1>4, <1>10, <3>1
    <3>2. CASE k = q
      BY <1>3, <1>4, <1>6, <1>9, <1>10, <3>2
    <3>3. CASE k # 1 /\ k # q
      BY <1>2, <1>6, <1>9, <1>10, <3>3 DEF Chained
    <3> QED
      BY <3>1, <3>2, <3>3
  <2> QED
    BY <1>9, <1>10, <2>1, <2>2, <2>3, <2>4, <2>5 DEF Chained
<1>12. Elements(v, q) = Elements(w, n) \cup {call}
  <2>1. ASSUME NEW k \in 1..q PROVE v[k] \in Elements(w, n) \cup {call}
    BY <1>9, <1>10 DEF Elements
  <2>2. ASSUME NEW k \in 1..n PROVE w[k] \in Elements(v, q)
    BY <1>9, <1>10 DEF Elements
  <2>3. call \in Elements(v, q)
    BY <1>9, <1>10 DEF Elements
  <2> QED
    BY <2>1, <2>2, <2>3 DEF Elements
<1>13. Members(Elements(v, q))'
  <2>1. Inserted = Created \ {call} /\ Inserted' = Created
    BY <1>5 DEF Inserted
  <2>2. Members(Elements(w, n) \cup {call})'
    BY <1>2, <2>1 DEF Members
  <2> QED
    BY <1>12, <2>2
<1>14. RingIs(q, v)'
  <2>1. Loose' = TRUE /\ Uncounted'
    BY <1>5 DEF Loose, Uncounted
  <2>2. Counted(q)'
    BY <1>2, <1>5, <1>6, <1>9, <2>1 DEF Counted
  <2>3. Chained(v, q, Cut, Loose)'
    BY <1>11, <2>1
  <2> QED
    BY <1>13, <2>1, <2>2, <2>3 DEF RingIs
<1> QED
  BY <1>7, <1>8, <1>10, <1>14 DEF RingInv

\* The prev of Main is set, then the size: the new element is the last one.
LEMMA AddFinishes ==
    ASSUME BaseInv, StacksInv, RingInv, Add, at[Main] \in {"add4", "add5"}
    PROVE  RingInv'
<1> USE InsertionFacts
<1>0. PICK n \in Nat : \E w \in [1..n -> Coroutines] : RingIs(n, w)
  BY DEF RingInv
<1>1. PICK w \in [1..n -> Coroutines] : RingIs(n, w)
  BY <1>0
<1>2. /\ Chained(w, n, FALSE, at[Main] = "add4") /\ RingType
      /\ Members(Elements(w, n)) /\ n \in Nat /\ lost \in Nat
      /\ at[Main] = "add4" => ring.size = n - 1 + lost
      /\ at[Main] = "add5" => sizeSeen + 1 = n + lost
  BY <1>1 DEF RingIs, RingInv, Loose, Uncounted, Counted
<1>3. n \in 1..n /\ 1 \in 1..n /\ w[1] = Main /\ w[n] \in Coroutines
  BY <1>2 DEF Chained
<1>4. Members(Elements(w, n))'
  <2>1. at'[Main] \in {"add5", "main"}
    BY DEF Add, ProceedTo, BaseInv, JoinInv, CoTypes
  <2>2. Inserted = Created /\ Inserted' = Created
    BY <2>1 DEF Inserted
  <2> QED
    BY <1>2, <2>2 DEF Members, Elements
<1>5. CASE at[Main] = "add4"
  <2>1. call = w[n]
    <3>1. call \in Inserted /\ ring.next[call] = Main
      BY <1>5 DEF Inserted, RingInv, NewElement
    <3>2. PICK b \in 1..n : w[b] = call
      BY <1>2, <3>1 DEF Members, Elements
    <3>3. b = n
      BY <1>2, <1>3, <3>1, <3>2 DEF Chained
    <3> QED
      BY <3>2, <3>3
  <2>2. /\ ring' = [ring EXCEPT !.prev[Main] = w[n]] /\ at'[Main] = "add5"
        /\ sizeSeen' = ring.size
    BY <1>5, <2>1 DEF Add, ProceedTo, BaseInv, JoinInv, CoTypes
  <2>3. /\ ring'.prev = [ring.prev EXCEPT ![Main] = w[n]]
        /\ ring'.next = ring.next /\ ring'.current = Main
        /\ ring'.size = ring.size
        /\ ring' = [next |-> ring'.next, prev |-> ring'.prev,
                    current |-> ring'.current, size |-> ring'.size]
    BY <1>2, <2>2 DEF RingType
  <2>4. RingType' /\ NewElement'
    BY <1>2, <1>3, <2>2, <2>3 DEF RingType, NewElement
  <2>5. ASSUME NEW k \in 1..n
        PROVE ring'.prev[w[k]] = (IF k = 1 THEN w[n] ELSE w[k - 1])
    <3>1. CASE k = 1
      BY <1>2, <1>3, <2>3, <3>1 DEF RingType
    <3>2. CASE k # 1
      BY <1>2, <1>3, <2>3, <3>2 DEF RingType, Chained
    <3> QED
      BY <3>1, <3>2
  <2>6. Chained(w, n, FALSE, FALSE)'
    BY <1>2, <1>3, <2>3, <2>5 DEF Chained
  <2>7. RingIs(n, w)'
    <3>1. Counted(n)'
      BY <1>2, <1>5, <2>2, <2>3 DEF Counted
    <3> QED
      BY <1>4, <2>2, <2>6, <3>1 DEF RingIs, Loose
  <2> QED
    BY <2>4, <2>7 DEF RingInv
<1>6. CASE at[Main] = "add5"
  <2>1. ring' = [ring EXCEPT !.size = sizeSeen + 1] /\ at'[Main] = "main"
    BY <1>6 DEF Add, ProceedTo, BaseInv, JoinInv, CoTypes
  <2>2. /\ ring'.prev = ring.prev /\ ring'.next = ring.next
        /\ ring'.current = ring.current /\ ring'.size = n + lost
        /\ ring' = [next |-> ring'.next, prev |-> ring'.prev,
                    current |-> ring'.current, size |-> ring'.size]
    BY <1>2, <1>6, <2>1 DEF RingType
  <2>3. RingType' /\ NewElement'
    BY <1>2, <2>1, <2>2 DEF RingType, NewElement
  <2>4. Chained(w, n, FALSE, FALSE)'
    BY <1>2, <1>6, <2>2 DEF Chained
  <2>5. RingIs(n, w)'
    BY <1>2, <1>4, <2>1, <2>2, <2>4 DEF RingIs, Loose, Uncounted, Counted
  <2> QED
    BY <2>3, <2>5 DEF RingInv
<1> QED
  BY <1>5, <1>6

-----------------------------------------------------------------------------
(* Every step.                                                             *)

LEMMA NextStacks ==
    ASSUME BaseInv, StacksInv, RingInv, [CoNext]_coVars, ~torn'
    PROVE  StacksInv'
<1> USE WorkersAssumption
    DEF BaseInv, JoinInv, CoTypes, FlagsInv, StacksInv, Runnable, Runs, InLoop,
        Created, Coroutines, MainAt, WorkerAt, Windows, flags, aside, history, ProceedTo
<1>0. RingType
  BY DEF RingInv
<1>1. ASSUME NEW w \in Workers, RoutineReturns(w) PROVE StacksInv'
  BY <1>1 DEF RoutineReturns
<1>2. ASSUME NEW w \in Workers, CheckJoinable(w) PROVE StacksInv'
  BY <1>2 DEF CheckJoinable
<1>3. ASSUME NEW w \in Workers, SetJoinWait(w) PROVE StacksInv'
  BY <1>3 DEF SetJoinWait
<1>4. ASSUME NEW w \in Workers, SetFutex(w) PROVE StacksInv'
  BY <1>4 DEF SetFutex
<1>5. ASSUME NEW w \in Workers, SetCanceled(w) PROVE StacksInv'
  BY <1>5 DEF SetCanceled
<1>6. ASSUME NEW w \in Workers, SwitchBegins(w) PROVE StacksInv'
  BY <1>6 DEF SwitchBegins
<1>7. ASSUME NEW w \in Workers, SwitchUnlinks(w) PROVE StacksInv'
  BY <1>0, <1>7 DEF SwitchUnlinks, RingType
<1>8. ASSUME NEW w \in Workers, SwitchDeletes(w) PROVE StacksInv'
  BY <1>8 DEF SwitchDeletes
<1>9. ASSUME NEW w \in Workers, Create(w) PROVE StacksInv'
  BY <1>9 DEF Create
<1>10. ASSUME NEW w \in Workers, Join(w) PROVE StacksInv'
  BY <1>10 DEF Join, Calls
<1>11. ASSUME NEW w \in Workers, Detach(w) PROVE StacksInv'
  BY <1>11 DEF Detach, Calls
<1>12. ASSUME NEW w \in Workers, Cancel(w) PROVE StacksInv'
  BY <1>0, <1>12 DEF Cancel, Calls, RingType
<1>13. CASE Tick
  BY <1>13 DEF Tick
<1>14. CASE SwitchPasses
  BY <1>14 DEF SwitchPasses
<1>15. CASE HandlerDeletes
  <2>1. PICK n \in Nat : \E w \in [1..n -> Coroutines] : RingIs(n, w)
    BY DEF RingInv
  <2>2. PICK w \in [1..n -> Coroutines] : RingIs(n, w)
    BY <2>1
  <2>3. ring.size > 1
    BY <1>0, <1>15, <2>2, RingIsShorter DEF HandlerDeletes
  <2>4. running' = running /\ handling # NULL
    BY <1>15, <2>3 DEF HandlerDeletes
  <2> QED
    BY <1>15, <2>4 DEF HandlerDeletes
<1>16. CASE SwitchEnds
  <2>1. running \in Coroutines /\ ring.current \in Coroutines
    BY <1>0 DEF RingType
  <2>2. context' = context
    <3>1. CASE handling # NULL
      <4>1. handling = running /\ context' = [context EXCEPT ![running] = running]
        BY <1>16, <3>1 DEF SwitchEnds
      <4> QED
        BY <2>1, <4>1
    <3>2. CASE handling = NULL
      <4>1. running \in Workers /\ from[running] = running
        BY <1>16, <3>2 DEF SwitchEnds
      <4> QED
        BY <1>16, <2>1, <3>2, <4>1 DEF SwitchEnds
    <3> QED
      BY <3>1, <3>2
  <2>3. running' = ring.current
    BY <1>16, <2>1, <2>2 DEF SwitchEnds
  <2>4. at[ring.current] \notin {"switch1", "delete2"}
    BY <1>16, <2>1 DEF SwitchEnds
  <2>5. handling' = NULL /\ ring' = ring /\ at' = at /\ from' = from
    BY <1>16 DEF SwitchEnds
  <2>6. at[Main] \notin {"add2", "add3"} /\ \A w \in Workers : at[w] # "delete2"
    BY <1>16 DEF SwitchEnds
  <2> QED
    BY <2>1, <2>2, <2>3, <2>4, <2>5, <2>6
<1>17. CASE Add
  <2>1. ring'.current = ring.current
    BY <1>0, <1>17 DEF Add, RingType
  <2> QED
    BY <1>17, <2>1 DEF Add
<1>18. CASE JoinWaits
  BY <1>18 DEF JoinWaits
<1>19. CASE JoinTest
  BY <1>19 DEF JoinTest
<1>20. CASE JoinResult
  BY <1>20 DEF JoinResult
<1>21. CASE JoinEnd
  BY <1>21 DEF JoinEnd
<1>22. CASE DetachEnd
  BY <1>22 DEF DetachEnd
<1>23. CASE MainReturns
  BY <1>23 DEF MainReturns
<1>24. CASE UNCHANGED coVars
  BY <1>24 DEF coVars
<1>25. ASSUME NEW w \in Workers, RoutineSetsErrno(w) PROVE StacksInv'
  BY <1>25 DEF RoutineSetsErrno
<1> QED
  BY <1>1, <1>2, <1>3, <1>4, <1>5, <1>6, <1>7, <1>8, <1>9, <1>10, <1>11, <1>12, <1>13,
     <1>14, <1>15, <1>16, <1>17, <1>18, <1>19, <1>20, <1>21, <1>22, <1>23, <1>24, <1>25
     DEF CoNext, Loop, InCall, Wrapper

\* A step outside the insertion and the walk leaves the ring as it was.
Quiet == SameStage /\ ring' = ring /\ Cut' = Cut /\ lost' = lost

LEMMA NextRing ==
    ASSUME BaseInv, StacksInv, RingInv, [CoNext]_coVars, ~torn'
    PROVE  RingInv'
<1> USE WorkersAssumption
    DEF BaseInv, JoinInv, CoTypes, FlagsInv, StacksInv, Runnable, Runs, InLoop,
        Created, Coroutines, MainAt, WorkerAt, Windows, flags, aside, history, ProceedTo,
        SameStage, Inserted, Adding, Cut, Quiet
<1>1. ASSUME NEW w \in Workers, RoutineReturns(w) PROVE Quiet
  <2>1. /\ at[w] = "routine" /\ at' = [at EXCEPT ![w] = "check"] /\ running = w
        /\ ring' = ring /\ running' = running /\ call' = call /\ canceled' = canceled
        /\ lost' = lost /\ UNCHANGED registers
    BY <1>1 DEF RoutineReturns
  <2>2. Created' = Created /\ at'[Main] = at[Main] /\ Cut' = Cut
    BY <2>1
  <2>3. Inserted' = Inserted
    BY <2>1, <2>2
  <2> QED
    BY <2>1, <2>2, <2>3
<1>2. ASSUME NEW w \in Workers, CheckJoinable(w) PROVE Quiet
  BY <1>2 DEF CheckJoinable
<1>3. ASSUME NEW w \in Workers, SetJoinWait(w) PROVE Quiet
  BY <1>3 DEF SetJoinWait
<1>4. ASSUME NEW w \in Workers, SetFutex(w) PROVE Quiet
  BY <1>4 DEF SetFutex
<1>5. ASSUME NEW w \in Workers, SetCanceled(w) PROVE Quiet
  <2>1. /\ at[w] = "setCanceled" /\ at' = [at EXCEPT ![w] = "switch0"]
        /\ canceled' = [canceled EXCEPT ![w] = TRUE] /\ running = w
        /\ ring' = ring /\ running' = running /\ call' = call
        /\ lost' = lost /\ UNCHANGED registers
    BY <1>5 DEF SetCanceled
  <2>2. /\ Created' = Created /\ at'[Main] = at[Main] /\ Cut' = Cut
        /\ \A c \in Coroutines : canceled[c] => canceled'[c]
    BY <2>1
  <2>3. Inserted' = Inserted
    BY <2>1, <2>2
  <2> QED
    BY <2>1, <2>2, <2>3
<1>6. ASSUME NEW w \in Workers, Create(w) PROVE Quiet
  BY <1>6 DEF Create
<1>7. ASSUME NEW w \in Workers, Join(w) PROVE Quiet
  BY <1>7 DEF Join, Calls
<1>8. ASSUME NEW w \in Workers, Detach(w) PROVE Quiet
  BY <1>8 DEF Detach, Calls
<1>9. ASSUME NEW w \in Workers, Cancel(w) PROVE Quiet
  BY <1>9 DEF Cancel, Calls
<1>10. ASSUME SwitchEnds PROVE Quiet
  <2>1. running' \in Coroutines /\ at[running'] # "delete2" /\ at[running] # "delete2"
    <3>1. running' = ring.current /\ ring.current \in Coroutines
      BY <1>10, NextStacks DEF SwitchEnds, CoNext, Loop, RingInv, RingType
    <3> QED
      BY <1>10, <3>1 DEF SwitchEnds
  <2>2. /\ at' = at /\ call' = call /\ ring' = ring /\ canceled' = canceled
        /\ lost' = lost /\ UNCHANGED registers
    BY <1>10 DEF SwitchEnds
  <2>3. SameStage
    BY <2>2
  <2>4. Cut' = Cut
    BY <2>1, <2>2
  <2> QED
    BY <2>2, <2>3, <2>4
<1>11. JoinWaits => Quiet
  BY DEF JoinWaits
<1>12. JoinTest => Quiet
  BY DEF JoinTest
<1>13. JoinResult => Quiet
  BY DEF JoinResult
<1>14. JoinEnd => Quiet
  BY DEF JoinEnd
<1>15. DetachEnd => Quiet
  BY DEF DetachEnd
<1>16. MainReturns => Quiet
  BY DEF MainReturns
<1>17. UNCHANGED coVars => Quiet
  BY DEF coVars
<1>18. ASSUME NEW w \in Workers, SwitchBegins(w)
      PROVE SameStage /\ ring' = Advance(ring) /\ ~Cut /\ ~Cut' /\ lost' = lost
  BY <1>18 DEF SwitchBegins
<1>19. ASSUME NEW w \in Workers, SwitchUnlinks(w)
      PROVE SameStage /\ at[Main] \notin {"add2", "add3"} /\ ~Cut /\ Cut' /\ lost' = lost
  <2>1. /\ at[w] = "switch1" /\ at' = [at EXCEPT ![w] = "delete2"]
        /\ running = w /\ handling = NULL
        /\ running' = running /\ call' = call /\ canceled' = canceled
        /\ lost' = lost /\ UNCHANGED registers
    BY <1>19 DEF SwitchUnlinks
  <2>2. /\ Created' = Created /\ at'[Main] = at[Main] /\ ~Cut /\ Cut'
        /\ at[Main] \notin {"add2", "add3"}
    BY <2>1
  <2>3. Inserted' = Inserted
    BY <2>1, <2>2
  <2> QED
    BY <2>1, <2>2, <2>3
<1>20. ASSUME NEW w \in Workers, SwitchDeletes(w)
      PROVE /\ SameStage /\ ring' = Delete(ring)
            /\ at[Main] \notin {"add2", "add3"} /\ ~Cut' /\ canceled[ring.current]
            /\ CountLost
  BY <1>20 DEF SwitchDeletes
<1>21. CASE Tick
  <2>1. /\ at[running] \notin Windows /\ running' = running /\ running \in Coroutines
        /\ ring' = Advance(ring) /\ call' = call /\ canceled' = canceled
        /\ lost' = lost /\ UNCHANGED registers
    BY <1>21 DEF Tick
  <2>2. \/ at' = at
        \/ at[running] = "waiting" /\ at' = [at EXCEPT ![running] = "interrupted"]
    <3>1. CASE at[running] = "waiting"
      BY <1>21, <3>1 DEF Tick
    <3>2. CASE at[running] # "waiting"
      BY <1>21, <3>2 DEF Tick
    <3> QED
      BY <3>1, <3>2
  <2>3. ~Cut /\ ~Cut'
    BY <2>1, <2>2
  <2>4. SameStage
    <3>1. \A c \in Coroutines : at'[c] # at[c] =>
              at[c] \notin Adding /\ at'[c] \notin Adding /\ at[c] # "none" /\ at'[c] # "none"
      BY <2>1, <2>2
    <3>2. Created' = Created
      BY <3>1
    <3>3. Inserted' = Inserted
      BY <2>1, <3>1, <3>2
    <3> QED
      BY <2>1, <3>1, <3>3
  <2> HIDE DEF SameStage, Cut
  <2> QED
    BY <2>1, <2>3, <2>4, RingRotated
<1>22. SwitchPasses => SameStage /\ ring' = Advance(ring) /\ ~Cut /\ ~Cut' /\ lost' = lost
  BY DEF SwitchPasses
<1>23. CASE HandlerDeletes
  <2>1. StacksInv' /\ running' \in Coroutines
    BY <1>23, NextStacks DEF CoNext, Loop
  <2>2. running' = running
    BY <1>23, <2>1 DEF HandlerDeletes
  <2>3. /\ SameStage /\ ring' = Delete(ring) /\ CountLost
        /\ at[Main] \notin {"add2", "add3"} /\ ~Cut'
    BY <1>23, <2>2 DEF HandlerDeletes
  <2> HIDE DEF SameStage, Cut
  <2> QED
    BY <1>23, <2>3, RingShortened DEF HandlerDeletes
<1> HIDE DEF SameStage, Cut, BaseInv, StacksInv
<1>24. CASE Quiet
  BY <1>24, RingUntouched
<1>25. ASSUME NEW w \in Workers, SwitchBegins(w) PROVE RingInv'
  BY <1>18, <1>25, RingRotated
<1>26. ASSUME NEW w \in Workers, SwitchUnlinks(w) PROVE RingInv'
  BY <1>19, <1>26, RingUnlinked DEF SwitchUnlinks
<1>27. ASSUME NEW w \in Workers, SwitchDeletes(w) PROVE RingInv'
  BY <1>20, <1>27, RingShortened
<1>28. CASE SwitchPasses
  BY <1>22, <1>28, RingRotated
<1>29. CASE Add
  BY <1>29, AddPrepares, AddLinks, AddFinishes DEF Add
<1>30. ASSUME NEW w \in Workers, RoutineSetsErrno(w) PROVE RingInv'
  <2>1. Quiet
    BY <1>30 DEF RoutineSetsErrno, SameStage, Cut
  <2> QED
    BY <1>24, <2>1
<1> QED
  BY <1>1, <1>2, <1>3, <1>4, <1>5, <1>6, <1>7, <1>8, <1>9, <1>21, <1>23, <1>10, <1>11,
     <1>12, <1>13, <1>14, <1>15, <1>16, <1>17, <1>24, <1>25, <1>26, <1>27, <1>28, <1>29,
     <1>30
     DEF CoNext, Loop, InCall, Wrapper

LEMMA InitCoInv == CoInit => CoInv
<1> SUFFICES ASSUME CoInit PROVE CoInv
  OBVIOUS
<1> USE WorkersAssumption DEF CoInit, Coroutines, Runs
<1>1. BaseInv
  BY DEF BaseInv, JoinInv, CoTypes, ResultIsStored, FlagsInv,
         Runnable, Created, MainAt, WorkerAt, Adding
<1>2. StacksInv
  BY DEF StacksInv, Windows
<1>3. RingInv
  <2> DEFINE w == [k \in 1..1 |-> Main]
  <2>1. RingType /\ NewElement
    BY DEF RingType, NewElement
  <2>2. w \in [1..1 -> Coroutines] /\ \A k \in 1..1 : k = 1 /\ w[k] = Main
    OBVIOUS
  <2> HIDE DEF w
  <2>3. Chained(w, 1, Cut, Loose)
    BY <2>2 DEF Chained, Cut, Loose
  <2>4. Members(Elements(w, 1))
    BY <2>2 DEF Members, Elements, Inserted, Created
  <2>5. RingIs(1, w)
    BY <2>3, <2>4 DEF RingIs, Uncounted, Counted
  <2> QED
    BY <2>1, <2>2, <2>5 DEF RingInv
<1> QED
  BY <1>1, <1>2, <1>3 DEF CoInv

LEMMA NextCoInv == CoInv /\ [CoNext]_coVars => CoInv'
<1> SUFFICES ASSUME CoInv, [CoNext]_coVars PROVE CoInv'
  OBVIOUS
<1>1. BaseInv'
  BY NextBase DEF CoInv
<1>2. torn => torn'
  BY DEF CoNext, Tick, Loop, SwitchPasses, HandlerDeletes, SwitchEnds, RoutineReturns,
         RoutineSetsErrno, aside, history, Wrapper, CheckJoinable, SetJoinWait, SetFutex, SetCanceled, SwitchBegins,
         SwitchUnlinks, SwitchDeletes, Create, Join, Detach, Cancel, Calls, InCall, Add,
         JoinWaits, JoinTest, JoinResult, JoinEnd, DetachEnd, MainReturns, coVars
<1>3. ~torn' => StacksInv' /\ RingInv'
  BY <1>2, NextStacks, NextRing DEF CoInv
<1> QED
  BY <1>1, <1>3 DEF CoInv

LEMMA CoSpecInvariant == CoSpec => []CoInv
  BY InitCoInv, NextCoInv, PTL DEF CoSpec

-----------------------------------------------------------------------------
(* What the scheduler reaches is what the ring lists.                      *)

LEMMA SizeOfElements ==
    ASSUME NEW n \in Nat, NEW w \in [1..n -> Coroutines],
           \A k, l \in 1..n : w[k] = w[l] => k = l
    PROVE  /\ Cardinality(Elements(w, n)) = n
           /\ Cardinality(Coroutines) \in Nat /\ n <= Cardinality(Coroutines)
<1>1. IsFiniteSet(Coroutines) /\ Cardinality(Coroutines) \in Nat
  BY WorkersAssumption, FS_AddElement, FS_CardinalityType DEF Coroutines
<1>2. Elements(w, n) \in SUBSET Coroutines
  BY DEF Elements
<1>3. w \in Bijection(1..n, Elements(w, n))
  <2>1. w \in [1..n -> Elements(w, n)] /\ \A t \in Elements(w, n) : \E k \in 1..n : w[k] = t
    BY DEF Elements
  <2>2. w \in Injection(1..n, Elements(w, n))
    BY <2>1 DEF Injection, IsInjective
  <2>3. w \in Surjection(1..n, Elements(w, n))
    BY <2>1 DEF Surjection
  <2> QED
    BY <2>1, <2>2, <2>3 DEF Bijection
<1>4. Cardinality(Elements(w, n)) = n
  BY <1>3, FS_CountingElements DEF ExistsBijection
<1> QED
  BY <1>1, <1>2, <1>4, FS_Subset

\* One step of the recursion that defines Reached.
ReachStep(f) == [q \in 0..Cardinality(Coroutines) |->
    IF q = 0 THEN {ring.current} ELSE f[q - 1] \cup {ring.next[c] : c \in f[q - 1]}]

LEMMA ReachedUnfolds ==
    Reached = (CHOOSE f : f = ReachStep(f))[Cardinality(Coroutines)]
  BY DEF Reached, ReachStep

\* After q steps of the walk, the first elements.
First(w, n, q) == {w[k] : k \in 1..(IF q + 1 < n THEN q + 1 ELSE n)}

LEMMA FirstSteps ==
    ASSUME NEW n \in Nat, NEW w \in [1..n -> Coroutines], NEW cut \in BOOLEAN,
           NEW loose \in BOOLEAN, Chained(w, n, cut, loose), NEW q \in Nat
    PROVE  /\ First(w, n, 0) = {ring.current}
           /\ q > 0 => First(w, n, q) = First(w, n, q - 1)
                           \cup {ring.next[c] : c \in First(w, n, q - 1)}
<1>1. First(w, n, 0) = {ring.current}
  BY DEF First, Chained
<1>2. CASE q > 0
  <2>1. PICK i \in 1..n : i = (IF (q - 1) + 1 < n THEN (q - 1) + 1 ELSE n)
    BY <1>2 DEF Chained
  <2>2. PICK j \in 1..n : j = (IF q + 1 < n THEN q + 1 ELSE n)
    BY <1>2 DEF Chained
  <2>3. First(w, n, q - 1) = {w[k] : k \in 1..i} /\ First(w, n, q) = {w[k] : k \in 1..j}
    BY <2>1, <2>2 DEF First
  <2>4. ASSUME NEW k \in 1..i PROVE \E l \in 1..j : w[l] = w[k]
    BY <1>2, <2>1, <2>2
  <2>5. ASSUME NEW k \in 1..i PROVE \E l \in 1..j : w[l] = ring.next[w[k]]
    <3>1. CASE k < n
      <4>1. k + 1 \in 1..j /\ k \in 1..(n - 1)
        BY <1>2, <2>1, <2>2, <3>1
      <4> QED
        BY <4>1 DEF Chained
    <3>2. CASE k = n
      <4>1. j = n /\ 1 \in 1..j /\ (cut => 2 \in 1..j)
        BY <1>2, <2>1, <2>2, <3>2 DEF Chained
      <4> QED
        BY <3>2, <4>1 DEF Chained
    <3> QED
      BY <3>1, <3>2
  <2>6. ASSUME NEW l \in 1..j
        PROVE (\E k \in 1..i : w[k] = w[l]) \/ (\E k \in 1..i : ring.next[w[k]] = w[l])
    <3>1. CASE l <= i
      BY <3>1
    <3>2. CASE l > i
      <4>1. l - 1 \in 1..i /\ l - 1 \in 1..(n - 1)
        BY <1>2, <2>1, <2>2, <3>2
      <4>2. ring.next[w[l - 1]] = w[l]
        BY <4>1 DEF Chained
      <4> QED
        BY <4>1, <4>2
    <3> QED
      BY <3>1, <3>2
  <2>7. \A x : x \in {ring.next[c] : c \in First(w, n, q - 1)}
                    <=> \E k \in 1..i : x = ring.next[w[k]]
    BY <2>3
  <2>8. \A x : x \in First(w, n, q) <=>
           x \in First(w, n, q - 1) \/ \E k \in 1..i : x = ring.next[w[k]]
    <3>1. ASSUME NEW x \in First(w, n, q)
          PROVE  x \in First(w, n, q - 1) \/ \E k \in 1..i : x = ring.next[w[k]]
      BY <2>3, <2>6
    <3>2. ASSUME NEW x \in First(w, n, q - 1) PROVE x \in First(w, n, q)
      BY <2>3, <2>4
    <3>3. ASSUME NEW k \in 1..i PROVE ring.next[w[k]] \in First(w, n, q)
      BY <2>3, <2>5
    <3> QED
      BY <3>1, <3>2, <3>3
  <2>9. First(w, n, q) = First(w, n, q - 1) \cup {ring.next[c] : c \in First(w, n, q - 1)}
    BY <2>7, <2>8
  <2> QED
    BY <1>1, <2>9
<1> QED
  BY <1>1, <1>2

LEMMA ReachedIsListed ==
    ASSUME NEW n \in Nat, NEW w \in [1..n -> Coroutines], NEW cut \in BOOLEAN,
           NEW loose \in BOOLEAN, Chained(w, n, cut, loose)
    PROVE  Reached = Elements(w, n)
<1>1. PICK M \in Nat : M = Cardinality(Coroutines) /\ n <= M
  BY SizeOfElements DEF Chained
<1> DEFINE g == [q \in 0..M |-> First(w, n, q)]
<1> DEFINE f == CHOOSE f : f = ReachStep(f)
<1>2. g = ReachStep(g)
  <2>1. ASSUME NEW q \in 0..M PROVE g[q] = ReachStep(g)[q]
    <3>1. CASE q = 0
      BY <1>1, <3>1, FirstSteps DEF ReachStep
    <3>2. CASE q > 0
      <4>1. q - 1 \in 0..M /\ q \in Nat
        BY <3>2
      <4>2. First(w, n, q) = g[q - 1] \cup {ring.next[c] : c \in g[q - 1]}
        BY <3>2, <4>1, FirstSteps
      <4> HIDE DEF g
      <4>3. ReachStep(g)[q] = g[q - 1] \cup {ring.next[c] : c \in g[q - 1]}
        BY <1>1, <3>2 DEF ReachStep
      <4>4. g[q] = First(w, n, q)
        BY DEF g
      <4> QED
        BY <4>2, <4>3, <4>4
    <3> QED
      BY <3>1, <3>2
  <2>2. ReachStep(g) = [q \in 0..M |-> ReachStep(g)[q]]
    BY <1>1 DEF ReachStep
  <2> QED
    BY <2>1, <2>2
<1> HIDE DEF g
<1>3. f = ReachStep(f)
  BY <1>2
<1> HIDE DEF f
<1>4. \A h : /\ (0 \in 0..M => ReachStep(h)[0] = {ring.current})
            /\ \A q \in 1..M :
                  ReachStep(h)[q] = h[q - 1] \cup {ring.next[c] : c \in h[q - 1]}
  BY <1>1 DEF ReachStep
<1> DEFINE Differ == {q \in 0..M : f[q] # g[q]}
<1>5. ASSUME NEW q \in Differ, \A l \in Differ : q <= l PROVE FALSE
  <2>1. ReachStep(f)[q] # ReachStep(g)[q]
    BY <1>2, <1>3, <1>5
  <2>2. CASE q = 0
    BY <1>4, <2>1, <2>2
  <2>3. CASE q # 0
    <3>1. q - 1 \in 0..M /\ q \in 1..M /\ q - 1 \notin Differ
      BY <1>5, <2>3
    <3>2. f[q - 1] = g[q - 1]
      BY <3>1
    <3>3. /\ ReachStep(f)[q] = f[q - 1] \cup {ring.next[c] : c \in f[q - 1]}
          /\ ReachStep(g)[q] = g[q - 1] \cup {ring.next[c] : c \in g[q - 1]}
      BY <1>4, <3>1
    <3> QED
      BY <2>1, <3>2, <3>3
  <2> QED
    BY <2>2, <2>3
<1>6. Differ = {}
  <2>1. Differ \subseteq Nat
    OBVIOUS
  <2> HIDE DEF Differ
  <2> QED
    BY <1>5, <2>1, LeastElement
<1>7. f[M] = g[M] /\ g[M] = First(w, n, M)
  BY <1>1, <1>6 DEF g
<1>8. First(w, n, M) = Elements(w, n)
  BY <1>1 DEF First, Elements
<1> QED
  BY <1>1, <1>7, <1>8, ReachedUnfolds DEF f

-----------------------------------------------------------------------------
\* Whatever the timer interrupts, and whatever the routines leave in errno,
\* join returns 0 only with a result that is there, unless a routine has put
\* EAGAIN in the place of the errno of the wait (mycoroutine_join).
THEOREM CoroutineJoinTellsTheTruth == CoSpec => []JoinReturnsResult
<1>1. CoInv => JoinReturnsResult
  BY DEF CoInv, BaseInv, JoinInv, CoTypes, ResultIsStored, JoinReturnsResult, Created
<1> QED
  BY <1>1, CoSpecInvariant, PTL

\* The ring in BaseInv, StacksInv and RingInv is the ring that is whole.
LEMMA CoInvMeans == CoInv => RingIsWhole
<1> SUFFICES ASSUME CoInv, ~torn PROVE RingIsWhole
  BY DEF RingIsWhole
<1>1. BaseInv /\ StacksInv /\ RingInv
  BY DEF CoInv
<1>2. PICK n \in Nat : \E w \in [1..n -> Coroutines] : RingIs(n, w)
  BY <1>1 DEF RingInv
<1>3. PICK w \in [1..n -> Coroutines] : RingIs(n, w)
  BY <1>2
<1>4. PICK cut \in BOOLEAN, loose \in BOOLEAN : cut = Cut /\ loose = Loose
  BY DEF Cut, Loose
<1>5. Chained(w, n, cut, loose) /\ n >= 1
  BY <1>3, <1>4 DEF RingIs, Chained
<1>6. Reached = Elements(w, n) /\ Cardinality(Elements(w, n)) = n
  BY <1>5, ReachedIsListed, SizeOfElements DEF Chained
<1>7. Members(Reached)
  BY <1>3, <1>6 DEF RingIs
<1>8. running \in Coroutines /\ running # NULL
  BY <1>1, WorkersAssumption DEF StacksInv, Coroutines
<1>9. ASSUME ~cut, ~loose, NEW c \in Reached PROVE ring.prev[ring.next[c]] = c
  <2>1. PICK k \in 1..n : w[k] = c
    BY <1>6 DEF Elements
  <2>2. CASE k = n
    BY <1>5, <1>9, <2>1, <2>2 DEF Chained
  <2>3. CASE k # n
    <3>1. k + 1 \in 1..n /\ k \in 1..(n - 1) /\ k + 1 # 1 /\ (k + 1) - 1 = k
      BY <2>3
    <3>2. ring.next[w[k]] = w[k + 1] /\ ring.prev[w[k + 1]] = w[(k + 1) - 1]
      BY <1>5, <1>9, <3>1 DEF Chained
    <3> QED
      BY <2>1, <3>1, <3>2
  <2> QED
    BY <2>2, <2>3
<1>10. (at[Main] # "add4" /\ at[running] # "delete2")
           => \A c \in Reached : ring.prev[ring.next[c]] = c
  BY <1>4, <1>9 DEF Cut, Loose
<1>11. at[Main] \notin {"add4", "add5"} => ring.size = Cardinality(Reached) + lost
  BY <1>3, <1>6 DEF RingIs, Uncounted, Counted
<1>12. ~ (handling # NULL \/ at[running] \in {"switch1", "delete2"}) => ring.current = running
  BY <1>1 DEF StacksInv
<1>13. \A c \in Inserted \cup {Main} : context[c] = c
  BY <1>1 DEF StacksInv, Inserted, Created, Coroutines
<1> QED
  BY <1>7, <1>8, <1>10, <1>11, <1>12, <1>13 DEF RingIsWhole, Members

\* Unless a tick comes in one of the windows, the ring is whole after every
\* step (cycle_deque_add, cycle_deque_delete, switch_context).
THEOREM RingStaysWhole == CoSpec => []RingIsWhole
  BY CoSpecInvariant, CoInvMeans, PTL
=============================================================================
