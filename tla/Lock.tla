-------------------------------- MODULE Lock --------------------------------
(***************************************************************************)
(* What a lock promises the threads that share it: one of them at a time   *)
(* is inside.  An attempt to enter may be given up.                        *)
(***************************************************************************)
CONSTANT Threads

VARIABLE state      \* per thread: "out", "entering", "in"

TypeOK == state \in [Threads -> {"out", "entering", "in"}]

Init == state = [t \in Threads |-> "out"]

Move(t, from, to) ==
    /\ state[t] = from
    /\ state' = [state EXCEPT ![t] = to]

Call(t)   == Move(t, "out", "entering")
Enter(t)  == Move(t, "entering", "in") /\ \A u \in Threads : state[u] # "in"
GiveUp(t) == Move(t, "entering", "out")
Leave(t)  == Move(t, "in", "out")

Next == \E t \in Threads : Call(t) \/ Enter(t) \/ GiveUp(t) \/ Leave(t)

Spec == Init /\ [][Next]_state

MutualExclusion == \A t, u \in Threads : state[t] = "in" /\ state[u] = "in" => t = u
=============================================================================
