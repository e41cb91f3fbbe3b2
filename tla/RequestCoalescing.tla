-------------------------- MODULE RequestCoalescing --------------------------
(***************************************************************************)
(* What the cache of the HTTP proxy promises its callers, without the      *)
(* queue, the two threads, the promises and the clock: for each request,   *)
(* one client at a time is made to fetch it, everybody else who asks waits *)
(* for that client's answer or gets the stored one.                        *)
(*                                                                         *)
(* Life of a request:                                                      *)
(*   absent -Lead-> fetching -Deliver-> delivered -Open-> answering        *)
(*          -Store-> cached -Evict-> absent                                *)
(* and, when the client that fetches gives up, fetching -> abandoned, from *)
(* where nothing leads back.                                               *)
(***************************************************************************)
CONSTANTS Clients, Requests, None

VARIABLES
    phase,      \* per request, see above
    client,     \* per client: "out", "asking", "fetching", "served"
    wants       \* per client: the request it asks for, or None

vars == <<phase, client, wants>>

Phase == {"absent", "fetching", "delivered", "answering", "cached", "abandoned"}

TypeOK ==
    /\ phase \in [Requests -> Phase]
    /\ client \in [Clients -> {"out", "asking", "fetching", "served"}]
    /\ wants \in [Clients -> Requests \cup {None}]

Init ==
    /\ phase = [r \in Requests |-> "absent"]
    /\ client = [c \in Clients |-> "out"]
    /\ wants = [c \in Clients |-> None]

Move(c, from, to) ==
    /\ client[c] = from
    /\ client' = [client EXCEPT ![c] = to]
Turn(r, from, to) ==
    /\ phase[r] = from
    /\ phase' = [phase EXCEPT ![r] = to]

Ask(c, r) ==
    /\ Move(c, "out", "asking")
    /\ wants' = [wants EXCEPT ![c] = r]
    /\ UNCHANGED phase

Lead(c) ==
    /\ Move(c, "asking", "fetching")
    /\ Turn(wants[c], "absent", "fetching")
    /\ UNCHANGED wants

\* An asker is served from the stored entry, or while the answer is given out.
Serve(c) ==
    /\ Move(c, "asking", "served")
    /\ phase[wants[c]] \in {"answering", "cached"}
    /\ UNCHANGED <<phase, wants>>

Leave(c) ==
    /\ Move(c, "served", "out")
    /\ wants' = [wants EXCEPT ![c] = None]
    /\ UNCHANGED phase

\* The client that fetches hands its answer over, or gives up.
Deliver(c) ==
    /\ Move(c, "fetching", "out")
    /\ Turn(wants[c], "fetching", "delivered")
    /\ wants' = [wants EXCEPT ![c] = None]

Abandon(c) ==
    /\ Move(c, "fetching", "out")
    /\ Turn(wants[c], "fetching", "abandoned")
    /\ wants' = [wants EXCEPT ![c] = None]

Open(r)  == Turn(r, "delivered", "answering") /\ UNCHANGED <<client, wants>>
Store(r) == Turn(r, "answering", "cached") /\ UNCHANGED <<client, wants>>

\* Entries expire together.
Evict ==
    \E R \in SUBSET {r \in Requests : phase[r] = "cached"} :
        /\ phase' = [r \in Requests |-> IF r \in R THEN "absent" ELSE phase[r]]
        /\ UNCHANGED <<client, wants>>

Next ==
    \/ \E c \in Clients :
        \/ \E r \in Requests : Ask(c, r)
        \/ Lead(c) \/ Serve(c) \/ Leave(c) \/ Deliver(c) \/ Abandon(c)
    \/ \E r \in Requests : Open(r) \/ Store(r)
    \/ Evict

Spec == Init /\ [][Next]_vars

\* The promise itself: a client fetches r only while r is being fetched, and
\* it is the only one.
OneFetcher ==
    \A r \in Requests :
        LET fetchers == {c \in Clients : client[c] = "fetching" /\ wants[c] = r}
        IN  /\ fetchers # {} => phase[r] = "fetching"
            /\ \A c, d \in fetchers : c = d
=============================================================================
