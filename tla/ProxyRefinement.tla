--------------------------- MODULE ProxyRefinement ---------------------------
(***************************************************************************)
(* The proxy's cache and its connection threads implement                  *)
(* RequestCoalescing.                                                      *)
(***************************************************************************)
EXTENDS SingleHostServer

\* A thread is a client from its call of getCache until it goes, and a thread
\* that was told "no cache" until it has delivered or given up.
AClient(s) ==
    IF promise[s] = "pending" THEN "asking"
    ELSE IF promise[s] = "hit" \/ pc[s] = "sendCached" THEN "served"
    ELSE IF \E r \in Requests : Fetching(s, r) THEN "fetching"
    ELSE "out"

AWants(s) == IF AClient(s) = "out" THEN Null ELSE request[s]

APhase(r) ==
    IF cachingMap[r] # Absent THEN "cached"
    ELSE IF waiters[r] = Absent THEN "absent"
    ELSE IF HandledAnswer(r) /\ eventPc = "satisfy" THEN "answering"
    ELSE IF HandledAnswer(r) \/ QueuedAnswers(r) # {} THEN "delivered"
    ELSE IF Fetchers(r) # {} THEN "fetching"
    ELSE "abandoned"

Abstract == INSTANCE RequestCoalescing WITH
    Clients <- Servers,
    None <- Null,
    phase <- [r \in Requests |-> APhase(r)],
    client <- [s \in Servers |-> AClient(s)],
    wants <- [s \in Servers |-> AWants(s)]

\* Every behaviour of the proxy, failures included, is one of the abstract
\* cache: one fetch at a time, nobody served but by an answer, no answer after
\* a fetch was abandoned.
ImplementsCoalescing == Abstract!Spec
=============================================================================
