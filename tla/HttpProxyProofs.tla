-------------------------- MODULE HttpProxyProofs --------------------------
(***************************************************************************)
(* Proofs about the proxy, for any number of connection threads and        *)
(* requests and whatever the network does.  About the connection threads   *)
(* and the cache:                                                          *)
(*   TypeCorrect           Spec => []TypeOK                                *)
(*   OneFetchAtATime       Spec => []SingleFlight                          *)
(*   PromisesAreOwned      Spec => []PromiseOwnership                      *)
(*   WaitersAreServed      Spec => []WaitersHaveFlight, if no call fails   *)
(*   OrphansNeedFailure    who gives up is the only way to an orphan       *)
(*   CacheCoalesces        Spec => ImplementsCoalescing                    *)
(* about the age of the entries of the cache, for any CACHE_TIMEOUT and    *)
(* any bound on the scheduling delays of the cleaner:                      *)
(*   StaleHitsAreBounded   Spec => []HitAgeBound                           *)
(*   NothingEvictedEarly   Spec => NeverEvictsEarly                        *)
(* and about the process:                                                  *)
(*   RegistryStaysExact    ProxySpec => []RegistryIsExact                  *)
(*   ProxyRunsServers      ProxySpec => Spec                               *)
(*   ProxyCoalesces        ProxySpec => ImplementsCoalescing               *)
(*                                                                         *)
(* All but those about ages and the registry rest on the inductive         *)
(* invariant Inv.  Its difficult part follows the pointer to a promise:    *)
(* from the queue (QueueRefs) to the event thread (EventRef), from there   *)
(* to the promises parked for a request (ParkedRefs) and to the event      *)
(* thread's copy of them (CopyRefs).  These four places exclude each       *)
(* other, the thread pointed to waits, and Known says that a thread that   *)
(* waits is pointed to.  Flights is SingleFlight, with sets of size at     *)
(* most one spelled out; from it follows, one lemma per action, that the   *)
(* phase of a request changes as the abstract cache wants it to.           *)
(*                                                                         *)
(* RegistryIsExact says nothing of the thread that listenAndServe is about *)
(* to insert; RegistryInv does.  HitAgeBound is not inductive: how old an  *)
(* entry may be depends on how far the cleaner is in its period.  AgeInv   *)
(* says so.                                                                *)
(***************************************************************************)
EXTENDS HttpProxy, ProxyRefinement, TLAPS

-----------------------------------------------------------------------------
(* The inductive invariant.                                                *)

\* Thread s waits in getCache for the response to r.
Asks(s, r) == promise[s] = "pending" /\ pc[s] = "waiting" /\ request[s] = r

\* What pc says of the other variables of a thread.
Control ==
    \A s \in Servers :
        /\ promise[s] # "none" => pc[s] = "waiting"
        /\ pc[s] \notin {"idle", "read"} => request[s] \in Requests
        /\ pc[s] \in {"getCache", "waiting", "sendCached", "cache"}
             => request[s] \in GetRequests

\* What eventPc says of the other variables of the event thread.
EventState ==
    /\ eventPc = "pop" => event = NoEvent
    /\ eventPc # "pop" => event \in CacheEvent
    /\ eventPc = "satisfy" => event.type = "ANSWER"
    /\ eventPc # "satisfy" => waitersQueue = <<>>

\* An event of the queue points to the promise of s.
InQueue(s) == \E i \in 1..Len(eventQueue) : eventQueue[i].promise = s

\* Whoever a queued REQUEST points to waits for it, and is pointed to once.
QueueRefs ==
    /\ \A i \in 1..Len(eventQueue) :
        eventQueue[i].type = "REQUEST"
            => Asks(eventQueue[i].promise, eventQueue[i].request)
    /\ \A i, j \in 1..Len(eventQueue) :
        /\ eventQueue[i].type = "REQUEST"
        /\ eventQueue[i].promise = eventQueue[j].promise
        => i = j

\* The same of the REQUEST the event thread works on ...
EventRef ==
    event.type = "REQUEST" =>
        Asks(event.promise, event.request) /\ ~InQueue(event.promise)

\* ... of the waiters it has still to satisfy ...
CopyRefs ==
    /\ \A i \in 1..Len(waitersQueue) :
        Asks(waitersQueue[i], event.request) /\ ~InQueue(waitersQueue[i])
    /\ \A i, j \in 1..Len(waitersQueue) : waitersQueue[i] = waitersQueue[j] => i = j

\* ... and of the promises parked for a request.
ParkedRefs ==
    \A r \in Requests :
        /\ \A i \in 1..Len(Parked(r)) :
            /\ Asks(Parked(r)[i], r)
            /\ ~InQueue(Parked(r)[i])
            /\ event.promise # Parked(r)[i]
        /\ \A i, j \in 1..Len(Parked(r)) : Parked(r)[i] = Parked(r)[j] => i = j

\* Whoever waits is pointed to.
Known ==
    \A s \in Servers : promise[s] = "pending" =>
        \/ InQueue(s)
        \/ event.promise = s
        \/ \E i \in 1..Len(waitersQueue) : waitersQueue[i] = s
        \/ \E r \in Requests : \E i \in 1..Len(Parked(r)) : Parked(r)[i] = s

Queued(i, r) == i \in 1..Len(eventQueue) /\ eventQueue[i] = AnswerEvent(r)

\* SingleFlight, in first-order form; a request that nobody fetches and no
\* answer is under way for may be absent from waiters, others may not.
Flights ==
    \A r \in Requests :
        /\ \A s, t \in Servers : Fetching(s, r) /\ Fetching(t, r) => s = t
        /\ \A i, j \in Nat : Queued(i, r) /\ Queued(j, r) => i = j
        /\ \A s \in Servers, i \in Nat : ~(Fetching(s, r) /\ Queued(i, r))
        /\ \A s \in Servers : ~(Fetching(s, r) /\ HandledAnswer(r))
        /\ \A i \in Nat : ~(Queued(i, r) /\ HandledAnswer(r))
        /\ waiters[r] = Absent =>
             /\ \A s \in Servers : ~Fetching(s, r)
             /\ \A i \in Nat : ~Queued(i, r)
             /\ ~HandledAnswer(r)
        /\ waiters[r] # Absent => cachingMap[r] = Absent

Inv ==
    /\ TypeOK /\ Control /\ EventState
    /\ QueueRefs /\ EventRef /\ CopyRefs /\ ParkedRefs
    /\ Known
    /\ Flights

-----------------------------------------------------------------------------
\* Append, index by index: what Push and a parked promise need.
LEMMA AppendFacts ==
    ASSUME NEW S, NEW q \in Seq(S), NEW e \in S
    PROVE  /\ Append(q, e) \in Seq(S)
           /\ Len(Append(q, e)) = Len(q) + 1
           /\ \A i \in 1..Len(q) : Append(q, e)[i] = q[i]
           /\ Append(q, e)[Len(q) + 1] = e
  OBVIOUS

\* Tail and Head, index by index: what Pop and SatisfyWaiter need.
LEMMA TailFacts ==
    ASSUME NEW S, NEW q \in Seq(S), q # <<>>
    PROVE  /\ Tail(q) \in Seq(S)
           /\ Len(q) \in Nat \ {0}
           /\ Len(Tail(q)) = Len(q) - 1
           /\ \A i \in 1..Len(Tail(q)) : Tail(q)[i] = q[i + 1]
           /\ Head(q) = q[1]
           /\ q[1] \in S
  OBVIOUS

\* An event is a REQUEST of a thread or an ANSWER, and nothing else.
LEMMA EventFacts ==
    ASSUME Inv
    PROVE  /\ \A e \in CacheEvent :
                /\ e.request \in Requests
                /\ e.type = "REQUEST" => /\ e.promise \in Servers
                                         /\ e = RequestEvent(e.request, e.promise)
                /\ e.type # "REQUEST" => /\ e.type = "ANSWER"
                                         /\ e.promise = Null
                                         /\ e = AnswerEvent(e.request)
           /\ \A i \in 1..Len(eventQueue) : eventQueue[i] \in CacheEvent
           /\ event # NoEvent => event \in CacheEvent
           /\ DOMAIN eventQueue = 1..Len(eventQueue)
  BY DEF Inv, TypeOK, CacherTypeOK, CacheEvent, RequestEvent, AnswerEvent,
     EventState

\* A step of a thread that neither touches the cache nor begins to wait or to
\* fetch preserves the invariant, since the thread has no promise.
LEMMA LocalStep ==
    ASSUME Inv, NEW s \in Servers, UNCHANGED cacherVars,
           pc[s] # "waiting",
           pc' = [pc EXCEPT ![s] = pc'[s]],
           request' = [request EXCEPT ![s] = request'[s]],
           pc'[s] \in ServerState \ {"waiting"},
           request'[s] \in Requests \cup {Null},
           pc'[s] \notin {"idle", "read"} => request'[s] \in Requests,
           pc'[s] \in {"getCache", "sendCached", "cache"}
                => request'[s] \in GetRequests,
           \A r \in Requests : Fetching(s, r)' => Fetching(s, r)
    PROVE  Inv'
<1> USE DEF Inv, cacherVars
<1>1. promise[s] = "none"
  BY DEF Control, TypeOK, CacherTypeOK
<1>2. \A t \in Servers : t # s => pc'[t] = pc[t] /\ request'[t] = request[t]
  BY DEF TypeOK
<1>3. \A t \in Servers, r \in Requests : Asks(t, r)' <=> Asks(t, r)
  BY <1>1, <1>2 DEF Asks
<1>4. \A t \in Servers, r \in Requests : Fetching(t, r)' => Fetching(t, r)
  BY <1>2 DEF Fetching
<1>5. TypeOK' /\ Control' /\ EventState'
  BY <1>1, <1>2 DEF TypeOK, CacherTypeOK, Control, EventState
<1>6. QueueRefs'
  BY <1>3, EventFacts DEF QueueRefs
<1>7. EventRef'
  BY <1>3, EventFacts DEF EventRef, InQueue, NoEvent
<1>8. CopyRefs'
  <2>1. \A i \in 1..Len(waitersQueue) :
            waitersQueue[i] \in Servers /\ event.request \in Requests
    BY EventFacts DEF TypeOK, CacherTypeOK, EventState, NoEvent
  <2> QED
    BY <1>3, <2>1 DEF CopyRefs, InQueue
<1>9. ParkedRefs'
  <2>1. \A r \in Requests : \A i \in 1..Len(Parked(r)) : Parked(r)[i] \in Servers
    BY DEF TypeOK, CacherTypeOK, Parked
  <2> QED
    BY <1>3, <2>1 DEF ParkedRefs, Parked, InQueue
<1>10. Known'
  BY DEF Known, InQueue, Parked
<1>11. Flights'
  BY <1>4 DEF Flights, Queued, HandledAnswer
<1> QED
  BY <1>5, <1>6, <1>7, <1>8, <1>9, <1>10, <1>11

\* Every action of serve that leaves the cache alone is such a step.
LEMMA LocalActions ==
    ASSUME Inv, NEW s \in Servers,
           \/ Accept(s)
           \/ \E r \in Requests : ReadClientRequest(s, r)
           \/ SendCached(s) \/ FindHost(s) \/ NoHost(s) \/ Connect(s)
           \/ SendRequest(s) \/ ReceiveResponse(s) \/ Reply(s)
           \/ Fail(s)
    PROVE  Inv'
<1> USE DEF Goto, Return, ServerState, Fetching, cacherVars
<1>0. /\ pc \in [Servers -> ServerState]
      /\ request \in [Servers -> Requests \cup {Null}]
      /\ pc[s] # "waiting" => promise[s] = "none"
      /\ pc[s] \notin {"idle", "read"} => request[s] \in Requests
      /\ pc[s] = "cache" => request[s] \in GetRequests
  BY DEF Inv, TypeOK, CacherTypeOK, Control
<1>1. CASE Accept(s)
  BY <1>0, <1>1, LocalStep DEF Accept
<1>2. CASE SendCached(s)
  BY <1>0, <1>2, LocalStep DEF SendCached
<1>3. CASE FindHost(s)
  BY <1>0, <1>3, LocalStep DEF FindHost
<1>4. CASE NoHost(s)
  BY <1>0, <1>4, LocalStep DEF NoHost
<1>5. CASE Connect(s)
  BY <1>0, <1>5, LocalStep DEF Connect
<1>6. CASE SendRequest(s)
  BY <1>0, <1>6, LocalStep DEF SendRequest
<1>7. CASE ReceiveResponse(s)
  BY <1>0, <1>7, LocalStep DEF ReceiveResponse
<1>8. CASE Reply(s)
  BY <1>0, <1>8, LocalStep DEF Reply
<1>9. CASE ReadFails(s)
  BY <1>0, <1>9, LocalStep DEF ReadFails
<1>10. CASE ConnectFails(s)
  BY <1>0, <1>10, LocalStep DEF ConnectFails
<1>11. CASE SendFails(s)
  BY <1>0, <1>11, LocalStep DEF SendFails
<1>12. CASE ReceiveFails(s)
  BY <1>0, <1>12, LocalStep DEF ReceiveFails
<1>13. CASE ReplyFails(s)
  BY <1>0, <1>13, LocalStep DEF ReplyFails
<1>14. ASSUME NEW r \in Requests, ReadClientRequest(s, r) PROVE Inv'
  BY <1>0, <1>14, LocalStep DEF ReadClientRequest
<1> QED
  BY <1>1, <1>2, <1>3, <1>4, <1>5, <1>6, <1>7, <1>8, <1>9, <1>10, <1>11,
     <1>12, <1>13, <1>14 DEF Fail

\* getCache up to the wait: the queue gets the only pointer to s.
LEMMA GetCacheStep ==
    ASSUME Inv, NEW s \in Servers, GetCache(s) PROVE Inv'
<1> USE DEF Inv
<1>1. /\ pc[s] = "getCache" /\ pc' = [pc EXCEPT ![s] = "waiting"]
      /\ eventQueue' = Append(eventQueue, RequestEvent(request[s], s))
      /\ promise' = [promise EXCEPT ![s] = "pending"]
      /\ UNCHANGED <<request, eventVars, cachingMap, cleanerVars>>
  BY DEF GetCache, Goto, AskCache, Push
<1>2. /\ promise[s] = "none"
      /\ request[s] \in Requests
      /\ request[s] \in GetRequests
      /\ RequestEvent(request[s], s) \in CacheEvent
  BY <1>1 DEF TypeOK, CacherTypeOK, Control, RequestEvent, CacheEvent
<1>3. /\ Len(eventQueue) \in Nat
      /\ Len(eventQueue') = Len(eventQueue) + 1
      /\ \A i \in 1..Len(eventQueue) : eventQueue'[i] = eventQueue[i]
      /\ eventQueue'[Len(eventQueue) + 1] = RequestEvent(request[s], s)
      /\ eventQueue' \in Seq(CacheEvent)
      /\ DOMAIN eventQueue' = 1..Len(eventQueue')
      /\ DOMAIN eventQueue = 1..Len(eventQueue)
  BY <1>1, <1>2, AppendFacts DEF TypeOK, CacherTypeOK
\* So far the cache knows nothing of s.
<1>4. /\ \A r \in Requests : ~Asks(s, r)
      /\ ~InQueue(s)
      /\ event.promise # s
  BY <1>2, EventFacts, CacherAssumption
     DEF Asks, InQueue, QueueRefs, EventRef, EventState, NoEvent
<1>5. \A t \in Servers, r \in Requests :
        Asks(t, r)' <=> Asks(t, r) \/ (t = s /\ r = request[s])
  BY <1>1, <1>2 DEF Asks, TypeOK, CacherTypeOK
<1>6. \A t : InQueue(t)' <=> InQueue(t) \/ t = s
  BY <1>3 DEF InQueue, RequestEvent
<1>7. /\ \A i \in 1..Len(waitersQueue) :
            waitersQueue[i] \in Servers \ {s} /\ event.request \in Requests
      /\ \A r \in Requests : \A i \in 1..Len(Parked(r)) :
            Parked(r)[i] \in Servers \ {s}
  BY <1>4, EventFacts
     DEF TypeOK, CacherTypeOK, Parked, EventState, NoEvent, CopyRefs,
         ParkedRefs
<1>8. TypeOK' /\ Control' /\ EventState'
  BY <1>1, <1>2, <1>3
     DEF TypeOK, CacherTypeOK, Control, EventState, ServerState, eventVars,
         cleanerVars
<1>9. QueueRefs'
  BY <1>2, <1>3, <1>4, <1>5, EventFacts, CacherAssumption
     DEF QueueRefs, InQueue, RequestEvent
<1>10. EventRef'
  BY <1>1, <1>4, <1>5, <1>6, EventFacts DEF EventRef, eventVars, NoEvent
<1>11. CopyRefs'
  BY <1>1, <1>5, <1>6, <1>7 DEF CopyRefs, eventVars
<1>12. ParkedRefs'
  BY <1>1, <1>5, <1>6, <1>7 DEF ParkedRefs, Parked, eventVars
<1>13. Known'
  BY <1>1, <1>6 DEF Known, Parked, eventVars, TypeOK, CacherTypeOK
<1>14. Flights'
  <2>1. \A t \in Servers, r \in Requests : Fetching(t, r)' => Fetching(t, r)
    BY <1>1 DEF Fetching, TypeOK, CacherTypeOK
  <2>2. \A i \in Nat, r \in Requests : Queued(i, r)' => Queued(i, r)
    BY <1>3 DEF Queued, RequestEvent, AnswerEvent
  <2> QED
    BY <1>1, <2>1, <2>2 DEF Flights, HandledAnswer, eventVars
<1> QED
  BY <1>8, <1>9, <1>10, <1>11, <1>12, <1>13, <1>14

\* The end of getCache: nothing points to the promise any more.
LEMMA CacheAnswersStep ==
    ASSUME Inv, NEW s \in Servers, CacheAnswers(s) PROVE Inv'
<1> USE DEF Inv
<1>1. /\ pc[s] = "waiting"
      /\ pc' = [pc EXCEPT ![s] =
                    IF promise[s] = "hit" THEN "sendCached" ELSE "host"]
      /\ promise[s] \in {"miss", "hit"}
      /\ promise' = [promise EXCEPT ![s] = "none"]
      /\ UNCHANGED <<request, eventQueue, eventVars, cachingMap, cleanerVars>>
  BY DEF CacheAnswers, Goto, LeaveGetCache, Answered
<1>2. \A t \in Servers, r \in Requests : Asks(t, r)' <=> Asks(t, r)
  BY <1>1 DEF Asks, TypeOK, CacherTypeOK
<1>3. \A t \in Servers, r \in Requests : Fetching(t, r)' => Fetching(t, r)
  BY <1>1 DEF Fetching, TypeOK, CacherTypeOK, Control
<1>4. /\ \A i \in 1..Len(waitersQueue) :
            waitersQueue[i] \in Servers /\ event.request \in Requests
      /\ \A r \in Requests : \A i \in 1..Len(Parked(r)) : Parked(r)[i] \in Servers
  BY EventFacts DEF TypeOK, CacherTypeOK, Parked, EventState, NoEvent
<1>5. TypeOK' /\ Control' /\ EventState'
  BY <1>1 DEF TypeOK, CacherTypeOK, Control, EventState, ServerState,
              eventVars, cleanerVars
<1>6. QueueRefs' /\ EventRef'
  BY <1>1, <1>2, EventFacts
     DEF QueueRefs, EventRef, InQueue, eventVars, NoEvent
<1>7. CopyRefs' /\ ParkedRefs'
  BY <1>1, <1>2, <1>4 DEF CopyRefs, ParkedRefs, Parked, InQueue, eventVars
<1>8. Known'
  <2>1. \A t \in Servers : promise'[t] = "pending" => promise[t] = "pending"
    BY <1>1 DEF TypeOK, CacherTypeOK
  <2> QED
    BY <1>1, <2>1 DEF Known, InQueue, Parked, eventVars
<1>9. Flights'
  BY <1>1, <1>3 DEF Flights, Queued, HandledAnswer, eventVars
<1> QED
  BY <1>5, <1>6, <1>7, <1>8, <1>9

\* HttpCacher::cache: the fetch of s turns into a queued answer.
LEMMA CacheResponseStep ==
    ASSUME Inv, NEW s \in Servers, CacheResponse(s) PROVE Inv'
<1> USE DEF Inv
<1>0. PICK r \in Requests : r = request[s]
  BY DEF TypeOK, CacherTypeOK, Control, CacheResponse, Return, Goto
<1>1. /\ pc[s] = "cache" /\ pc' = [pc EXCEPT ![s] = "idle"]
      /\ request' = [request EXCEPT ![s] = Null]
      /\ eventQueue' = Append(eventQueue, AnswerEvent(r))
      /\ UNCHANGED <<promise, eventVars, cachingMap, cleanerVars>>
  BY <1>0 DEF CacheResponse, Return, Goto, GiveAnswer, Push
<1>2. /\ promise[s] = "none"
      /\ request[s] = r /\ r \in GetRequests
      /\ Fetching(s, r)
      /\ AnswerEvent(r) \in CacheEvent
  BY <1>0, <1>1
     DEF TypeOK, CacherTypeOK, Control, AnswerEvent, CacheEvent, Fetching
<1>3. /\ Len(eventQueue) \in Nat
      /\ Len(eventQueue') = Len(eventQueue) + 1
      /\ \A i \in 1..Len(eventQueue) : eventQueue'[i] = eventQueue[i]
      /\ eventQueue'[Len(eventQueue) + 1] = AnswerEvent(r)
      /\ eventQueue' \in Seq(CacheEvent)
      /\ DOMAIN eventQueue' = 1..Len(eventQueue')
      /\ DOMAIN eventQueue = 1..Len(eventQueue)
  BY <1>1, <1>2, AppendFacts DEF TypeOK, CacherTypeOK
<1>4. \A t \in Servers, q \in Requests : Asks(t, q)' <=> Asks(t, q)
  BY <1>1, <1>2 DEF Asks, TypeOK, CacherTypeOK
<1>5. \A t \in Servers : InQueue(t)' <=> InQueue(t)
  BY <1>3, CacherAssumption DEF InQueue, AnswerEvent
<1>6. /\ \A i \in 1..Len(waitersQueue) :
            waitersQueue[i] \in Servers /\ event.request \in Requests
      /\ \A q \in Requests : \A i \in 1..Len(Parked(q)) : Parked(q)[i] \in Servers
  BY EventFacts DEF TypeOK, CacherTypeOK, Parked, EventState, NoEvent
<1>7. TypeOK' /\ Control' /\ EventState'
  BY <1>1, <1>2, <1>3
     DEF TypeOK, CacherTypeOK, Control, EventState, ServerState, eventVars,
         cleanerVars
<1>8. QueueRefs'
  BY <1>3, <1>4, EventFacts, CacherAssumption DEF QueueRefs, AnswerEvent
<1>9. EventRef'
  BY <1>1, <1>4, <1>5, EventFacts DEF EventRef, eventVars, NoEvent
<1>10. CopyRefs' /\ ParkedRefs'
  BY <1>1, <1>4, <1>5, <1>6 DEF CopyRefs, ParkedRefs, Parked, eventVars
<1>11. Known'
  BY <1>1, <1>5 DEF Known, Parked, eventVars
\* s was the only one that fetched r, and nothing for r was under way.
<1>12. Flights'
  <2>1. \A t \in Servers, q \in Requests :
            Fetching(t, q)' <=> Fetching(t, q) /\ t # s
    BY <1>1, <1>2 DEF Fetching, TypeOK, CacherTypeOK
  <2>2. \A i \in Nat, q \in Requests :
            Queued(i, q)' <=> Queued(i, q) \/ (i = Len(eventQueue) + 1 /\ q = r)
    BY <1>2, <1>3 DEF Queued, AnswerEvent
  <2>3. \A t \in Servers : ~Fetching(t, r)'
    BY <1>2, <2>1 DEF Flights
  <2>4. /\ \A i \in Nat : ~Queued(i, r)
        /\ ~HandledAnswer(r)
        /\ waiters[r] # Absent
    BY <1>2 DEF Flights
  <2> QED
    BY <1>1, <1>2, <2>1, <2>2, <2>3, <2>4 DEF Flights, HandledAnswer, eventVars
<1> QED
  BY <1>7, <1>8, <1>9, <1>10, <1>11, <1>12

\* The event thread takes over what the head of the queue points to.
LEMMA PopStep ==
    ASSUME Inv, Pop, UNCHANGED serverVars PROVE Inv'
<1> USE DEF Inv
<1>1. /\ eventPc = "pop" /\ eventPc' = "handle"
      /\ eventQueue # <<>>
      /\ eventQueue' = Tail(eventQueue)
      /\ event' = Head(eventQueue)
      /\ event = NoEvent /\ waitersQueue = <<>>
      /\ UNCHANGED <<pc, request, waitersQueue, waiters, cachingMap, promise,
                     cleanerVars>>
  BY DEF Pop, serverVars, EventState
<1>2. /\ Len(eventQueue) \in Nat \ {0}
      /\ Len(eventQueue') = Len(eventQueue) - 1
      /\ \A i \in 1..Len(eventQueue') : eventQueue'[i] = eventQueue[i + 1]
      /\ event' = eventQueue[1]
      /\ event' \in CacheEvent
      /\ eventQueue' \in Seq(CacheEvent)
  BY <1>1, TailFacts DEF TypeOK, CacherTypeOK
<1>3. \A i \in 1..Len(eventQueue') :
            i + 1 \in 1..Len(eventQueue) /\ i + 1 # 1
  BY <1>2
<1>4. \A t \in Servers, r \in Requests : Asks(t, r)' <=> Asks(t, r)
  BY <1>1 DEF Asks
<1>5. \A t \in Servers : InQueue(t) <=> InQueue(t)' \/ event'.promise = t
  <2>1. ASSUME NEW t \in Servers, InQueue(t)
        PROVE  InQueue(t)' \/ event'.promise = t
    <3>1. PICK i \in 1..Len(eventQueue) : eventQueue[i].promise = t
      BY <2>1 DEF InQueue
    <3>2. CASE i = 1
      BY <1>2, <3>1, <3>2
    <3>3. CASE i # 1
      <4>1. i - 1 \in 1..Len(eventQueue') /\ eventQueue'[i - 1] = eventQueue[i]
        BY <1>2, <3>3
      <4> QED
        BY <3>1, <4>1 DEF InQueue
    <3> QED
      BY <3>2, <3>3
  <2>2. ASSUME NEW t \in Servers, InQueue(t)' PROVE InQueue(t)
    BY <1>2, <1>3, <2>2 DEF InQueue
  <2>3. ASSUME NEW t \in Servers, event'.promise = t PROVE InQueue(t)
    BY <1>2, <2>3 DEF InQueue
  <2> QED
    BY <2>1, <2>2, <2>3
<1>6. ASSUME NEW s \in Servers, NEW r \in Requests,
             event' = RequestEvent(r, s)
      PROVE  Asks(s, r) /\ ~InQueue(s)'
  <2>1. /\ 1 \in 1..Len(eventQueue)
        /\ eventQueue[1].type = "REQUEST"
        /\ eventQueue[1].request = r /\ eventQueue[1].promise = s
    BY <1>2, <1>6 DEF RequestEvent
  <2>2. Asks(s, r)
    BY <2>1 DEF QueueRefs
  <2>3. \A i \in 1..Len(eventQueue') : eventQueue'[i].promise # s
    BY <1>2, <1>3, <2>1 DEF QueueRefs
  <2> QED
    BY <2>2, <2>3 DEF InQueue
<1>7. TypeOK' /\ Control' /\ EventState'
  <2>1. TypeOK'
    BY <1>1, <1>2 DEF TypeOK, CacherTypeOK, cleanerVars
  <2>2. Control'
    BY <1>1 DEF Control
  <2>3. EventState'
    BY <1>1, <1>2 DEF EventState
  <2> QED
    BY <2>1, <2>2, <2>3
<1>8. QueueRefs'
  <2>1. ASSUME NEW i \in 1..Len(eventQueue'), eventQueue'[i].type = "REQUEST"
        PROVE  Asks(eventQueue[i].promise, eventQueue[i].request)'
    <3>1. /\ i + 1 \in 1..Len(eventQueue)
          /\ eventQueue'[i] = eventQueue[i + 1]
      BY <1>2, <1>3
    <3>2. /\ Asks(eventQueue[i + 1].promise, eventQueue[i + 1].request)
          /\ eventQueue[i + 1].promise \in Servers
          /\ eventQueue[i + 1].request \in Requests
      BY <2>1, <3>1, EventFacts DEF QueueRefs
    <3> QED
      BY <1>4, <3>1, <3>2
  <2>2. ASSUME NEW i \in 1..Len(eventQueue'), NEW j \in 1..Len(eventQueue'),
               eventQueue'[i].type = "REQUEST",
               eventQueue'[i].promise = eventQueue'[j].promise
        PROVE  i = j
    <3>1. /\ i + 1 \in 1..Len(eventQueue) /\ j + 1 \in 1..Len(eventQueue)
          /\ eventQueue'[i] = eventQueue[i + 1]
          /\ eventQueue'[j] = eventQueue[j + 1]
      BY <1>2, <1>3
    <3>2. i + 1 = j + 1
      BY <2>2, <3>1 DEF QueueRefs
    <3> QED
      BY <3>2
  <2> QED
    BY <2>1, <2>2 DEF QueueRefs
<1>9. EventRef'
  BY <1>2, <1>4, <1>6, EventFacts DEF EventRef
<1>10. CopyRefs'
  BY <1>1 DEF CopyRefs
<1>11. ParkedRefs'
  <2>1. \A r \in Requests : Parked(r)' = Parked(r)
    BY <1>1 DEF Parked
  <2>2. \A r \in Requests : \A i \in 1..Len(Parked(r)) : Parked(r)[i] \in Servers
    BY DEF TypeOK, CacherTypeOK, Parked
  <2> QED
    BY <1>4, <1>5, <2>1, <2>2 DEF ParkedRefs
<1>12. Known'
  <2>1. \A r \in Requests : Parked(r)' = Parked(r)
    BY <1>1 DEF Parked
  <2> QED
    BY <1>1, <1>5, <2>1, CacherAssumption DEF Known, NoEvent
<1>13. Flights'
  <2>1. \A i \in Nat, r \in Requests :
            Queued(i, r)' => i + 1 \in Nat /\ Queued(i + 1, r) /\ i + 1 # 1
    BY <1>2, <1>3 DEF Queued, AnswerEvent
  <2>2. \A r \in Requests : HandledAnswer(r)' => Queued(1, r)
    BY <1>2 DEF HandledAnswer, Queued, AnswerEvent
  <2>3. \A t \in Servers, r \in Requests : Fetching(t, r)' <=> Fetching(t, r)
    BY <1>1 DEF Fetching
  <2> QED
    BY <1>1, <2>1, <2>2, <2>3 DEF Flights
<1> QED
  BY <1>7, <1>8, <1>9, <1>10, <1>11, <1>12, <1>13

\* While a REQUEST is handled its thread waits for it.
LEMMA RequestFacts ==
    ASSUME Inv, Handling("REQUEST")
    PROVE  /\ eventPc = "handle" /\ waitersQueue = <<>>
           /\ event.promise \in Servers /\ event.request \in Requests
           /\ Asks(event.promise, event.request)
           /\ event.request \in GetRequests
           /\ ~InQueue(event.promise)
           /\ \A r \in Requests :
                Parked(r) = IF waiters[r] = Absent THEN <<>> ELSE waiters[r]
           /\ \A r \in Requests : ~HandledAnswer(r)
  BY EventFacts DEF Handling, Inv, EventState, EventRef, Parked, HandledAnswer,
                    AnswerEvent, Asks, Control, NoEvent

\* HandleHit and HandleLead: the promise of the event is satisfied, and what
\* is left of the references does not mention it.
LEMMA SatisfyEvent ==
    ASSUME Inv, Handling("REQUEST"), EventDone,
           NEW result \in {"hit", "miss"}, Satisfy(event.promise, result),
           \A r \in Requests : Parked(r)' = Parked(r),
           UNCHANGED <<serverVars, eventQueue, waitersQueue>>
    PROVE  QueueRefs' /\ EventRef' /\ CopyRefs' /\ ParkedRefs' /\ Known'
<1> USE DEF Inv
<1>1. /\ promise' = [promise EXCEPT ![event.promise] = result]
      /\ event' = NoEvent
      /\ UNCHANGED <<pc, request, eventQueue, waitersQueue>>
  BY DEF Satisfy, EventDone, serverVars
<1>2. \A t \in Servers, r \in Requests :
            Asks(t, r)' <=> Asks(t, r) /\ t # event.promise
  BY <1>1, RequestFacts DEF Asks, TypeOK, CacherTypeOK
<1>3. \A t : InQueue(t)' <=> InQueue(t)
  BY <1>1 DEF InQueue
<1>4. QueueRefs'
  BY <1>1, <1>2, RequestFacts, EventFacts DEF QueueRefs, InQueue
<1>5. EventRef'
  BY <1>1 DEF EventRef, NoEvent
<1>6. CopyRefs'
  BY <1>1, RequestFacts DEF CopyRefs
<1>7. ParkedRefs'
  <2>1. \A r \in Requests : \A i \in 1..Len(Parked(r)) : Parked(r)[i] \in Servers
    BY DEF TypeOK, CacherTypeOK, Parked
  <2> QED
    BY <1>1, <1>2, <1>3, <2>1, CacherAssumption DEF ParkedRefs, NoEvent
<1>8. Known'
  <2>1. \A t \in Servers : promise'[t] = "pending" =>
            promise[t] = "pending" /\ t # event.promise
    BY <1>1 DEF TypeOK, CacherTypeOK
  <2> QED
    BY <1>1, <1>3, <2>1 DEF Known
<1> QED
  BY <1>4, <1>5, <1>6, <1>7, <1>8

\* REQUEST, cached.
LEMMA HandleHitStep ==
    ASSUME Inv, HandleHit, UNCHANGED serverVars PROVE Inv'
<1> USE DEF Inv
<1>1. /\ Handling("REQUEST") /\ EventDone /\ Satisfy(event.promise, "hit")
      /\ UNCHANGED <<eventQueue, waitersQueue, waiters, cachingMap, cleanerVars>>
  BY DEF HandleHit
<1>2. \A r \in Requests : Parked(r)' = Parked(r)
  BY <1>1, RequestFacts DEF EventDone, Parked
<1>3. QueueRefs' /\ EventRef' /\ CopyRefs' /\ ParkedRefs' /\ Known'
  BY <1>1, <1>2, SatisfyEvent
<1>4. TypeOK' /\ Control' /\ EventState'
  BY <1>1, RequestFacts
     DEF TypeOK, CacherTypeOK, Control, EventState, EventDone, Satisfy,
         serverVars, cleanerVars, Asks
<1>5. Flights'
  <2>1. \A t \in Servers, r \in Requests : Fetching(t, r)' => Fetching(t, r)
    BY <1>1 DEF Fetching, Satisfy, serverVars, TypeOK, CacherTypeOK
  <2>2. \A r \in Requests : ~HandledAnswer(r)'
    BY <1>1 DEF HandledAnswer, EventDone, NoEvent, AnswerEvent
  <2> QED
    BY <1>1, <2>1, <2>2 DEF Flights, Queued
<1> QED
  BY <1>3, <1>4, <1>5

\* REQUEST, neither cached nor being fetched: a fetch begins.
LEMMA HandleLeadStep ==
    ASSUME Inv, HandleLead, UNCHANGED serverVars PROVE Inv'
<1> USE DEF Inv
<1>1. /\ Handling("REQUEST") /\ EventDone /\ Satisfy(event.promise, "miss")
      /\ cachingMap[event.request] = Absent
      /\ waiters[event.request] = Absent
      /\ waiters' = [waiters EXCEPT ![event.request] = <<>>]
      /\ UNCHANGED <<eventQueue, waitersQueue, cachingMap, cleanerVars>>
  BY DEF HandleLead
<1>2. \A r \in Requests : Parked(r)' = Parked(r)
  BY <1>1, RequestFacts, CacherAssumption
     DEF EventDone, Parked, TypeOK, CacherTypeOK
<1>3. QueueRefs' /\ EventRef' /\ CopyRefs' /\ ParkedRefs' /\ Known'
  BY <1>1, <1>2, SatisfyEvent
<1>4. TypeOK' /\ Control' /\ EventState'
  BY <1>1, RequestFacts
     DEF TypeOK, CacherTypeOK, Control, EventState, EventDone, Satisfy,
         serverVars, cleanerVars, Asks
\* Nothing was under way for this request; now s alone fetches it.
<1>5. Flights'
  <2>1. \A t \in Servers, r \in Requests :
            Fetching(t, r)' =>
                Fetching(t, r) \/ (t = event.promise /\ r = event.request)
    BY <1>1, RequestFacts
       DEF Fetching, Satisfy, serverVars, TypeOK, CacherTypeOK, Asks
  <2>2. \A r \in Requests : ~HandledAnswer(r)'
    BY <1>1 DEF HandledAnswer, EventDone, NoEvent, AnswerEvent
  <2>3. \A i \in Nat, r \in Requests : Queued(i, r)' <=> Queued(i, r)
    BY <1>1 DEF Queued
  <2>4. /\ \A t \in Servers : ~Fetching(t, event.request)
        /\ \A i \in Nat : ~Queued(i, event.request)
    BY <1>1, RequestFacts DEF Flights
  <2>5. /\ waiters'[event.request] # Absent
        /\ \A r \in Requests : r # event.request => waiters'[r] = waiters[r]
    BY <1>1, RequestFacts, CacherAssumption DEF TypeOK, CacherTypeOK
  <2> QED
    BY <1>1, <2>1, <2>2, <2>3, <2>4, <2>5, RequestFacts DEF Flights
<1> QED
  BY <1>3, <1>4, <1>5

\* REQUEST, being fetched: the pointer moves to the parked promises.
LEMMA HandleWaitStep ==
    ASSUME Inv, HandleWait, UNCHANGED serverVars PROVE Inv'
<1> USE DEF Inv
<1>0. PICK s \in Servers, r \in Requests : event.promise = s /\ event.request = r
  BY RequestFacts DEF HandleWait
<1>1. /\ Handling("REQUEST") /\ eventPc' = "pop" /\ event' = NoEvent
      /\ cachingMap[r] = Absent
      /\ waiters[r] # Absent
      /\ waiters' = [waiters EXCEPT ![r] = Append(waiters[r], s)]
      /\ UNCHANGED <<pc, request, eventQueue, waitersQueue, cachingMap, promise,
                     cleanerVars>>
  BY <1>0 DEF HandleWait, EventDone, serverVars
<1>2. /\ Parked(r) = waiters[r]
      /\ Parked(r) \in Seq(Servers)
      /\ Len(Parked(r)) \in Nat
      /\ Parked(r)' = Append(Parked(r), s)
      /\ Parked(r)' \in Seq(Servers)
      /\ \A q \in Requests : q # r => Parked(q)' = Parked(q)
  <2>1. waiters[r] \in Seq(Servers) /\ Len(waiters[r]) \in Nat
    BY <1>1 DEF TypeOK, CacherTypeOK
  <2>2. Append(waiters[r], s) \in Seq(Servers)
    BY <2>1, AppendFacts
  <2>3. /\ waiters'[r] = Append(waiters[r], s)
        /\ \A q \in Requests : q # r => waiters'[q] = waiters[q]
    BY <1>1 DEF TypeOK, CacherTypeOK
  <2>4. waiters'[r] # Absent
    BY <2>2, <2>3, CacherAssumption
  <2>5. Parked(r) = waiters[r] /\ Parked(r)' = waiters'[r]
    BY <1>1, <2>4, RequestFacts DEF Parked
  <2>6. \A q \in Requests : q # r => Parked(q)' = Parked(q)
    BY <1>1, <2>3, RequestFacts DEF Parked
  <2> QED
    BY <2>1, <2>2, <2>3, <2>5, <2>6
<1>3. /\ Len(Parked(r)') = Len(Parked(r)) + 1
      /\ \A i \in 1..Len(Parked(r)) : Parked(r)'[i] = Parked(r)[i]
      /\ Parked(r)'[Len(Parked(r)) + 1] = s
  BY <1>2, AppendFacts
<1>4. /\ Asks(s, r)
      /\ ~InQueue(s)
      /\ \A q \in Requests : \A i \in 1..Len(Parked(q)) :
            Parked(q)[i] # s /\ Parked(q)[i] \in Servers
  BY <1>0, <1>1, RequestFacts DEF ParkedRefs, TypeOK, CacherTypeOK, Parked
<1>5. /\ \A t \in Servers, q \in Requests : Asks(t, q)' <=> Asks(t, q)
      /\ \A t : InQueue(t)' <=> InQueue(t)
  BY <1>1 DEF Asks, InQueue
<1>6. TypeOK' /\ Control' /\ EventState'
  BY <1>1, <1>2, RequestFacts
     DEF TypeOK, CacherTypeOK, Control, EventState, cleanerVars
<1>7. QueueRefs'
  BY <1>1, <1>5, EventFacts DEF QueueRefs
<1>8. EventRef' /\ CopyRefs'
  BY <1>1, RequestFacts DEF EventRef, CopyRefs, NoEvent
<1>9. ParkedRefs'
  <2>1. ASSUME NEW q \in Requests, NEW i \in 1..Len(Parked(q)')
        PROVE  /\ Asks(Parked(q)'[i], q)
               /\ ~InQueue(Parked(q)'[i])
               /\ Parked(q)'[i] \in Servers
    BY <1>2, <1>3, <1>4 DEF ParkedRefs
  <2>2. ASSUME NEW q \in Requests,
               NEW i \in 1..Len(Parked(q)'), NEW j \in 1..Len(Parked(q)'),
               Parked(q)'[i] = Parked(q)'[j]
        PROVE  i = j
    BY <1>2, <1>3, <1>4, <2>2 DEF ParkedRefs
  <2> QED
    BY <1>1, <1>5, <2>1, <2>2, CacherAssumption DEF ParkedRefs, NoEvent
<1>10. Known'
  <2>1. \E i \in 1..Len(Parked(r)') : Parked(r)'[i] = s
    BY <1>2, <1>3
  <2>2. ASSUME NEW q \in Requests, NEW i \in 1..Len(Parked(q))
        PROVE  \E j \in 1..Len(Parked(q)') : Parked(q)'[j] = Parked(q)[i]
    <3>1. i \in 1..Len(Parked(q)') /\ Parked(q)'[i] = Parked(q)[i]
      BY <1>2, <1>3
    <3> QED
      BY <3>1
  <2> QED
    BY <1>0, <1>1, <1>5, <2>1, <2>2 DEF Known
<1>11. Flights'
  <2>1. /\ waiters'[r] # Absent
        /\ \A q \in Requests : q # r => waiters'[q] = waiters[q]
    BY <1>1, <1>2, CacherAssumption DEF TypeOK, CacherTypeOK
  <2>2. \A q \in Requests : ~HandledAnswer(q)'
    BY <1>1 DEF HandledAnswer, NoEvent, AnswerEvent
  <2>3. \A t \in Servers, q \in Requests : Fetching(t, q)' <=> Fetching(t, q)
    BY <1>1 DEF Fetching
  <2>4. \A i \in Nat, q \in Requests : Queued(i, q)' <=> Queued(i, q)
    BY <1>1 DEF Queued
  <2> QED
    BY <1>1, <2>1, <2>2, <2>3, <2>4 DEF Flights
<1> QED
  BY <1>6, <1>7, <1>8, <1>9, <1>10, <1>11

\* While an ANSWER is handled its request is in waiters and not cached.
LEMMA AnswerFacts ==
    ASSUME Inv, event.type = "ANSWER"
    PROVE  /\ event.request \in Requests
           /\ event = AnswerEvent(event.request)
           /\ HandledAnswer(event.request)
           /\ waiters[event.request] \in Seq(Servers)
           /\ waiters[event.request] # Absent
           /\ cachingMap[event.request] = Absent
           /\ event.promise \notin Servers
  BY EventFacts, CacherAssumption
     DEF Inv, Flights, HandledAnswer, NoEvent, TypeOK, CacherTypeOK,
         AnswerEvent

\* ANSWER: the parked promises move to the copy.
LEMMA HandleAnswerStep ==
    ASSUME Inv, HandleAnswer, UNCHANGED serverVars PROVE Inv'
<1> USE DEF Inv
<1>0. PICK r \in Requests : event.request = r
  BY AnswerFacts DEF HandleAnswer, Handling
<1>1. /\ eventPc = "handle" /\ eventPc' = "satisfy" /\ event.type = "ANSWER"
      /\ waitersQueue = <<>> /\ waitersQueue' = waiters[r]
      /\ UNCHANGED <<pc, request, eventQueue, event, waiters, cachingMap, promise,
                     cleanerVars>>
  BY <1>0, AnswerFacts DEF HandleAnswer, Handling, serverVars, EventState
<1>2. /\ Parked(r) = waitersQueue' /\ Parked(r)' = <<>>
      /\ \A q \in Requests : q # r => Parked(q)' = Parked(q)
  BY <1>0, <1>1, AnswerFacts DEF Parked
<1>3. /\ \A t \in Servers, q \in Requests : Asks(t, q)' <=> Asks(t, q)
      /\ \A t : InQueue(t)' <=> InQueue(t)
      /\ \A q \in Requests : \A i \in 1..Len(Parked(q)) : Parked(q)[i] \in Servers
  BY <1>1 DEF Asks, InQueue, TypeOK, CacherTypeOK, Parked
<1>4. TypeOK' /\ Control' /\ EventState'
  BY <1>0, <1>1, AnswerFacts
     DEF TypeOK, CacherTypeOK, Control, EventState, cleanerVars
<1>5. QueueRefs' /\ EventRef'
  BY <1>1, <1>3, EventFacts DEF QueueRefs, EventRef
<1>6. CopyRefs'
  BY <1>0, <1>1, <1>2, <1>3 DEF CopyRefs, ParkedRefs
<1>7. ParkedRefs'
  BY <1>1, <1>2, <1>3 DEF ParkedRefs
<1>8. Known'
  BY <1>1, <1>2, <1>3 DEF Known
<1>9. Flights'
  BY <1>1 DEF Flights, Fetching, Queued, HandledAnswer
<1> QED
  BY <1>4, <1>5, <1>6, <1>7, <1>8, <1>9

\* ANSWER: one waiter of the copy is satisfied.
LEMMA SatisfyWaiterStep ==
    ASSUME Inv, SatisfyWaiter, UNCHANGED serverVars PROVE Inv'
<1> USE DEF Inv
<1>0. PICK s \in Servers : s = waitersQueue[1]
  BY TailFacts DEF SatisfyWaiter, TypeOK, CacherTypeOK
<1>1. /\ eventPc = "satisfy" /\ event.type = "ANSWER"
      /\ waitersQueue # <<>>
      /\ waitersQueue' = Tail(waitersQueue)
      /\ promise' = [promise EXCEPT ![s] = "hit"]
      /\ UNCHANGED <<pc, request, eventQueue, eventPc, event, waiters, cachingMap,
                     cleanerVars>>
  BY <1>0, TailFacts
     DEF SatisfyWaiter, Satisfy, serverVars, EventState, TypeOK, CacherTypeOK
<1>2. /\ Len(waitersQueue) \in Nat \ {0}
      /\ Len(waitersQueue') = Len(waitersQueue) - 1
      /\ \A i \in 1..Len(waitersQueue') :
            /\ waitersQueue'[i] = waitersQueue[i + 1]
            /\ i + 1 \in 1..Len(waitersQueue) /\ i + 1 # 1
      /\ waitersQueue' \in Seq(Servers)
      /\ \A i \in 1..Len(waitersQueue) : waitersQueue[i] \in Servers
  BY <1>1, TailFacts DEF TypeOK, CacherTypeOK
<1>3. /\ Asks(s, event.request) /\ ~InQueue(s)
      /\ event.request \in Requests /\ event.promise # s
      /\ Parked(event.request) = <<>>
      /\ \A i \in 1..Len(waitersQueue') : waitersQueue'[i] # s
      /\ \A q \in Requests : \A i \in 1..Len(Parked(q)) :
            Parked(q)[i] \in Servers \ {s}
  <2>1. Asks(s, event.request) /\ ~InQueue(s)
    BY <1>0, <1>2 DEF CopyRefs
  <2>2. /\ event.request \in Requests /\ event.promise # s
        /\ Parked(event.request) = <<>>
    BY <1>1, AnswerFacts DEF Parked
  <2>3. \A i \in 1..Len(waitersQueue') : waitersQueue'[i] # s
    BY <1>0, <1>2 DEF CopyRefs
  \* whoever is parked for another request asks for that one
  <2>4. ASSUME NEW q \in Requests, NEW i \in 1..Len(Parked(q))
        PROVE  Parked(q)[i] \in Servers \ {s}
    <3>1. Parked(q)[i] \in Servers
      BY DEF TypeOK, CacherTypeOK, Parked
    <3>2. Asks(Parked(q)[i], q)
      BY DEF ParkedRefs
    <3>3. q # event.request
      BY <2>2
    <3> QED
      BY <2>1, <3>1, <3>2, <3>3 DEF Asks
  <2> QED
    BY <2>1, <2>2, <2>3, <2>4
<1>4. /\ \A t \in Servers, q \in Requests : Asks(t, q)' <=> Asks(t, q) /\ t # s
      /\ \A t : InQueue(t)' <=> InQueue(t)
      /\ \A q \in Requests : Parked(q)' = Parked(q)
  BY <1>1 DEF Asks, InQueue, Parked, TypeOK, CacherTypeOK
<1>5. TypeOK' /\ Control' /\ EventState'
  BY <1>1, <1>2, <1>3
     DEF TypeOK, CacherTypeOK, Control, EventState, cleanerVars, Asks
<1>6. QueueRefs'
  <2>1. \A i \in 1..Len(eventQueue) : eventQueue[i].promise # s
    BY <1>3 DEF InQueue
  <2> QED
    BY <1>1, <1>4, <2>1, EventFacts DEF QueueRefs
<1>7. EventRef'
  BY <1>1 DEF EventRef
<1>8. CopyRefs'
  <2>1. \A i \in 1..Len(waitersQueue') :
            /\ Asks(waitersQueue'[i], event.request)
            /\ ~InQueue(waitersQueue'[i])
            /\ waitersQueue'[i] \in Servers \ {s}
    BY <1>2, <1>3 DEF CopyRefs
  <2>2. \A i, j \in 1..Len(waitersQueue') :
            waitersQueue'[i] = waitersQueue'[j] => i = j
    BY <1>2 DEF CopyRefs
  <2> QED
    BY <1>1, <1>3, <1>4, <2>1, <2>2 DEF CopyRefs
<1>9. ParkedRefs'
  BY <1>1, <1>3, <1>4 DEF ParkedRefs
<1>10. Known'
  <2>1. \A t \in Servers : promise'[t] = "pending" =>
            promise[t] = "pending" /\ t # s
    BY <1>1 DEF TypeOK, CacherTypeOK
  <2>2. ASSUME NEW i \in 1..Len(waitersQueue), waitersQueue[i] # s
        PROVE  \E j \in 1..Len(waitersQueue') : waitersQueue'[j] = waitersQueue[i]
    <3>1. i - 1 \in 1..Len(waitersQueue') /\ waitersQueue'[i - 1] = waitersQueue[i]
      BY <1>0, <1>2, <2>2
    <3> QED
      BY <3>1
  <2> QED
    BY <1>1, <1>4, <2>1, <2>2 DEF Known
<1>11. Flights'
  <2>1. \A t \in Servers, q \in Requests : Fetching(t, q)' => Fetching(t, q)
    BY <1>1 DEF Fetching, TypeOK, CacherTypeOK
  <2> QED
    BY <1>1, <2>1 DEF Flights, Queued, HandledAnswer
<1> QED
  BY <1>5, <1>6, <1>7, <1>8, <1>9, <1>10, <1>11

\* ANSWER: the waiters are forgotten and the entry is inserted.
LEMMA InsertAnswerStep ==
    ASSUME Inv, InsertAnswer, UNCHANGED serverVars PROVE Inv'
<1> USE DEF Inv
<1>0. event.type = "ANSWER"
  BY DEF InsertAnswer, EventState
<1>a. PICK r \in Requests : event.request = r
  BY <1>0, AnswerFacts
<1>1. /\ eventPc = "satisfy" /\ eventPc' = "pop" /\ event' = NoEvent
      /\ waitersQueue = <<>>
      /\ waiters' = [waiters EXCEPT ![r] = Absent]
      /\ cachingMap' = [cachingMap EXCEPT ![r] = 0]
      /\ UNCHANGED <<pc, request, eventQueue, waitersQueue, promise, cleanerVars>>
  BY <1>0, <1>a, AnswerFacts DEF InsertAnswer, EventDone, serverVars
<1>2. \A q \in Requests : Parked(q)' = Parked(q)
  BY <1>a, <1>1 DEF Parked, TypeOK, CacherTypeOK
<1>3. /\ \A t \in Servers, q \in Requests : Asks(t, q)' <=> Asks(t, q)
      /\ \A t : InQueue(t)' <=> InQueue(t)
      /\ \A q \in Requests : \A i \in 1..Len(Parked(q)) : Parked(q)[i] \in Servers
  BY <1>1 DEF Asks, InQueue, TypeOK, CacherTypeOK, Parked
<1>4. TypeOK' /\ Control' /\ EventState'
  BY <1>1 DEF TypeOK, CacherTypeOK, Control, EventState, cleanerVars
<1>5. QueueRefs'
  BY <1>1, <1>3, EventFacts DEF QueueRefs
<1>6. EventRef' /\ CopyRefs'
  BY <1>1 DEF EventRef, CopyRefs, NoEvent
<1>7. ParkedRefs'
  BY <1>1, <1>2, <1>3, CacherAssumption DEF ParkedRefs, NoEvent
<1>8. Known'
  BY <1>0, <1>1, <1>2, <1>3, AnswerFacts DEF Known
\* The answer was the only thing under way for this request.
<1>9. Flights'
  <2>1. /\ \A t \in Servers : ~Fetching(t, r)
        /\ \A i \in Nat : ~Queued(i, r)
    BY <1>0, <1>a, AnswerFacts DEF Flights
  <2>2. \A q \in Requests : ~HandledAnswer(q)'
    BY <1>1 DEF HandledAnswer, NoEvent, AnswerEvent
  <2>3. \A t \in Servers, q \in Requests : Fetching(t, q)' <=> Fetching(t, q)
    BY <1>1 DEF Fetching
  <2>4. \A i \in Nat, q \in Requests : Queued(i, q)' <=> Queued(i, q)
    BY <1>1 DEF Queued
  <2>5. /\ waiters'[r] = Absent
        /\ \A q \in Requests : q # r =>
                waiters'[q] = waiters[q] /\ cachingMap'[q] = cachingMap[q]
    BY <1>1 DEF TypeOK, CacherTypeOK
  <2> QED
    BY <2>1, <2>2, <2>3, <2>4, <2>5 DEF Flights
<1> QED
  BY <1>4, <1>5, <1>6, <1>7, <1>8, <1>9

\* The cleaner and the clock only take entries away or make them older.
LEMMA CleanerStep ==
    ASSUME Inv, CleanerWake \/ Clean \/ Tick, UNCHANGED serverVars PROVE Inv'
<1> USE DEF Inv
<1>1. /\ UNCHANGED <<pc, request, eventQueue, eventVars, promise>>
      /\ \A r \in Requests : cachingMap[r] = Absent => cachingMap'[r] = Absent
  BY DEF CleanerWake, Clean, Tick, Expired, serverVars, TypeOK, CacherTypeOK
<1>2. /\ cachingMap' \in [Requests -> Nat \cup {Absent}]
      /\ cleanerPc' \in {"wait", "clean"}
      /\ elapsed' \in Nat
  BY CacherAssumption DEF CleanerWake, Clean, Tick, TypeOK, CacherTypeOK
<1>3. TypeOK' /\ Control' /\ EventState'
  BY <1>1, <1>2 DEF TypeOK, CacherTypeOK, Control, EventState, eventVars
<1>4. QueueRefs' /\ EventRef' /\ CopyRefs' /\ ParkedRefs' /\ Known'
  BY <1>1 DEF QueueRefs, EventRef, CopyRefs, ParkedRefs, Known, Parked,
     InQueue,
              Asks, eventVars
<1>5. Flights'
  BY <1>1 DEF Flights, Fetching, Queued, HandledAnswer, eventVars
<1> QED
  BY <1>3, <1>4, <1>5

-----------------------------------------------------------------------------
\* The threads start with nothing queued, parked or cached.
THEOREM InitInv == Init => Inv
<1> SUFFICES ASSUME Init PROVE Inv
  OBVIOUS
<1> USE DEF Init, CacherInit
<1>1. TypeOK /\ Control /\ EventState
  BY DEF TypeOK, CacherTypeOK, Control, EventState, ServerState
<1>2. eventQueue = <<>> /\ Len(eventQueue) = 0 /\ waitersQueue = <<>>
      /\ Len(waitersQueue) = 0
  OBVIOUS
<1>3. \A r \in Requests : Parked(r) = <<>>
  BY DEF Parked
<1>4. QueueRefs /\ EventRef /\ CopyRefs /\ ParkedRefs /\ Known
  BY <1>2, <1>3 DEF QueueRefs, EventRef, CopyRefs, ParkedRefs, Known, NoEvent
<1>5. Flights
  BY <1>2 DEF Flights, Fetching, Queued, HandledAnswer, NoEvent, AnswerEvent
<1> QED
  BY <1>1, <1>4, <1>5 DEF Inv

\* Every step of the connection, event and cleaner threads preserves Inv.
THEOREM NextInv == Inv /\ [Next]_vars => Inv'
<1> SUFFICES ASSUME Inv, [Next]_vars PROVE Inv'
  OBVIOUS
<1>1. ASSUME NEW s \in Servers, Server(s) PROVE Inv'
  BY <1>1, LocalActions, GetCacheStep, CacheAnswersStep, CacheResponseStep
     DEF Server, Proceed
<1>2. CASE CacherNext /\ UNCHANGED serverVars
  BY <1>2, PopStep, HandleHitStep, HandleLeadStep, HandleWaitStep,
     HandleAnswerStep, SatisfyWaiterStep, InsertAnswerStep, CleanerStep
     DEF CacherNext, EventThread, Cleaner
<1>3. CASE UNCHANGED vars
  BY <1>3
     DEF vars, Inv, TypeOK, CacherTypeOK, Control, EventState, QueueRefs,
         EventRef,
         CopyRefs, ParkedRefs, Known, Parked, InQueue, Asks, Flights, Fetching,
         Queued, HandledAnswer
<1> QED
  BY <1>1, <1>2, <1>3 DEF Next

\* The variables keep to their types: no event points to anything but the
\* promise of a connection thread, no wait queue is read for a missing key.
THEOREM TypeCorrect == Spec => []TypeOK
<1>1. Inv => TypeOK
  BY DEF Inv
<1> QED
  BY <1>1, InitInv, NextInv, PTL DEF Spec

\* Flights is SingleFlight.
LEMMA InvSingleFlight == Inv => SingleFlight
<1> SUFFICES ASSUME Inv PROVE SingleFlight
  OBVIOUS
<1>1. \A r \in Requests, s \in Servers : s \in Fetchers(r) <=> Fetching(s, r)
  BY DEF Fetchers
<1>2. \A r \in Requests :
        \A i : i \in QueuedAnswers(r) <=> i \in Nat /\ Queued(i, r)
  BY EventFacts DEF QueuedAnswers, Queued
<1> QED
  BY <1>1, <1>2 DEF Inv, Flights, SingleFlight, Fetchers

\* For every request: at most one thread fetches it, no answer is under way
\* meanwhile, and the request stays in waiters and out of the map.
THEOREM OneFetchAtATime == Spec => []SingleFlight
<1> QED
  BY InvSingleFlight, InitInv, NextInv, PTL DEF Spec

-----------------------------------------------------------------------------
\* The members of Places, by kind.
LEMMA PlaceKinds ==
    ASSUME Inv, NEW s \in Servers, NEW x
    PROVE  x \in Places(s) <=>
            \/ \E i \in 1..Len(eventQueue) :
                    x = <<"queue", i>> /\ eventQueue[i].promise = s
            \/ x = <<"event", 0>> /\ event.promise = s
            \/ \E i \in 1..Len(waitersQueue) :
                    x = <<"copy", i>> /\ waitersQueue[i] = s
            \/ \E r \in Requests : \E i \in 1..Len(Parked(r)) :
                    x = <<"parked", <<r, i>>>> /\ Parked(r)[i] = s
<1>1. /\ DOMAIN eventQueue = 1..Len(eventQueue)
      /\ DOMAIN waitersQueue = 1..Len(waitersQueue)
      /\ \A r \in Requests : DOMAIN Parked(r) = 1..Len(Parked(r))
  BY DEF Inv, TypeOK, CacherTypeOK, Parked
<1>2. x \in {"queue"} \X {i \in DOMAIN eventQueue : eventQueue[i].promise = s}
        <=> \E i \in 1..Len(eventQueue) :
                x = <<"queue", i>> /\ eventQueue[i].promise = s
  BY <1>1
<1>3. x \in (IF event.promise = s THEN {<<"event", 0>>} ELSE {})
        <=> x = <<"event", 0>> /\ event.promise = s
  OBVIOUS
<1>4. x \in {"copy"} \X Occurrences(waitersQueue, s)
        <=> \E i \in 1..Len(waitersQueue) :
                x = <<"copy", i>> /\ waitersQueue[i] = s
  BY <1>1 DEF Occurrences
<1>5. ASSUME NEW r \in Requests
      PROVE  x \in {"parked"} \X ({r} \X Occurrences(Parked(r), s))
                <=> \E i \in 1..Len(Parked(r)) :
                        x = <<"parked", <<r, i>>>> /\ Parked(r)[i] = s
  BY <1>1 DEF Occurrences
<1> QED
  BY <1>2, <1>3, <1>4, <1>5 DEF Places

\* References exclude each other: two places that hold the same promise are
\* the same place.
LEMMA OnePlace ==
    ASSUME Inv, NEW s \in Servers, NEW x \in Places(s), NEW y \in Places(s)
    PROVE  x = y
<1> USE DEF Inv
<1>1. \A i \in 1..Len(eventQueue) :
        eventQueue[i].promise = s => eventQueue[i].type = "REQUEST"
  BY EventFacts, CacherAssumption
<1>2. \A i, j \in 1..Len(eventQueue) :
        eventQueue[i].promise = s /\ eventQueue[j].promise = s => i = j
  BY <1>1 DEF QueueRefs
<1>3. event.promise = s => ~InQueue(s) /\ waitersQueue = <<>>
  BY EventFacts, CacherAssumption DEF EventRef, EventState, NoEvent
<1>4. \A i \in 1..Len(waitersQueue) :
        waitersQueue[i] = s =>
            /\ ~InQueue(s)
            /\ Asks(s, event.request)
            /\ Parked(event.request) = <<>>
            /\ \A j \in 1..Len(waitersQueue) : waitersQueue[j] = s => i = j
  BY DEF CopyRefs, EventState, Parked
<1>5. \A r \in Requests : \A i \in 1..Len(Parked(r)) :
        Parked(r)[i] = s =>
            /\ ~InQueue(s)
            /\ Asks(s, r)
            /\ event.promise # s
            /\ \A j \in 1..Len(Parked(r)) : Parked(r)[j] = s => i = j
  BY DEF ParkedRefs
<1>6. \A q, r : Asks(s, q) /\ Asks(s, r) => q = r
  BY DEF Asks
<1>7. \A i \in 1..Len(eventQueue) : eventQueue[i].promise = s => InQueue(s)
  BY DEF InQueue
<1>8. CASE \E i \in 1..Len(eventQueue) :
                x = <<"queue", i>> /\ eventQueue[i].promise = s
  BY <1>2, <1>3, <1>4, <1>5, <1>7, <1>8, PlaceKinds
<1>9. CASE x = <<"event", 0>> /\ event.promise = s
  BY <1>3, <1>4, <1>5, <1>7, <1>9, PlaceKinds
<1>10. CASE \E i \in 1..Len(waitersQueue) :
                x = <<"copy", i>> /\ waitersQueue[i] = s
  BY <1>3, <1>4, <1>5, <1>6, <1>7, <1>10, PlaceKinds
<1>11. CASE \E r \in Requests : \E i \in 1..Len(Parked(r)) :
                x = <<"parked", <<r, i>>>> /\ Parked(r)[i] = s
  BY <1>4, <1>5, <1>6, <1>7, <1>11, PlaceKinds
<1> QED
  BY <1>8, <1>9, <1>10, <1>11, PlaceKinds

\* The reference conjuncts of Inv give PromiseOwnership.
LEMMA InvPromiseOwnership == Inv => PromiseOwnership
<1> SUFFICES ASSUME Inv, NEW s \in Servers
             PROVE  /\ promise[s] = "pending"
                        => pc[s] = "waiting" /\ \E x \in Places(s) : Places(s) = {x}
                    /\ promise[s] # "pending" => Places(s) = {}
  BY DEF PromiseOwnership
<1> USE DEF Inv
<1>1. ASSUME promise[s] = "pending"
      PROVE  pc[s] = "waiting" /\ \E x \in Places(s) : Places(s) = {x}
  <2>1. pc[s] = "waiting"
    BY <1>1 DEF Control
  <2>2. ASSUME InQueue(s) PROVE Places(s) # {}
    <3>1. PICK i \in 1..Len(eventQueue) : eventQueue[i].promise = s
      BY <2>2 DEF InQueue
    <3>2. <<"queue", i>> \in Places(s)
      BY <3>1, PlaceKinds
    <3> QED
      BY <3>2
  <2>3. ASSUME event.promise = s PROVE Places(s) # {}
    <3>1. <<"event", 0>> \in Places(s)
      BY <2>3, PlaceKinds
    <3> QED
      BY <3>1
  <2>4. ASSUME NEW i \in 1..Len(waitersQueue), waitersQueue[i] = s
        PROVE  Places(s) # {}
    <3>1. <<"copy", i>> \in Places(s)
      BY <2>4, PlaceKinds
    <3> QED
      BY <3>1
  <2>5. ASSUME NEW r \in Requests, NEW i \in 1..Len(Parked(r)), Parked(r)[i] = s
        PROVE  Places(s) # {}
    <3>1. <<"parked", <<r, i>>>> \in Places(s)
      BY <2>5, PlaceKinds
    <3> QED
      BY <3>1
  <2>6. Places(s) # {}
    BY <1>1, <2>2, <2>3, <2>4, <2>5 DEF Known
  <2> QED
    BY <2>1, <2>6, OnePlace
<1>2. ASSUME NEW x \in Places(s) PROVE promise[s] = "pending"
  <2>1. \A r : Asks(s, r) => promise[s] = "pending"
    BY DEF Asks
  <2>2. \A i \in 1..Len(eventQueue) :
            eventQueue[i].promise = s => eventQueue[i].type = "REQUEST"
    BY EventFacts, CacherAssumption
  <2>3. event.promise = s => event.type = "REQUEST"
    BY EventFacts, CacherAssumption DEF NoEvent
  <2> QED
    BY <1>2, <2>1, <2>2, <2>3, PlaceKinds
       DEF QueueRefs, EventRef, CopyRefs, ParkedRefs
<1> QED
  BY <1>1, <1>2

\* The promise of a waiting thread is in exactly one place, and that of any
\* other thread in none.
THEOREM PromisesAreOwned == Spec => []PromiseOwnership
<1> QED
  BY InvPromiseOwnership, InitInv, NextInv, PTL DEF Spec

-----------------------------------------------------------------------------
(* The age of the entries of the cache.                                    *)

\* The oldest an entry can be at the beginning of the cleaner's phase: after a
\* pass, what the pass spared; when the wait is over, one period more.
OldestAtStart ==
    IF cleanerPc = "wait" THEN CacheTimeout - 1 + MaxDelay
                          ELSE CacheTimeout - 1 + Revalidate + 2 * MaxDelay

\* The ages and the clock.  The other variables have no part in this.
AgeInv ==
    /\ cachingMap \in [Requests -> Nat \cup {Absent}]
    /\ cleanerPc \in {"wait", "clean"}
    /\ elapsed \in Nat
    /\ elapsed <= Deadline
    /\ \A r \in Requests :
        cachingMap[r] # Absent => cachingMap[r] <= OldestAtStart + elapsed

-----------------------------------------------------------------------------
\* CACHE_TIMEOUT_MILLIS / 4 is a natural number.
LEMMA PeriodType == Revalidate \in Nat
<1>1. CacheTimeout \in Nat
  BY CacherAssumption
<1> QED
  BY <1>1 DEF Revalidate

\* What the actions do to the ages: most of them nothing, ANSWER inserts an
\* entry of age 0, the cleaner drops some, the clock adds 1 to all.
AgeUnchanged == UNCHANGED <<cachingMap, cleanerPc, elapsed>>

\* No connection thread writes to the map.
LEMMA ServerLeavesAges ==
    ASSUME NEW s \in Servers, Server(s) PROVE AgeUnchanged
<1> USE DEF AgeUnchanged, cacherVars, cleanerVars
<1>1. ASSUME Proceed(s) PROVE AgeUnchanged
  BY <1>1 DEF Proceed, GetCache, AskCache, CacheAnswers, LeaveGetCache,
              SendCached, FindHost, NoHost, Connect, SendRequest,
              ReceiveResponse, Reply, CacheResponse, GiveAnswer
<1>2. ASSUME Fail(s) PROVE AgeUnchanged
  BY <1>2 DEF Fail, ReadFails, ConnectFails, SendFails, ReceiveFails,
              ReplyFails
<1> QED
  BY <1>1, <1>2 DEF Server, Accept, ReadClientRequest

\* Nor does the event thread, but for InsertAnswer.
LEMMA EventThreadLeavesAges ==
    ASSUME EventThread PROVE AgeUnchanged \/ InsertAnswer
  BY DEF EventThread, Pop, HandleHit, HandleLead, HandleWait, HandleAnswer,
         SatisfyWaiter, AgeUnchanged, cleanerVars

\* AgeInv mentions only what AgeUnchanged leaves alone.
LEMMA AgeInvStutters == ASSUME AgeInv, AgeUnchanged PROVE AgeInv'
  BY DEF AgeInv, AgeUnchanged, Deadline, OldestAtStart

\* The cache starts empty, at the beginning of a period.
THEOREM InitAgeInv == Init => AgeInv
  BY PeriodType, CacherAssumption DEF Init, CacherInit, AgeInv, Deadline

\* Every step keeps the ages within what the phase of the cleaner allows.
THEOREM NextAgeInv == AgeInv /\ [Next]_vars => AgeInv'
<1> SUFFICES ASSUME AgeInv, [Next]_vars PROVE AgeInv'
  OBVIOUS
<1> USE DEF AgeInv, Deadline, OldestAtStart
<1>0. Revalidate \in Nat /\ MaxDelay \in Nat /\ CacheTimeout \in Nat \ {0}
      /\ Absent \notin Nat
  BY PeriodType, CacherAssumption
<1>1. CASE AgeUnchanged
  BY <1>1, AgeInvStutters
<1>2. CASE InsertAnswer
  <2>1. /\ cachingMap' \in [Requests -> Nat \cup {Absent}]
        /\ UNCHANGED <<cleanerPc, elapsed>>
    BY <1>2 DEF InsertAnswer, cleanerVars
  <2>2. \A r \in Requests :
            cachingMap'[r] = cachingMap[r] \/ cachingMap'[r] = 0
    BY <1>2 DEF InsertAnswer
  <2> QED
    BY <1>0, <2>1, <2>2
<1>3. CASE CleanerWake
  BY <1>0, <1>3 DEF CleanerWake
<1>4. CASE Clean
  <2>1. /\ cleanerPc = "clean" /\ cleanerPc' = "wait"
        /\ elapsed <= MaxDelay /\ elapsed' = 0
        /\ cachingMap' \in [Requests -> Nat \cup {Absent}]
    BY <1>4 DEF Clean
  \* what the pass spares was younger than the timeout when `now` was read
  <2>2. ASSUME NEW r \in Requests, cachingMap'[r] # Absent
        PROVE  cachingMap'[r] <= CacheTimeout - 1 + MaxDelay
    <3>1. /\ cachingMap[r] \in Nat /\ cachingMap'[r] = cachingMap[r]
          /\ ~(cachingMap[r] - elapsed >= CacheTimeout)
      BY <1>4, <2>2 DEF Clean, Expired, DifferenceAtNow
    <3> QED
      BY <1>0, <2>1, <3>1
  <2> QED
    BY <1>0, <2>1, <2>2
<1>5. CASE Tick
  <2>1. /\ elapsed < Deadline /\ elapsed' = elapsed + 1
        /\ cleanerPc' = cleanerPc
        /\ \A r \in Requests : cachingMap'[r] =
                IF cachingMap[r] = Absent THEN Absent ELSE cachingMap[r] + 1
        /\ cachingMap' \in [Requests -> Nat \cup {Absent}]
    BY <1>5 DEF Tick
  <2> QED
    BY <1>0, <2>1
<1>6. CASE UNCHANGED vars
  BY <1>6, AgeInvStutters DEF vars, AgeUnchanged
<1> QED
  BY <1>1, <1>2, <1>3, <1>4, <1>5, <1>6, ServerLeavesAges,
     EventThreadLeavesAges DEF Next, CacherNext, Cleaner

\* No client gets a response older than the timeout, a period of the cleaner
\* and three scheduling delays (cleanerFunction).
THEOREM StaleHitsAreBounded == Spec => []HitAgeBound
<1>1. ASSUME AgeInv PROVE HitAgeBound
  BY <1>1, PeriodType, CacherAssumption
     DEF AgeInv, Deadline, OldestAtStart, HitAgeBound
<1> QED
  BY <1>1, InitAgeInv, NextAgeInv, PTL DEF Spec

\* The cleaner never drops an entry younger than the timeout, although it
\* compares it with a `now` that may lie before the creation of the entry.
THEOREM NothingEvictedEarly == Spec => NeverEvictsEarly
<1>1. ASSUME AgeInv, [Next]_vars, NEW r \in Requests,
             cachingMap[r] # Absent, cachingMap'[r] = Absent
      PROVE  cachingMap[r] >= CacheTimeout
  <2>1. cachingMap[r] \in Nat /\ elapsed \in Nat /\ Absent \notin Nat
        /\ CacheTimeout \in Nat
    BY <1>1, CacherAssumption DEF AgeInv
  <2>2. ~AgeUnchanged /\ ~InsertAnswer /\ ~CleanerWake /\ ~Tick
    BY <1>1, <2>1 DEF AgeUnchanged, InsertAnswer, CleanerWake, Tick, AgeInv
  <2>3. Clean
    BY <1>1, <2>2, ServerLeavesAges, EventThreadLeavesAges
       DEF Next, CacherNext, Cleaner, vars, AgeUnchanged
  <2>4. cachingMap[r] - elapsed >= CacheTimeout
    BY <1>1, <2>3 DEF Clean, Expired, DifferenceAtNow
  <2> QED
    BY <2>1, <2>4
<1>2. ASSUME AgeInv, [Next]_vars
      PROVE  [\A r \in Requests :
                cachingMap[r] # Absent /\ cachingMap'[r] = Absent
                    => cachingMap[r] >= CacheTimeout]_vars
  BY <1>1, <1>2
<1> QED
  BY <1>2, InitAgeInv, NextAgeInv, PTL DEF Spec, NeverEvictsEarly

-----------------------------------------------------------------------------
\* The thread that listenAndServe has created and not yet started is the only
\* one that waits, and is in the registry once it has been inserted.
RegistryInv ==
    /\ life \in [Servers -> {"none", "waits", "serves", "erases"}]
    /\ createdThreads \subseteq Servers
    /\ listener \in {"created", "locked", "inserted"}
            => newcomer \in Servers /\ life[newcomer] = "waits"
    /\ listener \in {"created", "locked"} => newcomer \notin createdThreads
    /\ listener = "inserted" => newcomer \in createdThreads
    /\ \A s \in Servers : life[s] = "waits"
            => s = newcomer /\ listener \in {"created", "locked", "inserted"}
    /\ RegistryIsExact

\* Before the first connection there are no threads.
LEMMA InitRegistryInv == ProxyInit => RegistryInv
  BY DEF ProxyInit, RegistryInv, RegistryIsExact

\* What serve and the threads of the cache do is not about the registry.
LEMMA RegistryInvStutters ==
    ASSUME RegistryInv, UNCHANGED <<life, createdThreads, listener, newcomer>>
    PROVE  RegistryInv'
  BY DEF RegistryInv, RegistryIsExact

\* Every step of the process keeps the registry as it is said to be.
LEMMA NextRegistryInv == RegistryInv /\ [ProxyNext]_allVars => RegistryInv'
<1> SUFFICES ASSUME RegistryInv, [ProxyNext]_allVars PROVE RegistryInv'
  OBVIOUS
<1> USE DEF RegistryInv, RegistryIsExact, Listens
<1>1. ASSUME NEW s \in Servers, AcceptConnection(s) PROVE RegistryInv'
  BY <1>1 DEF AcceptConnection
<1>2. CASE ListenReturns
  BY <1>2 DEF ListenReturns
<1>3. CASE LockRegistry
  BY <1>3 DEF LockRegistry
<1>4. CASE InsertThread
  BY <1>4 DEF InsertThread
<1>5. CASE StartThread
  BY <1>5 DEF StartThread
<1>6. ASSUME NEW s \in Servers,
             Serve(s, (\E r \in Requests : ReadClientRequest(s, r))
                          \/ Proceed(s) \/ Fail(s))
      PROVE  RegistryInv'
  BY <1>6, RegistryInvStutters DEF Serve, proxyVars
<1>7. ASSUME NEW s \in Servers, LockToErase(s) PROVE RegistryInv'
  BY <1>7 DEF LockToErase
<1>8. ASSUME NEW s \in Servers, EraseThread(s) PROVE RegistryInv'
  BY <1>8 DEF EraseThread
<1>9. CASE Interrupt \/ HandlerStep
  BY <1>9, RegistryInvStutters
     DEF Interrupt, HandlerStep, HandlerLocks, HandlerTerminates
<1>10. CASE CacherThread(CacherNext)
  BY <1>10, RegistryInvStutters DEF CacherThread, proxyVars
<1>11. CASE UNCHANGED allVars
  BY <1>11, RegistryInvStutters DEF allVars, proxyVars
<1> QED
  BY <1>1, <1>2, <1>3, <1>4, <1>5, <1>6, <1>7, <1>8, <1>9, <1>10, <1>11
     DEF ProxyNext, ListenerStep

\* The registry that signalHandler walks holds the threads that serve, and none
\* that has ended (listenAndServe, threadStartupFunction).
THEOREM RegistryStaysExact == ProxySpec => []RegistryIsExact
<1>1. RegistryInv => RegistryIsExact
  BY DEF RegistryInv
<1> QED
  BY <1>1, InitRegistryInv, NextRegistryInv, PTL DEF ProxySpec

\* What the connection threads and the cache do in the process, interrupted or
\* not, is what SingleHostServer says; so whatever is proved of its Spec holds
\* of the process.
THEOREM ProxyRunsServers == ProxySpec => Spec
<1>1. ProxyInit => Init
  BY DEF ProxyInit
<1>2. ASSUME RegistryInv, [ProxyNext]_allVars PROVE [Next]_vars
  <2>1. CASE StartThread
    <3>1. newcomer \in Servers
      BY <1>2, <2>1 DEF RegistryInv, StartThread, Listens
    <3> QED
      BY <2>1, <3>1 DEF StartThread, Next, Server
  <2>2. ASSUME NEW s \in Servers,
               Serve(s, (\E r \in Requests : ReadClientRequest(s, r))
                            \/ Proceed(s) \/ Fail(s))
        PROVE  Next
    BY <2>2 DEF Serve, Next, Server
  <2>3. CASE CacherThread(CacherNext)
    BY <2>3 DEF CacherThread, Next
  <2>4. ASSUME UNCHANGED vars PROVE [Next]_vars
    BY <2>4
  <2>5. CASE UNCHANGED allVars
    BY <2>5 DEF allVars
  <2>6. ASSUME \/ \E s \in Servers : AcceptConnection(s) \/ LockToErase(s)
                                                      \/ EraseThread(s)
               \/ ListenReturns \/ LockRegistry \/ InsertThread
               \/ Interrupt \/ HandlerStep
        PROVE  UNCHANGED vars
    BY <2>6 DEF AcceptConnection, LockToErase, EraseThread, ListenReturns,
                LockRegistry, InsertThread, Interrupt, HandlerStep,
                HandlerLocks, HandlerTerminates
  <2> QED
    BY <1>2, <2>1, <2>2, <2>3, <2>4, <2>5, <2>6 DEF ProxyNext, ListenerStep
<1> QED
  BY <1>1, <1>2, InitRegistryInv, NextRegistryInv, PTL DEF ProxySpec, Spec

-----------------------------------------------------------------------------
(* The proxy implements the abstract cache.                                *)

\* An answer for r is queued; a thread fetches r.
Brought(r) == \E i \in Nat : Queued(i, r)
Fetched(r) == \E s \in Servers : Fetching(s, r)

\* The sets that APhase looks at, in first-order form.
LEMMA PhaseFacts ==
    ASSUME Inv, NEW r \in Requests
    PROVE  /\ QueuedAnswers(r) # {} <=> Brought(r)
           /\ Fetchers(r) # {} <=> Fetched(r)
  BY EventFacts DEF QueuedAnswers, Fetchers, Brought, Fetched, Queued

\* APhase with them.
PhaseMap ==
    \A r \in Requests : APhase(r) =
        IF cachingMap[r] # Absent THEN "cached"
        ELSE IF waiters[r] = Absent THEN "absent"
        ELSE IF HandledAnswer(r) /\ eventPc = "satisfy" THEN "answering"
        ELSE IF HandledAnswer(r) \/ Brought(r) THEN "delivered"
        ELSE IF Fetched(r) THEN "fetching"
        ELSE "abandoned"

LEMMA InvPhaseMap == Inv => PhaseMap
  BY PhaseFacts DEF APhase, PhaseMap

LEMMA NextPhaseMap == Inv' => PhaseMap'
  BY InvPhaseMap, PTL

\* The phase of r is the same after a step that leaves what it depends on.
LEMMA SamePhase ==
    ASSUME Inv, Inv', NEW r \in Requests,
           cachingMap'[r] = Absent <=> cachingMap[r] = Absent,
           waiters'[r] = Absent <=> waiters[r] = Absent,
           HandledAnswer(r)' <=> HandledAnswer(r),
           HandledAnswer(r) => eventPc' = eventPc,
           Brought(r)' <=> Brought(r),
           Fetched(r)' <=> Fetched(r)
    PROVE  APhase(r)' = APhase(r)
  BY InvPhaseMap, NextPhaseMap DEF PhaseMap

\* A client changes when its thread does.
LEMMA SameClient ==
    ASSUME NEW s \in Servers,
           promise'[s] = promise[s], pc'[s] = pc[s], request'[s] = request[s]
    PROVE  /\ AClient(s)' = AClient(s) /\ AWants(s)' = AWants(s)
           /\ \A r \in Requests : Fetching(s, r)' <=> Fetching(s, r)
  BY DEF AClient, AWants, Fetching

\* The others do not change with thread s.
LEMMA OtherClients ==
    ASSUME Inv, NEW s \in Servers,
           promise' = [promise EXCEPT ![s] = promise'[s]],
           pc' = [pc EXCEPT ![s] = pc'[s]],
           request' = [request EXCEPT ![s] = request'[s]]
    PROVE  \A t \in Servers : t # s =>
                /\ AClient(t)' = AClient(t) /\ AWants(t)' = AWants(t)
                /\ \A r \in Requests : Fetching(t, r)' <=> Fetching(t, r)
<1>1. \A t \in Servers : t # s =>
        promise'[t] = promise[t] /\ pc'[t] = pc[t] /\ request'[t] = request[t]
  BY DEF Inv, TypeOK, CacherTypeOK
<1> QED
  BY <1>1, SameClient

-----------------------------------------------------------------------------
(* The steps of the abstract cache, by what they change.                   *)

\* Nothing of the abstract cache changes.
LEMMA AbstractStutter ==
    ASSUME \A r \in Requests : APhase(r)' = APhase(r),
           \A t \in Servers : AClient(t)' = AClient(t) /\ AWants(t)' = AWants(t)
    PROVE  UNCHANGED Abstract!vars
  BY DEF Abstract!vars

\* A client moves.
LEMMA AbstractMove ==
    ASSUME NEW s \in Servers, NEW from, NEW to,
           AClient(s) = from, AClient(s)' = to,
           \A t \in Servers : t # s => AClient(t)' = AClient(t)
    PROVE  Abstract!Move(s, from, to)
  BY DEF Abstract!Move

\* A request turns to another phase.
LEMMA AbstractTurn ==
    ASSUME NEW r \in Requests, NEW from, NEW to,
           APhase(r) = from, APhase(r)' = to,
           \A q \in Requests : q # r => APhase(q)' = APhase(q)
    PROVE  Abstract!Turn(r, from, to)
  BY DEF Abstract!Turn

-----------------------------------------------------------------------------
(* The steps of a thread.                                                  *)

\* A thread that does not touch the cache, nor begins or ends a fetch.
LEMMA ThreadStutter ==
    ASSUME Inv, Inv', NEW s \in Servers,
           UNCHANGED <<eventQueue, eventVars, cachingMap>>,
           promise' = [promise EXCEPT ![s] = promise'[s]],
           pc' = [pc EXCEPT ![s] = pc'[s]],
           request' = [request EXCEPT ![s] = request'[s]],
           \A r \in Requests : Fetching(s, r)' <=> Fetching(s, r)
    PROVE  /\ \A r \in Requests : APhase(r)' = APhase(r)
           /\ \A t \in Servers : t # s =>
                AClient(t)' = AClient(t) /\ AWants(t)' = AWants(t)
<1>1. ASSUME NEW t \in Servers, t # s
      PROVE  /\ AClient(t)' = AClient(t) /\ AWants(t)' = AWants(t)
             /\ \A r \in Requests : Fetching(t, r)' <=> Fetching(t, r)
  <2>1. promise'[t] = promise[t] /\ pc'[t] = pc[t] /\ request'[t] = request[t]
    BY <1>1 DEF Inv, TypeOK, CacherTypeOK
  <2> QED
    BY <2>1, SameClient
<1>2. ASSUME NEW r \in Requests PROVE APhase(r)' = APhase(r)
  <2>1. Fetched(r)' <=> Fetched(r)
    BY <1>1 DEF Fetched
  <2>2. /\ HandledAnswer(r)' <=> HandledAnswer(r)
        /\ Brought(r)' <=> Brought(r)
        /\ eventPc' = eventPc
    BY DEF HandledAnswer, Brought, Queued, eventVars
  <2> QED
    BY <2>1, <2>2, SamePhase DEF eventVars
<1> QED
  BY <1>1, <1>2

\* What Inv says of a single thread.
LEMMA ClientIs ==
    ASSUME Inv, NEW s \in Servers
    PROVE  /\ promise[s] # "none" => pc[s] = "waiting"
           /\ promise[s] \in {"none", "pending", "hit", "miss"}
           /\ pc[s] \notin {"idle", "read"} => request[s] \in Requests
           /\ pc[s] \in {"getCache", "waiting", "sendCached", "cache"}
                => request[s] \in GetRequests
           /\ pc[s] \in ServerState
  BY DEF Inv, Control, TypeOK, CacherTypeOK


\* Serve goes on, without the cache, and the fetch with it.
LEMMA GoesOn ==
    ASSUME Inv, Inv', NEW s \in Servers, UNCHANGED cacherVars,
           pc[s] \notin {"waiting", "sendCached"},
           pc'[s] \notin {"waiting", "sendCached"},
           pc' = [pc EXCEPT ![s] = pc'[s]],
           request' = [request EXCEPT ![s] = request'[s]],
           \A r \in Requests : Fetching(s, r)' <=> Fetching(s, r)
    PROVE  UNCHANGED Abstract!vars
<1>1. /\ promise[s] = "none" /\ promise'[s] = "none"
      /\ UNCHANGED <<eventQueue, eventVars, cachingMap>>
      /\ promise' = [promise EXCEPT ![s] = promise'[s]]
  BY ClientIs DEF cacherVars, eventVars, Inv, TypeOK, CacherTypeOK
<1>2. AClient(s)' = AClient(s)
  BY <1>1 DEF AClient
<1>3. AWants(s)' = AWants(s)
  BY <1>1, <1>2 DEF AWants, AClient, Fetching
<1> QED
  BY <1>1, <1>2, <1>3, ThreadStutter, AbstractStutter

\* Serve returns in the middle of a fetch of r.
LEMMA GivesUp ==
    ASSUME Inv, Inv', NEW s \in Servers, UNCHANGED cacherVars,
           pc[s] \in {"host", "send", "sendBadFD", "receive", "reply"},
           Return(s, pc[s])
    PROVE  [Abstract!Next]_Abstract!vars
<1>1. /\ pc' = [pc EXCEPT ![s] = "idle"]
      /\ request' = [request EXCEPT ![s] = Null]
      /\ request[s] \in Requests
      /\ pc'[s] = "idle" /\ request'[s] = Null
      /\ promise[s] = "none" /\ promise'[s] = "none"
  BY ClientIs DEF Return, Goto, cacherVars, Inv, TypeOK, CacherTypeOK
<1>2. \A r \in Requests : ~Fetching(s, r)'
  BY <1>1 DEF Fetching
<1>3. CASE request[s] \notin GetRequests
  <2>1. \A r \in Requests : ~Fetching(s, r)
    BY <1>1, <1>3 DEF Fetching
  <2> QED
    BY <1>1, <1>2, <2>1, GoesOn
<1>4. CASE request[s] \in GetRequests
  <2>0. PICK r \in Requests : r = request[s]
    BY <1>1
  <2>1. Fetching(s, r)
    BY <1>1, <1>4, <2>0 DEF Fetching
  <2>2. \A t \in Servers : t # s =>
          /\ AClient(t)' = AClient(t) /\ AWants(t)' = AWants(t)
          /\ \A q \in Requests : Fetching(t, q)' <=> Fetching(t, q)
    BY <1>1, OtherClients DEF Inv, TypeOK, CacherTypeOK, cacherVars
  <2>3. /\ AClient(s) = "fetching" /\ AClient(s)' = "out"
        /\ AWants(s) = r /\ AWants(s)' = Null
    BY <1>1, <2>0, <1>2, <2>1 DEF AClient, AWants
  <2>4. /\ \A q \in Requests : HandledAnswer(q)' <=> HandledAnswer(q)
        /\ \A q \in Requests : Brought(q)' <=> Brought(q)
        /\ UNCHANGED <<eventPc, waiters, cachingMap>>
    BY DEF HandledAnswer, Brought, Queued, cacherVars
  <2>5. /\ waiters[r] # Absent /\ cachingMap[r] = Absent
        /\ ~HandledAnswer(r) /\ ~Brought(r)
        /\ Fetched(r) /\ ~Fetched(r)'
    BY <1>1, <1>2, <2>1, <2>2 DEF Inv, Flights, Brought, Fetched
  <2>6. APhase(r) = "fetching" /\ APhase(r)' = "abandoned"
    BY <1>1, <2>4, <2>5, InvPhaseMap, NextPhaseMap DEF PhaseMap
  <2>7. ASSUME NEW q \in Requests, q # r PROVE APhase(q)' = APhase(q)
    <3>1. Fetched(q)' <=> Fetched(q)
      BY <1>1, <1>2, <2>0, <2>2, <2>7 DEF Fetched, Fetching
    <3> QED
      BY <2>4, <3>1, SamePhase
  <2>8. Abstract!Abandon(s)
    BY <1>1, <2>2, <2>3, <2>6, <2>7, AbstractMove, AbstractTurn
       DEF Abstract!Abandon
  <2> QED
    BY <2>8 DEF Abstract!Next
<1> QED
  BY <1>3, <1>4


\* The actions of serve, as they look from outside, apart from those that
\* talk to the cache.
LEMMA LocalMapped ==
    ASSUME Inv, Inv', NEW s \in Servers,
           \/ Accept(s)
           \/ \E r \in Requests : ReadClientRequest(s, r)
           \/ FindHost(s) \/ NoHost(s) \/ Connect(s)
           \/ SendRequest(s) \/ ReceiveResponse(s) \/ Reply(s)
           \/ Fail(s)
    PROVE  [Abstract!Next]_Abstract!vars
<1> USE DEF Goto, Return, Fetching
<1>0. /\ pc \in [Servers -> ServerState]
      /\ request \in [Servers -> Requests \cup {Null}]
      /\ promise[s] # "none" => pc[s] = "waiting"
      /\ UNCHANGED cacherVars => promise'[s] = promise[s]
  BY DEF Inv, TypeOK, CacherTypeOK, Control, cacherVars
<1>1. CASE Accept(s)
  BY <1>0, <1>1, GoesOn DEF Accept
<1>2. ASSUME NEW r \in Requests, ReadClientRequest(s, r)
      PROVE  UNCHANGED Abstract!vars
  BY <1>0, <1>2, GoesOn DEF ReadClientRequest
<1>3. CASE FindHost(s)
  BY <1>0, <1>3, GoesOn DEF FindHost
<1>4. CASE NoHost(s)
  BY <1>4, GivesUp DEF NoHost
<1>5. CASE Connect(s)
  BY <1>0, <1>5, GoesOn DEF Connect
<1>6. CASE SendRequest(s)
  BY <1>0, <1>6, GoesOn DEF SendRequest
<1>7. CASE ReceiveResponse(s)
  BY <1>0, <1>7, GoesOn DEF ReceiveResponse
<1>8. CASE Reply(s)
  <2>1. CASE request[s] \in GetRequests
    BY <1>0, <1>8, <2>1, GoesOn DEF Reply
  <2>2. CASE request[s] \notin GetRequests
    BY <1>0, <1>8, <2>2, GivesUp DEF Reply
  <2> QED
    BY <2>1, <2>2
<1>9. CASE ReadFails(s)
  BY <1>0, <1>9, GoesOn DEF ReadFails
<1>10. CASE ConnectFails(s)
  BY <1>0, <1>10, GoesOn DEF ConnectFails
<1>11. CASE SendFails(s) \/ ReceiveFails(s) \/ ReplyFails(s)
  BY <1>11, GivesUp DEF SendFails, ReceiveFails, ReplyFails
<1> QED
  BY <1>1, <1>2, <1>3, <1>4, <1>5, <1>6, <1>7, <1>8, <1>9, <1>10, <1>11
     DEF Fail

\* getCache asks ...
LEMMA GetCacheMapped ==
    ASSUME Inv, Inv', NEW s \in Servers, GetCache(s)
    PROVE  [Abstract!Next]_Abstract!vars
<1>1. /\ pc[s] = "getCache" /\ pc' = [pc EXCEPT ![s] = "waiting"]
      /\ promise[s] = "none" /\ promise' = [promise EXCEPT ![s] = "pending"]
      /\ pc'[s] = "waiting" /\ promise'[s] = "pending"
      /\ eventQueue' = Append(eventQueue, RequestEvent(request[s], s))
      /\ UNCHANGED <<request, eventVars, cachingMap>>
      /\ request[s] \in Requests
      /\ RequestEvent(request[s], s) \in CacheEvent
  BY ClientIs
     DEF GetCache, Goto, AskCache, Push, Inv, TypeOK, CacherTypeOK,
         RequestEvent, CacheEvent
<1>2. \A r \in Requests : Brought(r)' <=> Brought(r)
  <2>1. /\ Len(eventQueue) \in Nat
        /\ Len(eventQueue') = Len(eventQueue) + 1
        /\ \A i \in 1..Len(eventQueue) : eventQueue'[i] = eventQueue[i]
        /\ eventQueue'[Len(eventQueue) + 1] = RequestEvent(request[s], s)
    BY <1>1, AppendFacts DEF Inv, TypeOK, CacherTypeOK
  <2>2. \A i \in Nat, r \in Requests : Queued(i, r)' <=> Queued(i, r)
    BY <2>1 DEF Queued, RequestEvent, AnswerEvent
  <2> QED
    BY <2>2 DEF Brought
<1>3. \A r \in Requests : ~Fetching(s, r) /\ ~Fetching(s, r)'
  BY <1>1 DEF Fetching
<1>4. \A t \in Servers : t # s =>
        /\ AClient(t)' = AClient(t) /\ AWants(t)' = AWants(t)
        /\ \A r \in Requests : Fetching(t, r)' <=> Fetching(t, r)
  BY <1>1, OtherClients DEF Inv, TypeOK, CacherTypeOK, cacherVars
<1>5. ASSUME NEW r \in Requests PROVE APhase(r)' = APhase(r)
  <2>1. /\ Fetched(r)' <=> Fetched(r)
        /\ HandledAnswer(r)' <=> HandledAnswer(r)
        /\ eventPc' = eventPc
    BY <1>1, <1>3, <1>4 DEF Fetched, HandledAnswer, eventVars
  <2> QED
    BY <1>1, <1>2, <2>1, SamePhase DEF eventVars
<1>6. /\ AClient(s) = "out" /\ AClient(s)' = "asking"
      /\ AWants(s) = Null /\ AWants(s)' = request[s]
  BY <1>1, <1>3 DEF AClient, AWants
<1>7. Abstract!Ask(s, request[s])
  BY <1>4, <1>5, <1>6, AbstractMove DEF Abstract!Ask
<1> QED
  BY <1>1, <1>7 DEF Abstract!Next

\* ... is answered ...
LEMMA CacheAnswersMapped ==
    ASSUME Inv, Inv', NEW s \in Servers, CacheAnswers(s)
    PROVE  UNCHANGED Abstract!vars
<1>1. /\ pc[s] = "waiting"
      /\ pc'[s] = IF promise[s] = "hit" THEN "sendCached" ELSE "host"
      /\ pc' = [pc EXCEPT ![s] = pc'[s]]
      /\ promise[s] \in {"miss", "hit"}
      /\ promise'[s] = "none"
      /\ promise' = [promise EXCEPT ![s] = promise'[s]]
      /\ request' = [request EXCEPT ![s] = request'[s]]
      /\ request'[s] = request[s]
      /\ request[s] \in GetRequests /\ request[s] \in Requests
      /\ UNCHANGED <<eventQueue, eventVars, cachingMap>>
  BY ClientIs
     DEF CacheAnswers, Goto, LeaveGetCache, Answered, Inv, TypeOK, CacherTypeOK
<1>2. \A r \in Requests : Fetching(s, r)' <=> Fetching(s, r)
  BY <1>1 DEF Fetching
<1>3. AClient(s)' = AClient(s) /\ AWants(s)' = AWants(s)
  BY <1>1, <1>2 DEF AClient, AWants
<1> QED
  BY <1>1, <1>2, <1>3, ThreadStutter, AbstractStutter

\* ... and a client that was served goes.
LEMMA SendCachedMapped ==
    ASSUME Inv, Inv', NEW s \in Servers, SendCached(s)
    PROVE  [Abstract!Next]_Abstract!vars
<1>1. /\ pc[s] = "sendCached" /\ pc'[s] = "idle"
      /\ pc' = [pc EXCEPT ![s] = pc'[s]]
      /\ request'[s] = Null
      /\ request' = [request EXCEPT ![s] = request'[s]]
      /\ promise[s] = "none" /\ promise'[s] = "none"
      /\ promise' = [promise EXCEPT ![s] = promise'[s]]
      /\ UNCHANGED <<eventQueue, eventVars, cachingMap>>
  BY ClientIs
     DEF SendCached, Return, Goto, cacherVars, eventVars, Inv, TypeOK,
         CacherTypeOK
<1>2. \A r \in Requests : ~Fetching(s, r) /\ ~Fetching(s, r)'
  BY <1>1 DEF Fetching
<1>3. /\ AClient(s) = "served" /\ AClient(s)' = "out" /\ AWants(s)' = Null
  BY <1>1, <1>2 DEF AClient, AWants
<1>4. /\ \A r \in Requests : APhase(r)' = APhase(r)
      /\ \A t \in Servers : t # s =>
            AClient(t)' = AClient(t) /\ AWants(t)' = AWants(t)
  BY <1>1, <1>2, ThreadStutter
<1>5. Abstract!Leave(s)
  BY <1>3, <1>4, AbstractMove DEF Abstract!Leave
<1> QED
  BY <1>5 DEF Abstract!Next


\* HttpCacher::cache: the one that fetches hands its answer over.
LEMMA CacheResponseMapped ==
    ASSUME Inv, Inv', NEW s \in Servers, CacheResponse(s)
    PROVE  [Abstract!Next]_Abstract!vars
<1>0. PICK r \in Requests : r = request[s]
  BY ClientIs DEF CacheResponse, Return, Goto
<1>1. /\ pc[s] = "cache" /\ pc' = [pc EXCEPT ![s] = "idle"]
      /\ request' = [request EXCEPT ![s] = Null]
      /\ eventQueue' = Append(eventQueue, AnswerEvent(r))
      /\ pc'[s] = "idle" /\ request'[s] = Null
      /\ promise[s] = "none" /\ promise'[s] = "none"
      /\ request[s] = r /\ r \in GetRequests
      /\ UNCHANGED <<promise, eventVars, cachingMap>>
      /\ AnswerEvent(r) \in CacheEvent
  BY <1>0, ClientIs
     DEF CacheResponse, Return, Goto, GiveAnswer, Push, Inv, TypeOK,
         AnswerEvent, CacheEvent
<1>2. \A q \in Requests : Brought(q)' <=> Brought(q) \/ q = r
  <2>1. /\ Len(eventQueue) \in Nat
        /\ Len(eventQueue') = Len(eventQueue) + 1
        /\ \A i \in 1..Len(eventQueue) : eventQueue'[i] = eventQueue[i]
        /\ eventQueue'[Len(eventQueue) + 1] = AnswerEvent(r)
    BY <1>1, AppendFacts DEF Inv, TypeOK, CacherTypeOK
  <2>2. \A i \in Nat, q \in Requests :
            Queued(i, q)' <=> Queued(i, q) \/ (i = Len(eventQueue) + 1 /\ q = r)
    BY <2>1 DEF Queued, AnswerEvent
  <2>3. Len(eventQueue) + 1 \in Nat
    BY <2>1
  <2> QED
    BY <2>2, <2>3 DEF Brought
<1>3. Fetching(s, r) /\ \A q \in Requests : ~Fetching(s, q)'
  BY <1>1 DEF Fetching
<1>4. \A t \in Servers : t # s =>
        /\ AClient(t)' = AClient(t) /\ AWants(t)' = AWants(t)
        /\ \A q \in Requests : Fetching(t, q)' <=> Fetching(t, q)
  BY <1>1, OtherClients DEF Inv, TypeOK, CacherTypeOK, cacherVars
<1>5. /\ AClient(s) = "fetching" /\ AClient(s)' = "out"
      /\ AWants(s) = r /\ AWants(s)' = Null
  BY <1>1, <1>3 DEF AClient, AWants
<1>6. /\ \A q \in Requests : HandledAnswer(q)' <=> HandledAnswer(q)
      /\ UNCHANGED <<eventPc, waiters, cachingMap>>
  BY <1>1 DEF HandledAnswer, eventVars
<1>7. /\ waiters[r] # Absent /\ cachingMap[r] = Absent
      /\ ~HandledAnswer(r) /\ ~Brought(r)
  BY <1>3 DEF Inv, Flights, Brought
<1>8. APhase(r) = "fetching" /\ APhase(r)' = "delivered"
  BY <1>2, <1>3, <1>6, <1>7, InvPhaseMap, NextPhaseMap DEF PhaseMap, Fetched
<1>9. ASSUME NEW q \in Requests, q # r PROVE APhase(q)' = APhase(q)
  <2>1. Fetched(q)' <=> Fetched(q)
    BY <1>1, <1>3, <1>4, <1>9 DEF Fetched, Fetching
  <2> QED
    BY <1>2, <1>6, <1>9, <2>1, SamePhase
<1>10. Abstract!Deliver(s)
  BY <1>4, <1>5, <1>8, <1>9, AbstractMove, AbstractTurn DEF Abstract!Deliver
<1> QED
  BY <1>10 DEF Abstract!Next

-----------------------------------------------------------------------------
(* The steps of the event thread.                                          *)

\* A step that gives nobody's promise a value moves no client.
LEMMA SameClients ==
    ASSUME UNCHANGED <<promise, pc, request>>
    PROVE  /\ \A t \in Servers :
                AClient(t)' = AClient(t) /\ AWants(t)' = AWants(t)
           /\ \A r \in Requests : Fetched(r)' <=> Fetched(r)
  BY SameClient DEF Fetched

\* An answer that is popped is still under way.
LEMMA PopMapped ==
    ASSUME Inv, Inv', Pop, UNCHANGED serverVars
    PROVE  UNCHANGED Abstract!vars
<1>1. /\ eventPc = "pop" /\ eventPc' = "handle"
      /\ event = NoEvent
      /\ Len(eventQueue) \in Nat \ {0}
      /\ Len(eventQueue') = Len(eventQueue) - 1
      /\ \A i \in 1..Len(eventQueue') : eventQueue'[i] = eventQueue[i + 1]
      /\ event' = eventQueue[1]
      /\ UNCHANGED <<pc, request, waiters, cachingMap, promise>>
  BY TailFacts DEF Pop, serverVars, Inv, EventState, TypeOK, CacherTypeOK
<1>2. ASSUME NEW r \in Requests
      PROVE  (Brought(r)' \/ HandledAnswer(r)') <=> Brought(r)
  <2>1. \A i \in Nat : Queued(i, r)' => i + 1 \in Nat /\ Queued(i + 1, r)
    BY <1>1 DEF Queued
  <2>2. HandledAnswer(r)' <=> Queued(1, r)
    BY <1>1 DEF HandledAnswer, Queued
  <2>3. \A i \in Nat :
            Queued(i, r) /\ i # 1 => i - 1 \in Nat /\ Queued(i - 1, r)'
    BY <1>1 DEF Queued
  <2> QED
    BY <2>1, <2>2, <2>3 DEF Brought
<1>3. \A r \in Requests : ~HandledAnswer(r)
  BY <1>1 DEF HandledAnswer, NoEvent, AnswerEvent
<1>4. ASSUME NEW r \in Requests PROVE APhase(r)' = APhase(r)
  BY <1>1, <1>2, <1>3, SameClients, InvPhaseMap, NextPhaseMap DEF PhaseMap
<1> QED
  BY <1>1, <1>4, SameClients, AbstractStutter

\* Handling a REQUEST ends with nothing under way in the event thread.
LEMMA RequestDone ==
    ASSUME Inv, Handling("REQUEST"), EventDone, UNCHANGED eventQueue
    PROVE  \A r \in Requests :
                /\ HandledAnswer(r)' <=> HandledAnswer(r)
                /\ ~HandledAnswer(r)
                /\ Brought(r)' <=> Brought(r)
  BY RequestFacts
     DEF EventDone, HandledAnswer, NoEvent, AnswerEvent, Brought, Queued

\* REQUEST, cached: the client is served.
LEMMA HandleHitMapped ==
    ASSUME Inv, Inv', HandleHit, UNCHANGED serverVars
    PROVE  [Abstract!Next]_Abstract!vars
<1>0. PICK s \in Servers, r \in Requests :
        event.promise = s /\ event.request = r
  BY RequestFacts DEF HandleHit
<1>1. /\ Handling("REQUEST") /\ EventDone
      /\ Asks(s, r)
      /\ promise' = [promise EXCEPT ![s] = "hit"] /\ promise'[s] = "hit"
      /\ cachingMap[r] # Absent
      /\ UNCHANGED <<pc, request, eventQueue, waiters, cachingMap>>
  BY <1>0, RequestFacts
     DEF HandleHit, Satisfy, serverVars, Inv, TypeOK, CacherTypeOK
<1>2. \A t \in Servers : t # s =>
        /\ AClient(t)' = AClient(t) /\ AWants(t)' = AWants(t)
        /\ \A q \in Requests : Fetching(t, q)' <=> Fetching(t, q)
  BY <1>1, OtherClients DEF Inv, TypeOK, CacherTypeOK, cacherVars
<1>3. \A q \in Requests : ~Fetching(s, q) /\ ~Fetching(s, q)'
  BY <1>1 DEF Fetching, Asks
<1>4. ASSUME NEW q \in Requests PROVE APhase(q)' = APhase(q)
  <2>1. Fetched(q)' <=> Fetched(q)
    BY <1>2, <1>3 DEF Fetched
  <2> QED
    BY <1>1, <2>1, RequestDone, SamePhase
<1>5. /\ AClient(s) = "asking" /\ AClient(s)' = "served"
      /\ AWants(s) = r /\ AWants(s)' = AWants(s)
  BY <1>1 DEF AClient, AWants, Asks
<1>6. APhase(r) = "cached"
  BY <1>1, InvPhaseMap DEF PhaseMap
<1>7. Abstract!Serve(s)
  BY <1>2, <1>4, <1>5, <1>6, AbstractMove DEF Abstract!Serve
<1> QED
  BY <1>7 DEF Abstract!Next


\* REQUEST, neither cached nor being fetched: the client has to fetch it.
LEMMA HandleLeadMapped ==
    ASSUME Inv, Inv', HandleLead, UNCHANGED serverVars
    PROVE  [Abstract!Next]_Abstract!vars
<1>0. PICK s \in Servers, r \in Requests :
        event.promise = s /\ event.request = r
  BY RequestFacts DEF HandleLead
<1>1. /\ Handling("REQUEST") /\ EventDone
      /\ Asks(s, r)
      /\ promise' = [promise EXCEPT ![s] = "miss"] /\ promise'[s] = "miss"
      /\ cachingMap[r] = Absent /\ waiters[r] = Absent
      /\ waiters'[r] # Absent
      /\ \A q \in Requests : q # r => waiters'[q] = waiters[q]
      /\ UNCHANGED <<pc, request, eventQueue, cachingMap>>
  BY <1>0, RequestFacts, CacherAssumption
     DEF HandleLead, Satisfy, serverVars, Inv, TypeOK, CacherTypeOK
<1>2. \A t \in Servers : t # s =>
        /\ AClient(t)' = AClient(t) /\ AWants(t)' = AWants(t)
        /\ \A q \in Requests : Fetching(t, q)' <=> Fetching(t, q)
  BY <1>1, OtherClients DEF Inv, TypeOK, CacherTypeOK
<1>3. /\ \A q \in Requests : ~Fetching(s, q)
      /\ \A q \in Requests : Fetching(s, q)' <=> q = r
  BY <1>1 DEF Fetching, Asks
<1>4. \A q \in Requests : q # r => APhase(q)' = APhase(q)
  <2>1. \A q \in Requests : q # r => (Fetched(q)' <=> Fetched(q))
    BY <1>2, <1>3 DEF Fetched
  <2> QED
    BY <1>1, <2>1, RequestDone, SamePhase
<1>5. /\ AClient(s) = "asking" /\ AClient(s)' = "fetching"
      /\ AWants(s) = r /\ AWants(s)' = AWants(s)
  BY <1>1, <1>3 DEF AClient, AWants, Asks
<1>6. APhase(r) = "absent" /\ APhase(r)' = "fetching"
  <2>1. Fetched(r)' /\ ~Brought(r)
    BY <1>1, <1>3 DEF Fetched, Brought, Inv, Flights
  <2> QED
    BY <1>1, <2>1, RequestDone, InvPhaseMap, NextPhaseMap DEF PhaseMap
<1>7. Abstract!Lead(s)
  BY <1>2, <1>4, <1>5, <1>6, AbstractMove, AbstractTurn DEF Abstract!Lead
<1> QED
  BY <1>7 DEF Abstract!Next

\* REQUEST, being fetched: parking is not to be seen.
LEMMA HandleWaitMapped ==
    ASSUME Inv, Inv', HandleWait, UNCHANGED serverVars
    PROVE  UNCHANGED Abstract!vars
<1>1. /\ Handling("REQUEST") /\ EventDone
      /\ event.request \in Requests /\ event.promise \in Servers
      /\ waiters[event.request] # Absent
      /\ waiters' = [waiters EXCEPT ![event.request] =
                        Append(waiters[event.request], event.promise)]
      /\ UNCHANGED <<pc, request, eventQueue, cachingMap, promise>>
  BY RequestFacts DEF HandleWait, serverVars
<1>2. \A r \in Requests : waiters'[r] = Absent <=> waiters[r] = Absent
  <2>1. waiters[event.request] \in Seq(Servers)
    BY <1>1 DEF Inv, TypeOK, CacherTypeOK
  <2>2. Append(waiters[event.request], event.promise) \in Seq(Servers)
    BY <1>1, <2>1, AppendFacts
  <2> QED
    BY <1>1, <2>2, CacherAssumption DEF Inv, TypeOK, CacherTypeOK
<1>3. \A r \in Requests : APhase(r)' = APhase(r)
  BY <1>1, <1>2, RequestDone, SameClients, SamePhase
<1> QED
  BY <1>1, <1>3, SameClients, AbstractStutter

\* ANSWER: the waiters are about to be served ...
LEMMA HandleAnswerMapped ==
    ASSUME Inv, Inv', HandleAnswer, UNCHANGED serverVars
    PROVE  [Abstract!Next]_Abstract!vars
<1>0. PICK r \in Requests : event.request = r
  BY AnswerFacts DEF HandleAnswer, Handling
<1>1. /\ event.type = "ANSWER" /\ HandledAnswer(r)
      /\ eventPc = "handle" /\ eventPc' = "satisfy"
      /\ waiters[r] # Absent /\ cachingMap[r] = Absent
      /\ UNCHANGED <<pc, request, eventQueue, event, waiters, cachingMap,
                     promise>>
  BY <1>0, AnswerFacts DEF HandleAnswer, Handling, serverVars
<1>2. /\ \A q \in Requests : HandledAnswer(q)' <=> HandledAnswer(q)
      /\ \A q \in Requests : Brought(q)' <=> Brought(q)
      /\ \A q \in Requests : HandledAnswer(q) => q = r
  BY <1>0, <1>1 DEF HandledAnswer, Brought, Queued, AnswerEvent
<1>3. \A q \in Requests : q # r => APhase(q)' = APhase(q)
  BY <1>1, <1>2, SameClients, SamePhase
<1>4. APhase(r) = "delivered" /\ APhase(r)' = "answering"
  BY <1>1, <1>2, InvPhaseMap, NextPhaseMap DEF PhaseMap
<1>5. Abstract!Open(r)
  BY <1>1, <1>3, <1>4, SameClients, AbstractTurn DEF Abstract!Open
<1> QED
  BY <1>5 DEF Abstract!Next

\* ... one of them is ...
LEMMA SatisfyWaiterMapped ==
    ASSUME Inv, Inv', SatisfyWaiter, UNCHANGED serverVars
    PROVE  [Abstract!Next]_Abstract!vars
<1>0. PICK s \in Servers : s = waitersQueue[1] /\ 1 \in 1..Len(waitersQueue)
  BY TailFacts DEF SatisfyWaiter, Inv, TypeOK, CacherTypeOK
<1>1. /\ eventPc = "satisfy" /\ event.type = "ANSWER"
      /\ waitersQueue # <<>>
      /\ promise' = [promise EXCEPT ![s] = "hit"] /\ promise'[s] = "hit"
      /\ UNCHANGED <<pc, request, eventQueue, eventPc, event, waiters,
                     cachingMap>>
  BY <1>0, TailFacts
     DEF SatisfyWaiter, Satisfy, serverVars, Inv, EventState, TypeOK,
         CacherTypeOK
<1>2. PICK r \in Requests :
        /\ event.request = r /\ Asks(s, r)
        /\ HandledAnswer(r)
        /\ waiters[r] # Absent /\ cachingMap[r] = Absent
  BY <1>0, <1>1, AnswerFacts DEF Inv, CopyRefs
<1>3. \A t \in Servers : t # s =>
        /\ AClient(t)' = AClient(t) /\ AWants(t)' = AWants(t)
        /\ \A q \in Requests : Fetching(t, q)' <=> Fetching(t, q)
  BY <1>1, OtherClients DEF Inv, TypeOK, CacherTypeOK
<1>4. \A q \in Requests : ~Fetching(s, q) /\ ~Fetching(s, q)'
  BY <1>1, <1>2 DEF Fetching, Asks
<1>5. \A q \in Requests : APhase(q)' = APhase(q)
  <2>1. \A q \in Requests :
            /\ Fetched(q)' <=> Fetched(q)
            /\ HandledAnswer(q)' <=> HandledAnswer(q)
            /\ Brought(q)' <=> Brought(q)
    BY <1>1, <1>3, <1>4 DEF Fetched, HandledAnswer, Brought, Queued
  <2> QED
    BY <1>1, <2>1, SamePhase
<1>6. /\ AClient(s) = "asking" /\ AClient(s)' = "served"
      /\ AWants(s) = r /\ AWants(s)' = AWants(s)
  BY <1>1, <1>2 DEF AClient, AWants, Asks
<1>7. APhase(r) = "answering"
  BY <1>1, <1>2, InvPhaseMap DEF PhaseMap
<1>8. Abstract!Serve(s)
  BY <1>3, <1>5, <1>6, <1>7, AbstractMove DEF Abstract!Serve
<1> QED
  BY <1>8 DEF Abstract!Next

\* ... and when all are, the answer is stored.
LEMMA InsertAnswerMapped ==
    ASSUME Inv, Inv', InsertAnswer, UNCHANGED serverVars
    PROVE  [Abstract!Next]_Abstract!vars
<1>0. event.type = "ANSWER"
  BY DEF InsertAnswer, Inv, EventState
<1>a. PICK r \in Requests : event.request = r
  BY <1>0, AnswerFacts
<1>1. /\ eventPc = "satisfy" /\ event' = NoEvent /\ HandledAnswer(r)
      /\ waiters[r] # Absent /\ cachingMap[r] = Absent
      /\ cachingMap'[r] # Absent
      /\ \A q \in Requests : q # r =>
            waiters'[q] = waiters[q] /\ cachingMap'[q] = cachingMap[q]
      /\ UNCHANGED <<pc, request, eventQueue, promise>>
  BY <1>0, <1>a, AnswerFacts, CacherAssumption
     DEF InsertAnswer, EventDone, serverVars, Inv, TypeOK, CacherTypeOK
<1>2. /\ \A q \in Requests : ~HandledAnswer(q)'
      /\ \A q \in Requests : Brought(q)' <=> Brought(q)
      /\ \A q \in Requests : HandledAnswer(q) => q = r
  BY <1>a, <1>1 DEF HandledAnswer, Brought, Queued, AnswerEvent, NoEvent
<1>3. \A q \in Requests : q # r => APhase(q)' = APhase(q)
  BY <1>1, <1>2, SameClients, SamePhase
<1>4. APhase(r) = "answering" /\ APhase(r)' = "cached"
  BY <1>1, InvPhaseMap, NextPhaseMap DEF PhaseMap
<1>5. Abstract!Store(r)
  BY <1>1, <1>3, <1>4, SameClients, AbstractTurn DEF Abstract!Store
<1> QED
  BY <1>5 DEF Abstract!Next

-----------------------------------------------------------------------------
\* The cleaner evicts what has expired; the clock is not to be seen.
LEMMA CleanerMapped ==
    ASSUME Inv, Inv', CleanerWake \/ Clean \/ Tick, UNCHANGED serverVars
    PROVE  [Abstract!Next]_Abstract!vars
<1>1. /\ UNCHANGED <<pc, request, eventQueue, eventPc, event, waiters, promise>>
      /\ \A r \in Requests : cachingMap[r] = Absent => cachingMap'[r] = Absent
  BY CacherAssumption
     DEF CleanerWake, Clean, Tick, Expired, serverVars, eventVars, Inv, TypeOK,
         CacherTypeOK
<1>2. /\ \A r \in Requests : HandledAnswer(r)' <=> HandledAnswer(r)
      /\ \A r \in Requests : Brought(r)' <=> Brought(r)
  BY <1>1 DEF HandledAnswer, Brought, Queued
<1> DEFINE R ==
        {r \in Requests : cachingMap[r] # Absent /\ cachingMap'[r] = Absent}
<1>3. \A r \in Requests \ R : APhase(r)' = APhase(r)
  BY <1>1, <1>2, SameClients, SamePhase
<1>4. \A r \in R : APhase(r) = "cached" /\ APhase(r)' = "absent"
  BY <1>1, InvPhaseMap, NextPhaseMap DEF PhaseMap, Inv, Flights
<1> HIDE DEF R
<1>5. R \in SUBSET {r \in Requests : APhase(r) = "cached"}
  BY <1>4 DEF R
<1>6. Abstract!Evict
  BY <1>1, <1>3, <1>4, <1>5, SameClients DEF Abstract!Evict
<1> QED
  BY <1>6 DEF Abstract!Next


\* Nothing is asked for, fetched or cached at the start.
LEMMA InitMapped == Init => Abstract!Init
<1> SUFFICES ASSUME Init PROVE Abstract!Init
  OBVIOUS
<1>1. \A s \in Servers : AClient(s) = "out" /\ AWants(s) = Null
  BY DEF Init, CacherInit, AClient, AWants, Fetching
<1>2. \A r \in Requests : APhase(r) = "absent"
  BY DEF Init, CacherInit, APhase
<1> QED
  BY <1>1, <1>2 DEF Abstract!Init

\* Every step is one of the abstract cache or is not to be seen there.
LEMMA NextMapped == Inv /\ [Next]_vars => [Abstract!Next]_Abstract!vars
<1> SUFFICES ASSUME Inv, [Next]_vars PROVE [Abstract!Next]_Abstract!vars
  OBVIOUS
<1>1. Inv'
  BY NextInv
<1>2. ASSUME NEW s \in Servers, Server(s)
      PROVE  [Abstract!Next]_Abstract!vars
  BY <1>1, <1>2, LocalMapped, GetCacheMapped, CacheAnswersMapped,
     SendCachedMapped, CacheResponseMapped DEF Server, Proceed
<1>3. CASE CacherNext /\ UNCHANGED serverVars
  BY <1>1, <1>3, PopMapped, HandleHitMapped, HandleLeadMapped, HandleWaitMapped,
     HandleAnswerMapped, SatisfyWaiterMapped, InsertAnswerMapped, CleanerMapped
     DEF CacherNext, EventThread, Cleaner
<1>4. CASE UNCHANGED vars
  <2>1. \A r \in Requests : APhase(r)' = APhase(r)
    BY <1>4 DEF vars, APhase, HandledAnswer, QueuedAnswers, Fetchers, Fetching
  <2> QED
    BY <1>4, <2>1, SameClients, AbstractStutter DEF vars
<1> QED
  BY <1>2, <1>3, <1>4 DEF Next

\* The connection threads and the cache, whatever fails, implement the abstract
\* cache: one fetch at a time, nobody served but by an answer, no answer once a
\* fetch was abandoned.
THEOREM CacheCoalesces == Spec => ImplementsCoalescing
<1> QED
  BY InitMapped, NextMapped, InitInv, NextInv, PTL
     DEF Spec, ImplementsCoalescing, Abstract!Spec

\* So does the process, with its registry and interrupted or not.
THEOREM ProxyCoalesces == ProxySpec => ImplementsCoalescing
<1> QED
  BY CacheCoalesces, ProxyRunsServers, PTL

-----------------------------------------------------------------------------
(* Nobody is parked for ever, unless somebody gives up.                    *)

\* A request with parked promises, or with none yet, is fetched, or its answer
\* is on its way.
InFlight(r) ==
    waiters[r] # Absent => Fetched(r) \/ Brought(r) \/ HandledAnswer(r)

\* The ways in which serve returns with a fetch begun and no answer given.
GaveUp(s) == NoHost(s) \/ Fail(s)

\* A step of serve that leaves the cache alone goes on with the fetch.
LEMMA ServeKeepsFlight ==
    ASSUME Inv, NEW r \in Requests, InFlight(r), NEW s \in Servers,
           UNCHANGED cacherVars,
           \/ Accept(s)
           \/ \E q \in Requests : ReadClientRequest(s, q)
           \/ SendCached(s) \/ FindHost(s) \/ Connect(s)
           \/ SendRequest(s) \/ ReceiveResponse(s) \/ Reply(s)
    PROVE  InFlight(r)'
<1> USE DEF Goto, Return
<1>1. \A t \in Servers : Fetching(t, r) => Fetching(t, r)'
  <2>1. /\ pc \in [Servers -> ServerState]
        /\ request \in [Servers -> Requests \cup {Null}]
        /\ \A t \in Servers : promise[t] # "none" => pc[t] = "waiting"
        /\ promise' = promise
    BY DEF Inv, TypeOK, Control, cacherVars
  <2>2. CASE Accept(s)
    BY <2>1, <2>2 DEF Accept, Fetching
  <2>3. ASSUME NEW q \in Requests, ReadClientRequest(s, q)
        PROVE  \A t \in Servers : Fetching(t, r) => Fetching(t, r)'
    BY <2>1, <2>3 DEF ReadClientRequest, Fetching
  <2>4. CASE SendCached(s)
    BY <2>1, <2>4 DEF SendCached, Fetching
  <2>5. CASE FindHost(s) \/ Connect(s) \/ SendRequest(s) \/ ReceiveResponse(s)
    BY <2>1, <2>5
       DEF FindHost, Connect, SendRequest, ReceiveResponse, Fetching
  <2>6. CASE Reply(s)
    BY <2>1, <2>6 DEF Reply, Fetching
  <2> QED
    BY <2>2, <2>3, <2>4, <2>5, <2>6
<1>2. Fetched(r) => Fetched(r)'
  BY <1>1 DEF Fetched
<1> QED
  BY <1>2 DEF InFlight, Brought, Queued, HandledAnswer, cacherVars

\* The queue keeps its answers when an event is pushed.
LEMMA PushKeepsBrought ==
    ASSUME Inv, NEW r \in Requests, NEW e \in CacheEvent,
           eventQueue' = Append(eventQueue, e)
    PROVE  /\ Brought(r) => Brought(r)'
           /\ e = AnswerEvent(r) => Brought(r)'
  BY AppendFacts DEF Inv, TypeOK, CacherTypeOK, Brought, Queued

LEMMA CacheCallsKeepFlight ==
    ASSUME Inv, NEW r \in Requests, InFlight(r), NEW s \in Servers,
           GetCache(s) \/ CacheAnswers(s) \/ CacheResponse(s)
    PROVE  InFlight(r)'
<1> USE DEF Goto, Return
<1>0. /\ pc \in [Servers -> ServerState]
      /\ request \in [Servers -> Requests \cup {Null}]
      /\ promise \in [Servers -> {"none", "pending", "miss", "hit"}]
      /\ \A t \in Servers :
            /\ promise[t] # "none" => pc[t] = "waiting"
            /\ pc[t] \in {"getCache", "waiting", "cache"} =>
                  request[t] \in GetRequests /\ request[t] \in Requests
  BY DEF Inv, TypeOK, CacherTypeOK, Control
<1>1. waiters' = waiters /\ event' = event
  BY DEF GetCache, AskCache, CacheAnswers, LeaveGetCache, CacheResponse,
         GiveAnswer, eventVars
<1>2. CASE GetCache(s)
  <2>1. \A t \in Servers : Fetching(t, r) => Fetching(t, r)'
    BY <1>0, <1>2 DEF GetCache, AskCache, Fetching
  <2>2. Brought(r) => Brought(r)'
    <3>1. /\ eventQueue' = Append(eventQueue, RequestEvent(request[s], s))
          /\ RequestEvent(request[s], s) \in CacheEvent
      BY <1>0, <1>2 DEF GetCache, AskCache, Push, RequestEvent, CacheEvent
    <3> QED
      BY <3>1, PushKeepsBrought
  <2> QED
    BY <1>1, <2>1, <2>2 DEF InFlight, Fetched, HandledAnswer
<1>3. CASE CacheAnswers(s)
  <2>1. \A t \in Servers : Fetching(t, r) => Fetching(t, r)'
    BY <1>0, <1>3 DEF CacheAnswers, LeaveGetCache, Answered, Fetching
  <2>2. eventQueue' = eventQueue
    BY <1>3 DEF CacheAnswers, LeaveGetCache
  <2> QED
    BY <1>1, <2>1, <2>2 DEF InFlight, Fetched, HandledAnswer, Brought, Queued
<1>4. CASE CacheResponse(s)
  <2>1. /\ eventQueue' = Append(eventQueue, AnswerEvent(request[s]))
        /\ AnswerEvent(request[s]) \in CacheEvent
    BY <1>0, <1>4
       DEF CacheResponse, GiveAnswer, Push, AnswerEvent, CacheEvent
  <2>2. Brought(r) => Brought(r)'
    BY <2>1, PushKeepsBrought
  <2>3. request[s] = r => Brought(r)'
    BY <2>1, PushKeepsBrought
  <2>4. request[s] # r =>
          \A t \in Servers : Fetching(t, r) => Fetching(t, r)'
    BY <1>0, <1>4 DEF CacheResponse, GiveAnswer, Fetching
  <2> QED
    BY <1>1, <2>2, <2>3, <2>4 DEF InFlight, Fetched, HandledAnswer
<1> QED
  BY <1>2, <1>3, <1>4

\* The event thread takes an answer from the queue, and forgets the waiters
\* only with it.
LEMMA EventThreadKeepsFlight ==
    ASSUME Inv, NEW r \in Requests, InFlight(r), EventThread,
           UNCHANGED serverVars
    PROVE  InFlight(r)'
<1>0. /\ pc' = pc /\ request' = request
      /\ pc \in [Servers -> ServerState]
      /\ promise \in [Servers -> {"none", "pending", "miss", "hit"}]
      /\ waiters \in [Requests -> Seq(Servers) \cup {Absent}]
  BY DEF serverVars, Inv, TypeOK, CacherTypeOK
<1>1. CASE Pop
  <2>1. /\ Len(eventQueue) \in Nat \ {0}
        /\ Len(eventQueue') = Len(eventQueue) - 1
        /\ \A i \in 1..Len(eventQueue') : eventQueue'[i] = eventQueue[i + 1]
        /\ event' = eventQueue[1] /\ event = NoEvent
        /\ UNCHANGED <<pc, request, waiters, promise>>
    BY <1>1, TailFacts DEF Pop, serverVars, Inv, EventState, TypeOK, CacherTypeOK
  <2>2. Brought(r) => Brought(r)' \/ HandledAnswer(r)'
    <3> SUFFICES ASSUME NEW i \in Nat, Queued(i, r)
                 PROVE  Brought(r)' \/ HandledAnswer(r)'
      BY DEF Brought
    <3>1. CASE i = 1
      BY <2>1, <3>1 DEF Queued, HandledAnswer, AnswerEvent
    <3>2. CASE i # 1
      <4>1. i - 1 \in Nat /\ i - 1 \in 1..Len(eventQueue') /\ (i - 1) + 1 = i
        BY <2>1, <3>2 DEF Queued
      <4>2. eventQueue'[i - 1] = AnswerEvent(r)
        BY <2>1, <4>1 DEF Queued
      <4> QED
        BY <4>1, <4>2 DEF Brought, Queued, AnswerEvent
    <3> QED
      BY <3>1, <3>2
  <2>3. ~HandledAnswer(r)
    BY <2>1 DEF HandledAnswer, NoEvent, AnswerEvent
  <2> QED
    BY <2>1, <2>2, <2>3 DEF InFlight, Fetched, Fetching
<1>2. CASE HandleHit \/ HandleLead \/ HandleWait
  <2>1. /\ Handling("REQUEST") /\ EventDone /\ UNCHANGED eventQueue
        /\ event.promise \in Servers /\ event.request \in Requests
        /\ Asks(event.promise, event.request)
        /\ event.request \in GetRequests
    BY <1>2, RequestFacts DEF HandleHit, HandleLead, HandleWait
  <2>2. /\ HandledAnswer(r)' <=> HandledAnswer(r)
        /\ Brought(r)' <=> Brought(r)
    BY <2>1, RequestDone
  <2>3. Fetched(r) => Fetched(r)'
    BY <1>0, <1>2, <2>1
       DEF Fetched, Fetching, HandleHit, HandleLead, HandleWait, Satisfy, Asks
  <2>4. CASE HandleLead
    <3>1. r = event.request => Fetched(r)'
      <4>1. PICK s \in Servers : s = event.promise
        BY <2>1
      <4> QED
        BY <1>0, <2>1, <2>4, <4>1
           DEF HandleLead, Satisfy, Fetching, Fetched, Asks
    <3>2. r # event.request => waiters'[r] = waiters[r]
      BY <1>0, <2>4 DEF HandleLead
    <3> QED
      BY <2>2, <2>3, <3>1, <3>2 DEF InFlight
  <2>5. CASE HandleHit \/ HandleWait
    <3>1. waiters[r] = Absent => waiters'[r] = Absent
      BY <1>0, <2>5 DEF HandleHit, HandleWait
    <3> QED
      BY <2>2, <2>3, <3>1 DEF InFlight
  <2> QED
    BY <1>2, <2>4, <2>5
<1>3. CASE HandleAnswer \/ SatisfyWaiter
  <2>1. /\ UNCHANGED <<eventQueue, event, waiters>>
        /\ event.type = "ANSWER" /\ event.request \in Requests
    BY <1>3, AnswerFacts
       DEF HandleAnswer, SatisfyWaiter, Handling, Inv, EventState
  <2>2. r = event.request => HandledAnswer(r)'
    BY <2>1, AnswerFacts DEF HandledAnswer
  <2>3. Fetched(r) => Fetched(r)'
    <3> SUFFICES ASSUME NEW s \in Servers, Fetching(s, r)
                 PROVE  Fetching(s, r)'
      BY DEF Fetched
    <3>1. CASE HandleAnswer
      BY <1>0, <3>1 DEF HandleAnswer, Fetching
    <3>2. CASE SatisfyWaiter
      <4>1. Head(waitersQueue) = waitersQueue[1]
            /\ 1 \in 1..Len(waitersQueue)
        BY <3>2, TailFacts DEF SatisfyWaiter, Inv, TypeOK, CacherTypeOK
      <4>2. Asks(waitersQueue[1], event.request)
        BY <4>1 DEF Inv, CopyRefs
      <4>3. promise[s] = "miss" => s # Head(waitersQueue)
        BY <4>1, <4>2 DEF Asks
      <4> QED
        BY <1>0, <3>2, <4>3 DEF SatisfyWaiter, Satisfy, Fetching
    <3> QED
      BY <1>3, <3>1, <3>2
  <2> QED
    BY <2>1, <2>3 DEF InFlight, Brought, Queued, HandledAnswer
<1>4. CASE InsertAnswer
  <2>1. /\ event.type = "ANSWER"
        /\ UNCHANGED <<eventQueue, promise>>
        /\ waiters' = [waiters EXCEPT ![event.request] = Absent]
    BY <1>4 DEF InsertAnswer, Inv, EventState
  <2>2. r # event.request => ~HandledAnswer(r) /\ waiters'[r] = waiters[r]
    BY <1>0, <2>1 DEF HandledAnswer, AnswerEvent
  <2>3. r = event.request => waiters'[r] = Absent
    BY <1>0, <2>1
  <2> QED
    BY <1>0, <2>1, <2>2, <2>3
       DEF InFlight, Fetched, Fetching, Brought, Queued
<1> QED
  BY <1>1, <1>2, <1>3, <1>4 DEF EventThread

\* No step but giving up takes a parked request's answer away.
LEMMA NextFlight ==
    ASSUME Inv, [Next]_vars, NEW r \in Requests, InFlight(r),
           \A s \in Servers : ~GaveUp(s)
    PROVE  InFlight(r)'
<1>1. ASSUME NEW s \in Servers, Server(s) PROVE InFlight(r)'
  <2>1. \/ GetCache(s) \/ CacheAnswers(s) \/ CacheResponse(s)
        \/ /\ UNCHANGED cacherVars
           /\ \/ Accept(s)
              \/ \E q \in Requests : ReadClientRequest(s, q)
              \/ SendCached(s) \/ FindHost(s) \/ Connect(s)
              \/ SendRequest(s) \/ ReceiveResponse(s) \/ Reply(s)
    BY <1>1 DEF Server, Proceed, GaveUp, Accept, ReadClientRequest, SendCached,
                FindHost, Connect, SendRequest, ReceiveResponse, Reply
  <2> QED
    BY <2>1, ServeKeepsFlight, CacheCallsKeepFlight
<1>2. CASE EventThread /\ UNCHANGED serverVars
  BY <1>2, EventThreadKeepsFlight
<1>3. CASE (Cleaner \/ Tick) /\ UNCHANGED serverVars
  BY <1>3
     DEF Cleaner, CleanerWake, Clean, Tick, serverVars, eventVars, InFlight,
         Fetched, Fetching, Brought, Queued, HandledAnswer
<1>4. CASE UNCHANGED vars
  BY <1>4
     DEF vars, InFlight, Fetched, Fetching, Brought, Queued, HandledAnswer
<1> QED
  BY <1>1, <1>2, <1>3, <1>4 DEF Next, CacherNext

\* Whatever fails, a request for which promises are parked loses its flight
\* only in a step of a thread that gives up: for want of a Host header, or
\* after a failed call.
OnlyGivingUpOrphans ==
    [][\A r \in Requests :
         InFlight(r) /\ (\A s \in Servers : ~GaveUp(s)) => InFlight(r)']_vars

THEOREM OrphansNeedFailure == Spec => OnlyGivingUpOrphans
<1>1. Inv /\ [Next]_vars =>
        [\A r \in Requests :
           InFlight(r) /\ (\A s \in Servers : ~GaveUp(s)) => InFlight(r)']_vars
  BY NextFlight
<1> QED
  BY <1>1, InitInv, NextInv, PTL DEF Spec, OnlyGivingUpOrphans

\* So where no call fails and every GET has a Host header, nobody is parked
\* without somebody who will bring the answer.
THEOREM WaitersAreServed ==
    ASSUME FailPoints = {}, GetRequests \subseteq HostRequests
    PROVE  Spec => []WaitersHaveFlight
<1> DEFINE Flown == /\ Inv
                    /\ \A s \in Servers : pc[s] # "sendBadFD"
                    /\ \A r \in Requests : InFlight(r)
<1>1. Init => Flown
  BY InitInv DEF Init, CacherInit, InFlight
<1>2. Flown /\ [Next]_vars => Flown'
  <2> SUFFICES ASSUME Flown, [Next]_vars PROVE Flown'
    OBVIOUS
  <2>1. Inv'
    BY NextInv
  <2>2. \A s \in Servers : ~Fail(s)
    BY DEF Fail, ReadFails, ConnectFails, SendFails, ReceiveFails, ReplyFails,
           Return, Goto
  <2>3. ASSUME NEW s \in Servers PROVE pc'[s] # "sendBadFD"
    BY <2>2
       DEF Next, vars, Server, Accept, ReadClientRequest, Proceed, GetCache,
           CacheAnswers, SendCached, FindHost, NoHost, Connect, SendRequest,
           ReceiveResponse, Reply, CacheResponse, Return, Goto, serverVars,
           Inv, TypeOK
  <2>4. ASSUME NEW r \in Requests PROVE InFlight(r)'
    <3>1. CASE \A s \in Servers : ~NoHost(s)
      BY <2>2, <3>1, NextFlight DEF GaveUp
    <3>2. ASSUME NEW s \in Servers, NoHost(s) PROVE InFlight(r)'
      <4>1. \A t \in Servers : Fetching(t, r) => Fetching(t, r)'
        BY <3>2
           DEF NoHost, Return, Goto, Fetching, cacherVars, Inv, TypeOK, Control
      <4>2. UNCHANGED cacherVars
        BY <3>2 DEF NoHost
      <4> QED
        BY <4>1, <4>2
           DEF InFlight, Fetched, Brought, Queued, HandledAnswer, cacherVars
    <3> QED
      BY <3>1, <3>2
  <2> QED
    BY <2>1, <2>3, <2>4
<1>3. Flown => WaitersHaveFlight
  BY PhaseFacts DEF InFlight, WaitersHaveFlight
<1> QED
  BY <1>1, <1>2, <1>3, PTL DEF Spec
=============================================================================
