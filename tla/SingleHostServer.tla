-------------------------- MODULE SingleHostServer --------------------------
(***************************************************************************)
(* The connection threads of the HTTP proxy (httpproxy/singlehostserver)   *)
(* together with the cache they share: the whole request path from an      *)
(* accepted connection to the reply.                                       *)
(*                                                                         *)
(* A member of Servers is a connection thread; when its connection is over *)
(* it stands for the thread of a later connection.  What the network does  *)
(* is a choice: FailPoints names the calls that may fail in an instance.   *)
(***************************************************************************)
EXTENDS HttpCacher

CONSTANTS
    GetRequests,    \* requests whose method is GET
    HostRequests,   \* requests that carry a Host header
    FailPoints      \* calls that may fail

ASSUME ServerAssumption ==
    /\ GetRequests \subseteq Requests
    /\ HostRequests \subseteq Requests
    /\ FailPoints \subseteq {"read", "connect", "send", "receive", "reply"}

VARIABLES
    pc,             \* where serve is
    request         \* clientRequest, once it has been read

serverVars == <<pc, request>>
vars == <<eventQueue, eventPc, event, waitersQueue, waiters, cachingMap,
          promise, cleanerPc, elapsed, pc, request>>

ServerState ==
    {"idle", "read", "getCache", "waiting", "sendCached", "host", "connect",
     "send", "sendBadFD", "receive", "reply", "cache"}

TypeOK ==
    /\ CacherTypeOK
    /\ pc \in [Servers -> ServerState]
    /\ request \in [Servers -> Requests \cup {Null}]

Init ==
    /\ CacherInit
    /\ pc = [s \in Servers |-> "idle"]
    /\ request = [s \in Servers |-> Null]

Goto(s, from, to) ==
    /\ pc[s] = from
    /\ pc' = [pc EXCEPT ![s] = to]

\* serve returns: the connection is closed and the thread ends.
Return(s, from) ==
    /\ Goto(s, from, "idle")
    /\ request' = [request EXCEPT ![s] = Null]

-----------------------------------------------------------------------------
\* listenAndServe accepted a connection and started its thread.
Accept(s) ==
    /\ Goto(s, "idle", "read")
    /\ UNCHANGED <<request, cacherVars>>

\* Only a GET looks into the cache.
ReadClientRequest(s, r) ==
    /\ Goto(s, "read", IF r \in GetRequests THEN "getCache" ELSE "host")
    /\ request' = [request EXCEPT ![s] = r]
    /\ UNCHANGED cacherVars

\* recv fails, or the bytes are no request
ReadFails(s) ==
    /\ "read" \in FailPoints
    /\ Return(s, "read")
    /\ UNCHANGED cacherVars

GetCache(s) ==
    /\ Goto(s, "getCache", "waiting")
    /\ AskCache(s, request[s])
    /\ UNCHANGED request

CacheAnswers(s) ==
    /\ Goto(s, "waiting", IF promise[s] = "hit" THEN "sendCached" ELSE "host")
    /\ LeaveGetCache(s)
    /\ UNCHANGED request

\* serve returns after this write whether it failed or not.
SendCached(s) ==
    /\ Return(s, "sendCached")
    /\ UNCHANGED cacherVars

FindHost(s) ==
    /\ request[s] \in HostRequests
    /\ Goto(s, "host", "connect")
    /\ UNCHANGED <<request, cacherVars>>

\* No Host header: serve gives up.
NoHost(s) ==
    /\ request[s] \notin HostRequests
    /\ Return(s, "host")
    /\ UNCHANGED cacherVars

Connect(s) ==
    /\ Goto(s, "connect", "send")
    /\ UNCHANGED <<request, cacherVars>>

\* openConnectionWithServer returns -1, which nobody looks at.
ConnectFails(s) ==
    /\ "connect" \in FailPoints
    /\ Goto(s, "connect", "sendBadFD")
    /\ UNCHANGED <<request, cacherVars>>

SendRequest(s) ==
    /\ Goto(s, "send", "receive")
    /\ UNCHANGED <<request, cacherVars>>

SendFails(s) ==
    /\ \/ "send" \in FailPoints /\ Return(s, "send")
       \/ Return(s, "sendBadFD")
    /\ UNCHANGED cacherVars

\* readServerResponse: everything up to the end of the stream
ReceiveResponse(s) ==
    /\ Goto(s, "receive", "reply")
    /\ UNCHANGED <<request, cacherVars>>

ReceiveFails(s) ==
    /\ "receive" \in FailPoints
    /\ Return(s, "receive")
    /\ UNCHANGED cacherVars

\* Mutant: the response is not handed over to the cache.
ReplyOnly(s) ==
    /\ Return(s, "reply")
    /\ UNCHANGED cacherVars

\* The client gets the response before the cache does.
Reply(s) ==
    /\ IF request[s] \in GetRequests
       THEN Goto(s, "reply", "cache") /\ UNCHANGED request
       ELSE Return(s, "reply")
    /\ UNCHANGED cacherVars

ReplyFails(s) ==
    /\ "reply" \in FailPoints
    /\ Return(s, "reply")
    /\ UNCHANGED cacherVars

CacheResponse(s) ==
    /\ Return(s, "cache")
    /\ GiveAnswer(request[s])

-----------------------------------------------------------------------------
\* What a thread does once its request has been read, when nothing fails ...
Proceed(s) ==
    \/ GetCache(s) \/ CacheAnswers(s) \/ SendCached(s)
    \/ FindHost(s) \/ NoHost(s)
    \/ Connect(s) \/ SendRequest(s) \/ ReceiveResponse(s)
    \/ Reply(s) \/ CacheResponse(s)

\* ... and when something does.
Fail(s) ==
    \/ ReadFails(s) \/ ConnectFails(s) \/ SendFails(s)
    \/ ReceiveFails(s) \/ ReplyFails(s)

Server(s) ==
    \/ Accept(s)
    \/ \E r \in Requests : ReadClientRequest(s, r)
    \/ Proceed(s)
    \/ Fail(s)

Next ==
    \/ \E s \in Servers : Server(s)
    \/ CacherNext /\ UNCHANGED serverVars

Spec == Init /\ [][Next]_vars

(* Fairness.  The kernel schedules every thread, and time does not stop.   *)
(* A thread in serve takes its next step, successful or not: the origin    *)
(* server and the client are assumed to accept and to send what they are   *)
(* asked for, or to break the connection.  Nobody has to connect, and a    *)
(* client need not ever finish its request.                                *)
Fairness ==
    /\ \A s \in Servers : WF_vars(Proceed(s) \/ (Fail(s) /\ pc[s] # "read"))
    /\ WF_vars(EventThread /\ UNCHANGED serverVars)
    /\ WF_vars(Cleaner /\ UNCHANGED serverVars)
    /\ WF_vars(Tick /\ UNCHANGED serverVars)

FairSpec == Spec /\ Fairness

-----------------------------------------------------------------------------
(* Properties.                                                             *)

\* Threads the cache told "no cache", and that have not given up yet.
Fetching(s, r) ==
    /\ request[s] = r
    /\ \/ promise[s] = "miss"
       \/ /\ r \in GetRequests
          /\ pc[s] \in {"host", "connect", "send", "sendBadFD", "receive",
                        "reply", "cache"}
Fetchers(r) == {s \in Servers : Fetching(s, r)}

\* Answers for r on their way to the map: queued, or in the event thread.
QueuedAnswers(r) ==
    {i \in DOMAIN eventQueue : eventQueue[i] = AnswerEvent(r)}
HandledAnswer(r) == event = AnswerEvent(r)

\* A request is fetched at most once at a time: there is never a second
\* thread fetching it, nor an answer on its way while a thread fetches it,
\* nor two answers; and whoever asks meanwhile is parked, for the request
\* stays in waiters and out of the map until its answer is inserted.
\* (REQUEST and ANSWER cases of eventFunction.)
SingleFlight ==
    \A r \in Requests :
        /\ \A s, t \in Fetchers(r) : s = t
        /\ \A i, j \in QueuedAnswers(r) : i = j
        /\ Fetchers(r) # {} => QueuedAnswers(r) = {} /\ ~HandledAnswer(r)
        /\ HandledAnswer(r) => QueuedAnswers(r) = {}
        /\ Fetchers(r) # {} \/ QueuedAnswers(r) # {} \/ HandledAnswer(r)
             => waiters[r] # Absent
        /\ waiters[r] # Absent => cachingMap[r] = Absent

\* Where s occurs in a sequence of promises.
Occurrences(q, s) == {i \in DOMAIN q : q[i] = s}

\* The promises parked for r.  Once the event thread works through its copy of
\* them, the copy is what counts.
Parked(r) ==
    IF waiters[r] = Absent \/ (eventPc = "satisfy" /\ event.request = r)
    THEN <<>> ELSE waiters[r]

\* All the places from which the cache may still satisfy the promise of s.
Places(s) ==
    ({"queue"} \X {i \in DOMAIN eventQueue : eventQueue[i].promise = s})
    \cup (IF event.promise = s THEN {<<"event", 0>>} ELSE {})
    \cup ({"copy"} \X Occurrences(waitersQueue, s))
    \cup UNION {{"parked"} \X ({r} \X Occurrences(Parked(r), s)) : r \in Requests}

\* getCache hands out the address of a promise on its own stack.  While the
\* thread waits there is exactly one place the cache will satisfy it from, so
\* it is neither forgotten nor satisfied twice (set_value would throw), and
\* once it is answered no pointer to the dead stack frame is left.
PromiseOwnership ==
    \A s \in Servers :
        /\ promise[s] = "pending"
             => pc[s] = "waiting" /\ \E x \in Places(s) : Places(s) = {x}
        /\ promise[s] # "pending" => Places(s) = {}

\* Nobody is parked without somebody who will bring the answer.  Holds only
\* where no call fails and every GET has a Host header.
WaitersHaveFlight ==
    \A r \in Requests :
        waiters[r] # Absent =>
            Fetchers(r) # {} \/ QueuedAnswers(r) # {} \/ HandledAnswer(r)

\* No answer older than this is ever handed to a client: an entry outlives
\* the timeout by at most a period of the cleaner and its scheduling delays.
\* (cleanerFunction, with `now` read before the lock.)
HitAgeBound ==
    \A r \in Requests :
        cachingMap[r] # Absent =>
            cachingMap[r] <= CacheTimeout - 1 + Revalidate + 3 * MaxDelay

\* The cleaner never drops an entry before its time.
NeverEvictsEarly ==
    [][\A r \in Requests :
        cachingMap[r] # Absent /\ cachingMap'[r] = Absent
            => cachingMap[r] >= CacheTimeout]_vars

\* A thread that asks the cache gets an answer.
GetCacheReturns ==
    \A s \in Servers : pc[s] = "waiting" ~> pc[s] # "waiting"

\* An entry does not stay in the map for ever.
EntryExpires ==
    \A r \in Requests : cachingMap[r] # Absent ~> cachingMap[r] = Absent

\* src/README.md:83: a SingleHostServer told there is no entry has to fetch
\* the response itself and must then return it to the cacher.
MissBringsAnswer ==
    \A s \in Servers, r \in Requests :
        promise[s] = "miss" /\ request[s] = r ~> QueuedAnswers(r) # {}
=============================================================================
