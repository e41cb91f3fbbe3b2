----------------------------- MODULE HttpCacher -----------------------------
(***************************************************************************)
(* The response cache of the HTTP proxy (httpproxy/httpcacher.{h,cpp}).    *)
(*                                                                         *)
(* Connection threads talk to the cache through one FIFO queue of events   *)
(* (blockingqueue.h).  The event thread pops them one by one: the first    *)
(* thread that asks for a request nobody cached is told "no cache" and is  *)
(* expected to fetch it, later ones are parked in waiters, and the ANSWER  *)
(* of the first one satisfies them.  The cleaner thread wakes up every     *)
(* Revalidate and drops what is older than CacheTimeout.                   *)
(*                                                                         *)
(* Data: a request is a value, a response is left out (an entry of the     *)
(* cache is only its age), and a promise on the stack of getCache is named *)
(* by the thread that owns it.  Time: whole ticks, counted by Tick.        *)
(***************************************************************************)
EXTENDS Integers, Sequences

CONSTANTS
    Servers,        \* connection threads, each running SingleHostServer::serve
    Requests,       \* the bytes of a client request: the key of the cache
    CacheTimeout,   \* CACHE_TIMEOUT_MILLIS, in ticks
    MaxDelay,       \* bound: ticks the cleaner may be kept off the processor
    Null,           \* the null promise of an ANSWER
    Absent          \* a map holds no such key

\* The cleaner's period is a quarter of the timeout.
Revalidate == CacheTimeout \div 4

ASSUME CacherAssumption ==
    /\ CacheTimeout \in Nat \ {0}
    /\ MaxDelay \in Nat
    /\ Null \notin Servers
    /\ Absent \notin Nat
    /\ Absent \notin Seq(Servers)

VARIABLES
    eventQueue,     \* blocking_queue<CacheEvent>, oldest first
    eventPc,        \* where the event thread is
    event,          \* the event it works on
    waitersQueue,   \* its local copy of the waiters it is satisfying
    waiters,        \* per request: the promises parked, or Absent
    cachingMap,     \* per request: age of the entry, or Absent
    promise,        \* per thread: state of the promise getCache created
    cleanerPc,      \* "wait": in wait_for; "clean": `now` read, not yet done
    elapsed         \* ticks since cleanerPc last changed

eventVars   == <<eventPc, event, waitersQueue, waiters>>
cleanerVars == <<cleanerPc, elapsed>>
cacherVars  == <<eventQueue, eventPc, event, waitersQueue, waiters,
                 cachingMap, promise, cleanerPc, elapsed>>

\* Mutant: the promise is left out of the event.
RequestEventWithoutPromise(r, s) ==
    [type |-> "REQUEST", request |-> r, promise |-> Null]

RequestEvent(r, s) == [type |-> "REQUEST", request |-> r, promise |-> s]
AnswerEvent(r)     == [type |-> "ANSWER", request |-> r, promise |-> Null]
NoEvent            == [type |-> "NONE", request |-> Null, promise |-> Null]

CacheEvent ==
    [type : {"REQUEST"}, request : Requests, promise : Servers]
        \cup [type : {"ANSWER"}, request : Requests, promise : {Null}]

CacherTypeOK ==
    /\ eventQueue \in Seq(CacheEvent)
    /\ eventPc \in {"pop", "handle", "satisfy"}
    /\ event \in CacheEvent \cup {NoEvent}
    /\ waitersQueue \in Seq(Servers)
    /\ waiters \in [Requests -> Seq(Servers) \cup {Absent}]
    /\ cachingMap \in [Requests -> Nat \cup {Absent}]
    /\ promise \in [Servers -> {"none", "pending", "miss", "hit"}]
    /\ cleanerPc \in {"wait", "clean"}
    /\ elapsed \in Nat

CacherInit ==
    /\ eventQueue = <<>>
    /\ eventPc = "pop"
    /\ event = NoEvent
    /\ waitersQueue = <<>>
    /\ waiters = [r \in Requests |-> Absent]
    /\ cachingMap = [r \in Requests |-> Absent]
    /\ promise = [s \in Servers |-> "none"]
    /\ cleanerPc = "wait"
    /\ elapsed = 0

-----------------------------------------------------------------------------
(* What a connection thread does to the cache.                             *)

Push(e) == eventQueue' = Append(eventQueue, e)

\* getCache up to the wait: a fresh promise, and a REQUEST that points to it.
AskCache(s, r) ==
    /\ Push(RequestEvent(r, s))
    /\ promise' = [promise EXCEPT ![s] = "pending"]
    /\ UNCHANGED <<eventVars, cachingMap, cleanerVars>>

\* The wait of getCache is over; on return the promise leaves the stack.
Answered(s) == promise[s] \in {"miss", "hit"}
LeaveGetCache(s) ==
    /\ Answered(s)
    /\ promise' = [promise EXCEPT ![s] = "none"]
    /\ UNCHANGED <<eventQueue, eventVars, cachingMap, cleanerVars>>

\* HttpCacher::cache
GiveAnswer(r) ==
    /\ Push(AnswerEvent(r))
    /\ UNCHANGED <<eventVars, cachingMap, promise, cleanerVars>>

-----------------------------------------------------------------------------
(* The event thread.  Each action is one stretch between two operations    *)
(* other threads can see; REQUEST is handled under the cache's mutex.      *)

Pop ==
    /\ eventPc = "pop"
    /\ eventQueue # <<>>
    /\ event' = Head(eventQueue)
    /\ eventQueue' = Tail(eventQueue)
    /\ eventPc' = "handle"
    /\ UNCHANGED <<waitersQueue, waiters, cachingMap, promise, cleanerVars>>

Handling(type) == eventPc = "handle" /\ event.type = type
EventDone      == eventPc' = "pop" /\ event' = NoEvent

\* set_value on the promise of the event being handled
Satisfy(s, result) == promise' = [promise EXCEPT ![s] = result]

\* Mutant: a hit renews the entry.
HandleHitRenews ==
    /\ Handling("REQUEST")
    /\ cachingMap[event.request] # Absent
    /\ Satisfy(event.promise, "hit")
    /\ cachingMap' = [cachingMap EXCEPT ![event.request] = 0]
    /\ EventDone
    /\ UNCHANGED <<eventQueue, waitersQueue, waiters, cleanerVars>>

\* REQUEST, cached: the promise gets the entry.
HandleHit ==
    /\ Handling("REQUEST")
    /\ cachingMap[event.request] # Absent
    /\ Satisfy(event.promise, "hit")
    /\ EventDone
    /\ UNCHANGED <<eventQueue, waitersQueue, waiters, cachingMap, cleanerVars>>

\* Mutant: the empty queue of waiters is not inserted.
HandleLeadUnmarked ==
    /\ Handling("REQUEST")
    /\ cachingMap[event.request] = Absent
    /\ waiters[event.request] = Absent
    /\ Satisfy(event.promise, "miss")
    /\ EventDone
    /\ UNCHANGED <<eventQueue, waitersQueue, waiters, cachingMap, cleanerVars>>

\* REQUEST, neither cached nor being fetched: the asker has to fetch it.
HandleLead ==
    /\ Handling("REQUEST")
    /\ cachingMap[event.request] = Absent
    /\ waiters[event.request] = Absent
    /\ waiters' = [waiters EXCEPT ![event.request] = <<>>]
    /\ Satisfy(event.promise, "miss")
    /\ EventDone
    /\ UNCHANGED <<eventQueue, waitersQueue, cachingMap, cleanerVars>>

\* Mutant: the promise is not pushed.
HandleWaitForgets ==
    /\ Handling("REQUEST")
    /\ cachingMap[event.request] = Absent
    /\ waiters[event.request] # Absent
    /\ EventDone
    /\ UNCHANGED <<eventQueue, waitersQueue, waiters, cachingMap, promise,
                   cleanerVars>>

\* Mutant: the promise is satisfied at once.
HandleWaitServes ==
    /\ Handling("REQUEST")
    /\ cachingMap[event.request] = Absent
    /\ waiters[event.request] # Absent
    /\ Satisfy(event.promise, "hit")
    /\ EventDone
    /\ UNCHANGED <<eventQueue, waitersQueue, waiters, cachingMap, cleanerVars>>

\* REQUEST, being fetched: the asker is parked.
HandleWait ==
    /\ Handling("REQUEST")
    /\ cachingMap[event.request] = Absent
    /\ waiters[event.request] # Absent
    /\ waiters' = [waiters EXCEPT ![event.request] = Append(@, event.promise)]
    /\ EventDone
    /\ UNCHANGED <<eventQueue, waitersQueue, cachingMap, promise, cleanerVars>>

\* ANSWER: the loop runs over a copy of the parked promises.
HandleAnswer ==
    /\ Handling("ANSWER")
    /\ waitersQueue' = IF waiters[event.request] = Absent
                       THEN <<>> ELSE waiters[event.request]
    /\ eventPc' = "satisfy"
    /\ UNCHANGED <<eventQueue, event, waiters, cachingMap, promise, cleanerVars>>

SatisfyWaiter ==
    /\ eventPc = "satisfy"
    /\ waitersQueue # <<>>
    /\ Satisfy(Head(waitersQueue), "hit")
    /\ waitersQueue' = Tail(waitersQueue)
    /\ UNCHANGED <<eventQueue, eventPc, event, waiters, cachingMap, cleanerVars>>

\* Every waiter is satisfied: forget them and, under the mutex, map::insert,
\* which leaves an entry that is already there (and its age) alone.
InsertAnswer ==
    /\ eventPc = "satisfy"
    /\ waitersQueue = <<>>
    /\ waiters' = [waiters EXCEPT ![event.request] = Absent]
    /\ cachingMap' = [cachingMap EXCEPT ![event.request] =
                        IF @ = Absent THEN 0 ELSE @]
    /\ EventDone
    /\ UNCHANGED <<eventQueue, waitersQueue, promise, cleanerVars>>

EventThread ==
    \/ Pop
    \/ HandleHit \/ HandleLead \/ HandleWait
    \/ HandleAnswer \/ SatisfyWaiter \/ InsertAnswer

-----------------------------------------------------------------------------
(* The cleaner thread, and time.                                           *)

\* wait_for timed out; `now` is read before the mutex is taken.
CleanerWake ==
    /\ cleanerPc = "wait"
    /\ elapsed >= Revalidate
    /\ cleanerPc' = "clean"
    /\ elapsed' = 0
    /\ UNCHANGED <<eventQueue, eventVars, cachingMap, promise>>

\* now - creationTime, for the `now` the cleaner read `elapsed` ticks ago;
\* negative for an entry created since.
DifferenceAtNow(age) == age - elapsed

\* Mutants: > for >=; the two durations swapped.
ExpiredLate(age)     == age # Absent /\ DifferenceAtNow(age) > CacheTimeout
ExpiredAtPeriod(age) == age # Absent /\ DifferenceAtNow(age) >= Revalidate

Expired(age) == age # Absent /\ DifferenceAtNow(age) >= CacheTimeout

\* One pass over the map, under the mutex.
Clean ==
    /\ cleanerPc = "clean"
    /\ cachingMap' = [r \in Requests |->
                        IF Expired(cachingMap[r]) THEN Absent ELSE cachingMap[r]]
    /\ cleanerPc' = "wait"
    /\ elapsed' = 0
    /\ UNCHANGED <<eventQueue, eventVars, promise>>

Cleaner == CleanerWake \/ Clean

\* The longest the cleaner stays in its present phase.
Deadline == IF cleanerPc = "wait" THEN Revalidate + MaxDelay ELSE MaxDelay

\* Time passes: every entry gets older.
Tick ==
    /\ elapsed < Deadline
    /\ elapsed' = elapsed + 1
    /\ cachingMap' = [r \in Requests |->
                        IF cachingMap[r] = Absent THEN Absent
                        ELSE cachingMap[r] + 1]
    /\ UNCHANGED <<eventQueue, eventVars, promise, cleanerPc>>

CacherNext == EventThread \/ Cleaner \/ Tick
=============================================================================
