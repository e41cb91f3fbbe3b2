------------------------------- MODULE HttpProxy ------------------------------
(***************************************************************************)
(* The process around the connection threads (httpproxy/httpproxy.cpp):    *)
(* the main thread in listenAndServe, the registry of connection threads   *)
(* with its mutex, a thread from pthread_create to its end, and SIGINT.    *)
(* The threads' calls of serve and the cache are those of                  *)
(* SingleHostServer.                                                       *)
(*                                                                         *)
(* The kernel gives a SIGINT to the main thread, which does not block it.  *)
(***************************************************************************)
EXTENDS SingleHostServer

CONSTANTS Interrupts,   \* whether there may be a SIGINT
          ListenFails   \* whether accept or pthread_create may fail

VARIABLES
    listener,       \* where listenAndServe is
    newcomer,       \* the thread it has created
    life,           \* of a connection thread
    createdThreads, \* the registry
    mutex,          \* its mutex: who holds it, or Null
    process         \* "runs"; "interrupted": the main thread is in
                    \* signalHandler; "cancels": with the mutex; "over"

proxyVars == <<listener, newcomer, life, createdThreads, mutex, process>>
allVars == <<vars, proxyVars>>

Listener == "listener"
Handler  == "handler"

-----------------------------------------------------------------------------
(* The main thread.                                                        *)

Listens(from, to) ==
    /\ process = "runs"
    /\ listener = from
    /\ listener' = to

\* A connection, and a thread that waits for its start.
AcceptConnection(s) ==
    /\ Listens("accept", "created")
    /\ life[s] = "none"
    /\ newcomer' = s
    /\ life' = [life EXCEPT ![s] = "waits"]
    /\ UNCHANGED <<vars, createdThreads, mutex, process>>

\* listenAndServe returns, and with it main: the process is over.
ListenReturns ==
    /\ ListenFails
    /\ Listens("accept", "returned")
    /\ process' = "over"
    /\ UNCHANGED <<vars, newcomer, life, createdThreads, mutex>>

\* Mutant: the thread starts before it is in the registry.
StartsUnregistered ==
    /\ Listens("created", "inserted")
    /\ UNCHANGED <<vars, newcomer, life, createdThreads, mutex, process>>

LockRegistry ==
    /\ Listens("created", "locked")
    /\ mutex = Null
    /\ mutex' = Listener
    /\ UNCHANGED <<vars, newcomer, life, createdThreads, process>>

InsertThread ==
    /\ Listens("locked", "inserted")
    /\ createdThreads' = createdThreads \cup {newcomer}
    /\ mutex' = Null
    /\ UNCHANGED <<vars, newcomer, life, process>>

\* threadStarter.set_value: the thread calls serve.
StartThread ==
    /\ Listens("inserted", "accept")
    /\ Accept(newcomer)
    /\ life' = [life EXCEPT ![newcomer] = "serves"]
    /\ UNCHANGED <<newcomer, createdThreads, mutex, process>>

ListenerStep == LockRegistry \/ InsertThread \/ StartThread

-----------------------------------------------------------------------------
(* A connection thread.                                                    *)

Serve(s, step) ==
    /\ process # "over"
    /\ life[s] = "serves"
    /\ step
    /\ UNCHANGED proxyVars

\* serve has returned.
LockToErase(s) ==
    /\ process # "over"
    /\ life[s] = "serves"
    /\ pc[s] = "idle"
    /\ mutex = Null
    /\ mutex' = s
    /\ life' = [life EXCEPT ![s] = "erases"]
    /\ UNCHANGED <<vars, listener, newcomer, createdThreads, process>>

EraseThread(s) ==
    /\ process # "over"
    /\ life[s] = "erases"
    /\ createdThreads' = createdThreads \ {s}
    /\ mutex' = Null
    /\ life' = [life EXCEPT ![s] = "none"]
    /\ UNCHANGED <<vars, listener, newcomer, process>>

-----------------------------------------------------------------------------
(* SIGINT.                                                                 *)

Interrupt ==
    /\ Interrupts
    /\ process = "runs"
    /\ process' = "interrupted"
    /\ UNCHANGED <<vars, listener, newcomer, life, createdThreads, mutex>>

\* Mutant: the handler waits until nobody is left to be cancelled.
HandlerLocksWhenEmpty ==
    /\ process = "interrupted"
    /\ mutex = Null
    /\ createdThreads = {}
    /\ mutex' = Handler
    /\ process' = "cancels"
    /\ UNCHANGED <<vars, listener, newcomer, life, createdThreads>>

HandlerLocks ==
    /\ process = "interrupted"
    /\ mutex = Null
    /\ mutex' = Handler
    /\ process' = "cancels"
    /\ UNCHANGED <<vars, listener, newcomer, life, createdThreads>>

\* pthread_cancel for every thread of the registry, then std::terminate, in one
\* step.  In the code a cancelled thread may unwind at its next cancellation
\* point before the process is over: its promise goes while it is referenced,
\* and it does not erase itself.  What is seen of that ends with the process.
HandlerTerminates ==
    /\ process = "cancels"
    /\ mutex' = Null
    /\ process' = "over"
    /\ UNCHANGED <<vars, listener, newcomer, life, createdThreads>>

HandlerStep == HandlerLocks \/ HandlerTerminates

-----------------------------------------------------------------------------
CacherThread(step) ==
    /\ process # "over"
    /\ step
    /\ UNCHANGED <<serverVars, proxyVars>>

ProxyInit ==
    /\ Init
    /\ listener = "accept"
    /\ newcomer = Null
    /\ life = [s \in Servers |-> "none"]
    /\ createdThreads = {}
    /\ mutex = Null
    /\ process = "runs"

ProxyNext ==
    \/ \E s \in Servers : AcceptConnection(s)
    \/ ListenReturns
    \/ ListenerStep
    \/ \E s \in Servers :
            \/ Serve(s, (\E r \in Requests : ReadClientRequest(s, r)) \/ Proceed(s) \/ Fail(s))
            \/ LockToErase(s)
            \/ EraseThread(s)
    \/ Interrupt
    \/ HandlerStep
    \/ CacherThread(CacherNext)

ProxySpec == ProxyInit /\ [][ProxyNext]_allVars

\* As for SingleHostServer; and the main thread and the handler go on.  (The
\* mutex of the registry is asked for by finitely many threads after an
\* interrupt, so that weak fairness is enough for the handler.)
ProxyFairness ==
    /\ WF_allVars(ListenerStep)
    /\ WF_allVars(HandlerStep)
    /\ \A s \in Servers :
          /\ WF_allVars(Serve(s, Proceed(s) \/ (Fail(s) /\ pc[s] # "read")))
          /\ WF_allVars(LockToErase(s))
          /\ WF_allVars(EraseThread(s))
    /\ WF_allVars(CacherThread(EventThread))
    /\ WF_allVars(CacherThread(Cleaner))
    /\ WF_allVars(CacherThread(Tick))

ProxyFairSpec == ProxySpec /\ ProxyFairness

-----------------------------------------------------------------------------
\* The registry that the SIGINT handler walks under the mutex holds no thread
\* that has ended, whose pthread_t would be no longer valid, and every thread
\* that serves a connection: a thread never erases itself before
\* listenAndServe has inserted it (threadStarter).
RegistryIsExact ==
    \A s \in Servers :
        /\ s \in createdThreads => life[s] # "none"
        /\ life[s] \in {"serves", "erases"} => s \in createdThreads

\* A SIGINT ends the process, unless it has interrupted the main thread while
\* it held the mutex of the registry (signalHandler locks it).
InterruptEndsProcess ==
    (process = "interrupted" /\ mutex # Listener) ~> process = "over"

\* Without a SIGINT, a thread that asks the cache gets an answer ...
Uninterrupted == [](process = "runs")
CallersAreAnswered == Uninterrupted => GetCacheReturns

\* ... and an entry does not stay in the map for ever (cleanerFunction).
EntriesExpire == Uninterrupted => EntryExpires
=============================================================================
