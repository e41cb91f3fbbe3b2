---------------------------- MODULE MyCoreThreads -----------------------------
(***************************************************************************)
(* first/4-grade/my-core-threads.c: threads made with clone, the clients   *)
(* that create, join, detach and cancel them, and the kernel's futexes and *)
(* signals.  The clone flags lack CLONE_SETTLS, so that all the threads    *)
(* have one errno.                                                         *)
(***************************************************************************)
EXTENDS Integers, FiniteSets

CONSTANTS CoreThreads,    \* the threads that are created
          Clients,        \* the threads that call the library
          NULL,
          MaxCalls        \* bound: the calls of each client

ASSUME NullAssumption == NULL \notin CoreThreads \cup Clients

VARIABLES phase,      \* where a thread is in wrapper
          handler,    \* sigaction for SIGCANCEL: one for the whole process
          tid,        \* whether strct->tid has been stored
          futex,      \* TRUE: MYCORETHREAD_FINISHED
          result,     \* foo.result: the thread itself stands for it
          joinable, canceled,
          stuck,      \* the threads that a SIGCANCEL keeps in the handler
          killed,     \* the default action of SIGCANCEL has ended the process
          errno,
          cpc,        \* where a client is in its call
          target,     \* the thread that the call is about
          joined,     \* what a client's last join of a thread has returned
          calls

data == <<tid, futex, result, joinable, canceled>>
coreVars == <<phase, handler, data, stuck, killed, errno, cpc, target, joined, calls>>

Waiters(t) == {c \in Clients : cpc[c] = "waiting" /\ target[c] = t}

-----------------------------------------------------------------------------
(* wrapper.                                                                *)

Moves(t, from, to) ==
    /\ ~killed
    /\ t \notin stuck
    /\ phase[t] = from
    /\ phase' = [phase EXCEPT ![t] = to]

\* sigaction; a thread for which it fails is over.
InstallHandler(t) ==
    /\ \/ Moves(t, "cloned", "installed") /\ handler' = TRUE
       \/ Moves(t, "cloned", "exited") /\ handler' = handler
    /\ UNCHANGED <<data, stuck, killed, errno, cpc, target, joined, calls>>

\* Mutant: the thread can be signalled before it has a handler.
StoreTidFirst(t) ==
    /\ Moves(t, phase[t], phase[t])
    /\ phase[t] = "cloned"
    /\ ~tid[t]
    /\ tid' = [tid EXCEPT ![t] = TRUE]
    /\ UNCHANGED <<handler, futex, result, joinable, canceled, stuck, killed, errno,
                   cpc, target, joined, calls>>

StoreTid(t) ==
    /\ Moves(t, "installed", "routine")
    /\ tid' = [tid EXCEPT ![t] = TRUE]
    /\ UNCHANGED <<handler, futex, result, joinable, canceled, stuck, killed, errno,
                   cpc, target, joined, calls>>

\* A call of the routine fails: the errno is that of all the threads.
RoutineSetsErrno(t) ==
    /\ Moves(t, "routine", "routine")
    /\ errno' = "other"
    /\ UNCHANGED <<handler, data, stuck, killed, cpc, target, joined, calls>>

\* Mutant: the result is not stored.
RoutineReturnsUnrecorded(t) ==
    /\ Moves(t, "routine", "returned")
    /\ UNCHANGED <<handler, data, stuck, killed, errno, cpc, target, joined, calls>>

RoutineReturns(t) ==
    /\ Moves(t, "routine", "returned")
    /\ result' = [result EXCEPT ![t] = t]
    /\ UNCHANGED <<handler, tid, futex, joinable, canceled, stuck, killed, errno,
                   cpc, target, joined, calls>>

CheckJoinable(t) ==
    /\ Moves(t, "returned", IF joinable[t] THEN "finish" ELSE "exited")
    /\ UNCHANGED <<handler, data, stuck, killed, errno, cpc, target, joined, calls>>

Finish(t) ==
    /\ Moves(t, "finish", "wake")
    /\ futex' = [futex EXCEPT ![t] = TRUE]
    /\ UNCHANGED <<handler, tid, result, joinable, canceled, stuck, killed, errno,
                   cpc, target, joined, calls>>

\* Mutant: nobody is woken.
WakeNobody(t) ==
    /\ Moves(t, "wake", "exited")
    /\ UNCHANGED <<handler, data, stuck, killed, errno, cpc, target, joined, calls>>

\* futex_wake(.., 1)
Wake(t) ==
    /\ Moves(t, "wake", "exited")
    /\ IF Waiters(t) = {} THEN cpc' = cpc
       ELSE \E c \in Waiters(t) : cpc' = [cpc EXCEPT ![c] = "result"]
    /\ UNCHANGED <<handler, data, stuck, killed, errno, target, joined, calls>>

Wrapper(t) ==
    InstallHandler(t) \/ StoreTid(t) \/ CheckJoinable(t) \/ Finish(t) \/ Wake(t)

-----------------------------------------------------------------------------
(* The calls of the clients.                                               *)

Calls(c, t) ==
    /\ ~killed
    /\ cpc[c] = "idle"
    /\ phase[t] # "none"
    /\ calls[c] < MaxCalls
    /\ calls' = [calls EXCEPT ![c] = @ + 1]
    /\ target' = [target EXCEPT ![c] = t]

Continues(c, from, to) ==
    /\ ~killed
    /\ cpc[c] = from
    /\ cpc' = [cpc EXCEPT ![c] = to]

\* mycorethread_create: the structure is filled before clone.
Create(t) ==
    /\ ~killed
    /\ phase[t] = "none"
    /\ phase' = [phase EXCEPT ![t] = "cloned"]
    /\ joinable' = [joinable EXCEPT ![t] = TRUE]
    /\ canceled' = [canceled EXCEPT ![t] = FALSE]
    /\ futex' = [futex EXCEPT ![t] = FALSE]
    /\ UNCHANGED <<handler, tid, result, stuck, killed, errno, cpc, target, joined, calls>>

JoinReturns(c, value) == joined' = [joined EXCEPT ![c][target[c]] = value]

Join(c, t) ==
    /\ Calls(c, t)
    /\ IF joinable[t] /\ ~canceled[t]
       THEN /\ Continues(c, "idle", "join")
            /\ UNCHANGED <<joined, errno>>
       ELSE /\ joined' = [joined EXCEPT ![c][t] = "-1"]
            /\ errno' = "EINVAL"
            /\ cpc' = cpc
    /\ UNCHANGED <<phase, handler, data, stuck, killed>>

\* The kernel looks at the futex and lets the client wait in one step.
CoreFutexWait(c) ==
    /\ cpc[c] = "join"
    /\ IF futex[target[c]]
       THEN Continues(c, "join", "again") /\ errno' = "EAGAIN"
       ELSE Continues(c, "join", "waiting") /\ errno' = errno
    /\ UNCHANGED <<phase, handler, data, stuck, killed, target, joined, calls>>

\* errno is read after the call has returned.
JoinChecksErrno(c) ==
    /\ IF errno = "EAGAIN"
       THEN Continues(c, "again", "result") /\ joined' = joined
       ELSE Continues(c, "again", "idle") /\ JoinReturns(c, "-1")
    /\ UNCHANGED <<phase, handler, data, stuck, killed, errno, target, calls>>

JoinEnds(c) ==
    /\ Continues(c, "result", "idle")
    /\ JoinReturns(c, result[target[c]])
    /\ UNCHANGED <<phase, handler, data, stuck, killed, errno, target, calls>>

Detach(c, t) ==
    /\ Calls(c, t)
    /\ joinable' = [joinable EXCEPT ![t] = canceled[t] /\ joinable[t]]
    /\ errno' = IF canceled[t] THEN "EINVAL" ELSE errno
    /\ UNCHANGED <<phase, handler, tid, futex, result, canceled, stuck, killed, cpc, joined>>

Cancel(c, t) ==
    /\ Calls(c, t)
    /\ Continues(c, "idle", "signal")
    /\ canceled' = [canceled EXCEPT ![t] = TRUE]
    /\ UNCHANGED <<phase, handler, tid, futex, result, joinable, stuck, killed, errno, joined>>

\* tgkill fails for the tid 0 and for a thread that is gone.  The handler
\* sends the signal to its own thread again, which so never leaves it.
Signal(c) ==
    /\ Continues(c, "signal", "idle")
    /\ LET t == target[c]
           reaches == tid[t] /\ phase[t] # "exited"
       IN  /\ stuck' = IF reaches /\ handler THEN stuck \cup {t} ELSE stuck
           /\ killed' = (reaches /\ ~handler)
           /\ errno' = IF reaches THEN errno ELSE "other"
    /\ UNCHANGED <<phase, handler, data, target, joined, calls>>

InCall(c) == CoreFutexWait(c) \/ JoinChecksErrno(c) \/ JoinEnds(c) \/ Signal(c)

-----------------------------------------------------------------------------
\* The structure of a thread is in memory that mmap has zeroed.
CoreInit ==
    /\ phase = [t \in CoreThreads |-> "none"]
    /\ handler = FALSE
    /\ tid = [t \in CoreThreads |-> FALSE]
    /\ futex = [t \in CoreThreads |-> FALSE]
    /\ result = [t \in CoreThreads |-> NULL]
    /\ joinable = [t \in CoreThreads |-> FALSE]
    /\ canceled = [t \in CoreThreads |-> FALSE]
    /\ stuck = {}
    /\ killed = FALSE
    /\ errno = "other"
    /\ cpc = [c \in Clients |-> "idle"]
    /\ target = [c \in Clients |-> NULL]
    /\ joined = [c \in Clients |-> [t \in CoreThreads |-> "no"]]
    /\ calls = [c \in Clients |-> 0]

CoreNext ==
    \/ \E t \in CoreThreads :
            Wrapper(t) \/ RoutineSetsErrno(t) \/ RoutineReturns(t) \/ Create(t)
    \/ \E c \in Clients :
            \/ InCall(c)
            \/ \E t \in CoreThreads : Join(c, t) \/ Detach(c, t) \/ Cancel(c, t)

\* The kernel schedules every thread; how long a routine takes is its own
\* affair.
CoreFairness ==
    /\ \A t \in CoreThreads : WF_coreVars(Wrapper(t))
    /\ \A c \in Clients : WF_coreVars(InCall(c))

CoreSpec == CoreInit /\ [][CoreNext]_coreVars /\ CoreFairness

-----------------------------------------------------------------------------
\* cancel ends at most the thread it is for: whenever it is called, from
\* right after create on and by whichever client, SIGCANCEL never meets its
\* default action, which would end the process (wrapper installs the handler
\* before it stores the tid that cancel needs).
CancelSparesTheProcess == ~killed

\* join returns 0 only with the result of a routine that has returned; so it
\* does whatever the other threads do to the errno that they share with it,
\* which may make it fail but not succeed.
JoinReturnsResult ==
    \A c \in Clients, t \in CoreThreads : joined[c][t] \in {"no", "-1", t}

\* No wake-up is lost between the joiner's look at the futex and wrapper's
\* write of it: once the routine has returned, its joiner comes back, unless
\* the thread is cancelled or detached meanwhile, or another client joins it
\* too (futex_wake wakes one).
JoinerIsWoken ==
    \A c \in Clients, t \in CoreThreads :
        (target[c] = t /\ cpc[c] \in {"join", "waiting"} /\ phase[t] = "returned")
            ~> \/ cpc[c] \notin {"join", "waiting"}
               \/ canceled[t] \/ ~joinable[t]
               \/ \E d \in Clients \ {c} : target[d] = t
=============================================================================
