------------------------------ MODULE MyCoroutine -----------------------------
(***************************************************************************)
(* first/5-grade/my-coroutine.c: coroutines of one thread, switched round  *)
(* robin by a timer.  Every coroutine has an element in a ring of pointers *)
(* and a saved context; the handler of SIGALRM walks the ring.  SIGALRM is *)
(* blocked in the handler; everywhere else, in the insertion into the ring *)
(* and in the switch that a coroutine makes when it ends too, a tick may   *)
(* come between two steps, and so between the load and the store of one    *)
(* statement.  The coroutines are one thread and have one errno, which the *)
(* handler does not save.                                                  *)
(*                                                                         *)
(* As in first/5-grade/main.c, the main routine creates the coroutines,    *)
(* and joins, detaches and cancels them.                                   *)
(***************************************************************************)
EXTENDS Integers, FiniteSets

CONSTANTS Main,       \* the mock of the main routine
          Workers,    \* the coroutines it creates
          NULL,
          MaxCalls    \* bound: calls of join, detach and cancel

ASSUME WorkersAssumption ==
    /\ IsFiniteSet(Workers)
    /\ Main \notin Workers
    /\ NULL \notin Workers \cup {Main}

Coroutines == Workers \cup {Main}

VARIABLES ring,       \* cycle_deque_t and the pointers of its elements
          joinable, joinWait, canceled,
          joinFutex,  \* TRUE: FUTEX_FINISHED
          result,     \* of the routine: the coroutine itself stands for it
          context,    \* whose stack the saved context of an element is
          running,    \* whose stack the processor is on; NULL after a crash
          handling,   \* the handler's local current; NULL: not in the handler
          at,         \* the next step of each coroutine
          call,       \* main: the coroutine its call is about
          from,       \* switch_context's local current, for the explicit call
          calls,
          errno,      \* "EAGAIN" or "other"
          prevSeen,   \* what cycle_deque_add has loaded and not yet stored:
          sizeSeen,   \* a prev, or the size
          torn,       \* history: a tick has come where the ring is not whole
          lost,       \* history: deletions within the ++ of the size
          misled      \* history: the errno of a wait is the EAGAIN of a routine

flags == <<joinable, joinWait, canceled, joinFutex, result>>
registers == <<prevSeen, sizeSeen>>
history == <<torn, lost, misled>>
aside == <<errno, registers, history>>
coVars == <<ring, flags, context, running, handling, at, call, from, calls, aside>>

ProceedTo(c, label) == at' = [at EXCEPT ![c] = label]

-----------------------------------------------------------------------------
(* The ring.                                                               *)

\* Mutant: the element after the deleted one keeps its prev.
DeleteForward(r) ==
    LET c == r.current
    IN  IF r.size = 1 THEN [r EXCEPT !.size = 0, !.current = NULL]
        ELSE [r EXCEPT !.next[r.prev[c]] = r.next[c],
                       !.current = r.next[c], !.size = @ - 1]

\* cycle_deque_delete: the current element.  The stack of a coroutine is
\* never set, so nothing is freed.
Delete(r) ==
    LET c == r.current
    IN  IF r.size = 1 THEN [r EXCEPT !.size = 0, !.current = NULL]
        ELSE [r EXCEPT !.next[r.prev[c]] = r.next[c], !.prev[r.next[c]] = r.prev[c],
                       !.current = r.next[c], !.size = @ - 1]

\* Mutant: the walk takes every second element.
AdvanceTwice(r) == [r EXCEPT !.current = r.next[r.next[r.current]]]

\* cycle_deque_next.
Advance(r) == [r EXCEPT !.current = r.next[r.current]]

-----------------------------------------------------------------------------
(* The timer, and switch_context.                                          *)

\* Where the insertion or the explicit switch has changed one pointer of two:
\* the prev of the current element is read before the list is linked to the
\* new one, and the ring's current is no longer the running coroutine.
Windows == {"add2", "add3", "switch1", "delete2"}

\* A coroutine executes its own code: there is no signal to handle.
Runs(c) == running = c /\ handling = NULL

\* sigalarm_handler calls switch_context.  A coroutine waiting in futex_wait
\* will leave it with EINTR.
Tick ==
    /\ running # NULL
    /\ handling = NULL
    /\ at[Main] # "ended"
    /\ torn' = (torn \/ at[running] \in Windows)
    /\ handling' = ring.current
    /\ ring' = Advance(ring)
    /\ at' = IF at[running] = "waiting" THEN [at EXCEPT ![running] = "interrupted"]
             ELSE at
    /\ UNCHANGED <<flags, context, running, call, from, calls, errno, registers,
                   lost, misled>>

\* wrapper calls switch_context, with SIGALRM not blocked.
SwitchBegins(w) ==
    /\ Runs(w)
    /\ at[w] = "switch0"
    /\ from' = [from EXCEPT ![w] = ring.current]
    /\ ring' = Advance(ring)
    /\ ProceedTo(w, "switch1")
    /\ UNCHANGED <<flags, context, running, handling, call, calls, aside>>

\* The loop that looks for a coroutine to run, in either call.
InLoop == running # NULL /\ (handling # NULL \/ at[running] = "switch1")

SwitchPasses ==
    /\ InLoop
    /\ ~canceled[ring.current]
    /\ joinWait[ring.current]
    /\ ring' = Advance(ring)
    /\ UNCHANGED <<flags, context, running, handling, at, call, from, calls, aside>>

\* The size that cycle_deque_add is about to store does not count a deletion.
CountLost == lost' = IF at[Main] = "add5" THEN lost + 1 ELSE lost

\* A cancelled one is deleted; after the last element there is a NULL to read.
HandlerDeletes ==
    /\ InLoop
    /\ handling # NULL \/ ring.size = 1
    /\ canceled[ring.current]
    /\ ring' = Delete(ring)
    /\ running' = IF ring.size = 1 THEN NULL ELSE running
    /\ CountLost
    /\ UNCHANGED <<flags, context, handling, at, call, from, calls, errno, registers,
                   torn, misled>>

\* In the explicit call a tick may find only the first of the two pointers
\* set.
SwitchUnlinks(w) ==
    /\ Runs(w)
    /\ at[w] = "switch1"
    /\ canceled[ring.current]
    /\ ring.size # 1
    /\ ring' = [ring EXCEPT !.next[ring.prev[ring.current]] = ring.next[ring.current]]
    /\ ProceedTo(w, "delete2")
    /\ UNCHANGED <<flags, context, running, handling, call, from, calls, aside>>

SwitchDeletes(w) ==
    /\ Runs(w)
    /\ at[w] = "delete2"
    /\ ring' = Delete(ring)
    /\ ProceedTo(w, "switch1")
    /\ CountLost
    /\ UNCHANGED <<flags, context, running, handling, call, from, calls, errno,
                   registers, torn, misled>>

\* swapcontext.  (The explicit call's own context is never resumed: its
\* coroutine has ended.)
SwitchEnds ==
    /\ InLoop
    /\ ~canceled[ring.current]
    /\ ~joinWait[ring.current]
    /\ context' = [context EXCEPT
                     ![IF handling # NULL THEN handling ELSE from[running]] = running]
    /\ running' = context'[ring.current]
    /\ handling' = NULL
    /\ UNCHANGED <<ring, flags, at, call, from, calls, aside>>

-----------------------------------------------------------------------------
(* wrapper: the life of a coroutine.                                       *)

\* A call of a routine fails, for one with EAGAIN.  If main is about to look at
\* the errno of its wait, this is the one that it will find.
RoutineSetsErrno(w) ==
    /\ Runs(w)
    /\ at[w] = "routine"
    /\ errno' \in {"EAGAIN", "other"}
    /\ misled' = IF at[Main] = "joinTest" THEN errno' = "EAGAIN" ELSE misled
    /\ UNCHANGED <<ring, flags, context, running, handling, at, call, from, calls,
                   registers, torn, lost>>

RoutineReturns(w) ==
    /\ Runs(w)
    /\ at[w] = "routine"
    /\ result' = [result EXCEPT ![w] = w]
    /\ ProceedTo(w, "check")
    /\ UNCHANGED <<ring, joinable, joinWait, canceled, joinFutex, context, running, handling,
                   call, from, calls, aside>>

CheckJoinable(w) ==
    /\ Runs(w)
    /\ at[w] = "check"
    /\ ProceedTo(w, IF joinable[w] THEN "setWait" ELSE "setCanceled")
    /\ UNCHANGED <<ring, flags, context, running, handling, call, from, calls, aside>>

SetJoinWait(w) ==
    /\ Runs(w)
    /\ at[w] = "setWait"
    /\ joinWait' = [joinWait EXCEPT ![w] = TRUE]
    /\ ProceedTo(w, "setFutex")
    /\ UNCHANGED <<ring, joinable, canceled, joinFutex, result, context, running, handling,
                   call, from, calls, aside>>

\* futex_wake wakes nobody: a coroutine that runs has no other waiting in the
\* kernel, for they share a thread.
SetFutex(w) ==
    /\ Runs(w)
    /\ at[w] = "setFutex"
    /\ joinFutex' = [joinFutex EXCEPT ![w] = TRUE]
    /\ ProceedTo(w, "switch0")
    /\ UNCHANGED <<ring, joinable, joinWait, canceled, result, context, running, handling,
                   call, from, calls, aside>>

SetCanceled(w) ==
    /\ Runs(w)
    /\ at[w] = "setCanceled"
    /\ canceled' = [canceled EXCEPT ![w] = TRUE]
    /\ ProceedTo(w, "switch0")
    /\ UNCHANGED <<ring, joinable, joinWait, joinFutex, result, context, running, handling,
                   call, from, calls, aside>>

Wrapper(w) ==
    \/ CheckJoinable(w) \/ SetJoinWait(w) \/ SetFutex(w) \/ SetCanceled(w)
    \/ SwitchBegins(w) \/ SwitchUnlinks(w) \/ SwitchDeletes(w)

-----------------------------------------------------------------------------
(* mycoroutine_create, called by main: the stack and the context, then     *)
(* cycle_deque_add, whose five assignments may be interrupted.  Three of    *)
(* them load a value that a tick may change before they store it: such a   *)
(* load is part of the step before, so that a tick may come in between.    *)
(* (One between that step's store and the load does what it does before    *)
(* the store, which no handler looks at.)                                  *)

Created == {w \in Workers : at[w] # "none"}

Create(w) ==
    /\ Runs(Main)
    /\ at[Main] = "main"
    /\ at[w] = "none"
    /\ at' = [at EXCEPT ![Main] = "add1", ![w] = "routine"]
    /\ call' = w
    /\ joinable' = [joinable EXCEPT ![w] = TRUE]
    /\ UNCHANGED <<ring, joinWait, canceled, joinFutex, result, context, running, handling,
                   from, calls, aside>>

\* The new element goes before the current one, which is main's.
Add ==
    /\ Runs(Main)
    /\ \/ /\ at[Main] = "add1"
          /\ ring' = [ring EXCEPT !.next[call] = ring.current]
          /\ prevSeen' = ring.prev[ring.current]
          /\ ProceedTo(Main, "add2")
          /\ UNCHANGED sizeSeen
       \/ /\ at[Main] = "add2"
          /\ ring' = [ring EXCEPT !.prev[call] = prevSeen]
          /\ prevSeen' = ring.prev[ring.current]
          /\ ProceedTo(Main, "add3")
          /\ UNCHANGED sizeSeen
       \/ /\ at[Main] = "add3"
          /\ ring' = [ring EXCEPT !.next[prevSeen] = call]
          /\ prevSeen' = NULL
          /\ ProceedTo(Main, "add4")
          /\ UNCHANGED sizeSeen
       \/ /\ at[Main] = "add4"
          /\ ring' = [ring EXCEPT !.prev[ring.current] = call]
          /\ sizeSeen' = ring.size
          /\ ProceedTo(Main, "add5")
          /\ UNCHANGED prevSeen
       \/ /\ at[Main] = "add5"
          /\ ring' = [ring EXCEPT !.size = sizeSeen + 1]
          /\ sizeSeen' = 0
          /\ ProceedTo(Main, "main")
          /\ UNCHANGED prevSeen
    /\ UNCHANGED <<flags, context, running, handling, call, from, calls, errno, history>>

-----------------------------------------------------------------------------
(* The other calls of main.                                                *)

Calls(w) ==
    /\ Runs(Main)
    /\ at[Main] = "main"
    /\ w \in Created
    /\ calls < MaxCalls
    /\ calls' = calls + 1
    /\ call' = w

\* mycoroutine_join: EINVAL, or futex_wait.
Join(w) ==
    /\ Calls(w)
    /\ IF joinable[w] /\ ~canceled[w]
       THEN ProceedTo(Main, "join") /\ errno' = errno
       ELSE errno' = "other" /\ at' = at
    /\ UNCHANGED <<ring, flags, context, running, handling, from, registers, history>>

\* futex_wait returns -1 with EAGAIN at once, or blocks the only thread there
\* is, until a tick makes it return -1 with EINTR.
JoinWaits ==
    /\ Runs(Main)
    /\ \/ /\ at[Main] = "join"
          /\ joinFutex[call]
          /\ errno' = "EAGAIN"
          /\ ProceedTo(Main, "joinTest")
       \/ /\ at[Main] = "join"
          /\ ~joinFutex[call]
          /\ ProceedTo(Main, "waiting")
          /\ UNCHANGED errno
       \/ /\ at[Main] = "interrupted"
          /\ errno' = "other"
          /\ ProceedTo(Main, "joinTest")
    /\ UNCHANGED <<ring, flags, context, running, handling, call, from, calls,
                   registers, history>>

\* Mutant: whatever has ended the wait counts as the end of the coroutine.
JoinTestsNothing ==
    /\ Runs(Main)
    /\ at[Main] = "joinTest"
    /\ ProceedTo(Main, "joinResult")
    /\ UNCHANGED <<ring, flags, context, running, handling, call, from, calls, aside>>

\* errno is read after the wait: EAGAIN is success, anything else cancels the
\* coroutine and join has failed.
JoinTest ==
    /\ Runs(Main)
    /\ at[Main] = "joinTest"
    /\ IF errno = "EAGAIN"
       THEN ProceedTo(Main, "joinResult") /\ canceled' = canceled
       ELSE ProceedTo(Main, "main") /\ canceled' = [canceled EXCEPT ![call] = TRUE]
    /\ UNCHANGED <<ring, joinable, joinWait, joinFutex, result, context, running, handling,
                   call, from, calls, aside>>

\* The result is fetched ...
JoinResult ==
    /\ Runs(Main)
    /\ at[Main] = "joinResult"
    /\ ProceedTo(Main, "joinEnd")
    /\ misled' = FALSE
    /\ UNCHANGED <<ring, flags, context, running, handling, call, from, calls, errno, registers,
                   torn, lost>>

\* ... and the coroutine, which has ended, cancelled.
JoinEnd ==
    /\ Runs(Main)
    /\ at[Main] = "joinEnd"
    /\ canceled' = [canceled EXCEPT ![call] = TRUE]
    /\ ProceedTo(Main, "main")
    /\ UNCHANGED <<ring, joinable, joinWait, joinFutex, result, context, running, handling,
                   call, from, calls, aside>>

\* mycoroutine_detach: EINVAL, or no longer joinable; then join_wait is read.
Detach(w) ==
    /\ Calls(w)
    /\ IF canceled[w] THEN errno' = "other" /\ UNCHANGED <<joinable, at>>
       ELSE /\ joinable' = [joinable EXCEPT ![w] = FALSE]
            /\ ProceedTo(Main, "detach")
            /\ UNCHANGED errno
    /\ UNCHANGED <<ring, joinWait, canceled, joinFutex, result, context, running, handling,
                   from, registers, history>>

DetachEnd ==
    /\ Runs(Main)
    /\ at[Main] = "detach"
    /\ canceled' = [canceled EXCEPT ![call] = canceled[call] \/ joinWait[call]]
    /\ ProceedTo(Main, "main")
    /\ UNCHANGED <<ring, joinable, joinWait, joinFutex, result, context, running, handling,
                   call, from, calls, aside>>

Cancel(w) ==
    /\ Calls(w)
    /\ canceled' = [canceled EXCEPT ![w] = TRUE]
    /\ UNCHANGED <<ring, joinable, joinWait, joinFutex, result, context, running, handling, at,
                   from, aside>>

\* main_routine returns: scheduler_init stops the timer and the program ends.
MainReturns ==
    /\ Runs(Main)
    /\ at[Main] = "main"
    /\ ProceedTo(Main, "ended")
    /\ UNCHANGED <<ring, flags, context, running, handling, call, from, calls, aside>>

Loop == SwitchPasses \/ HandlerDeletes \/ SwitchEnds
InCall == Add \/ JoinWaits \/ JoinTest \/ JoinResult \/ JoinEnd \/ DetachEnd

-----------------------------------------------------------------------------
\* scheduler_init has put the mock of the main routine in the ring.
CoInit ==
    /\ ring = [next |-> [c \in Coroutines |-> Main], prev |-> [c \in Coroutines |-> Main],
               current |-> Main, size |-> 1]
    /\ joinable = [c \in Coroutines |-> FALSE]
    /\ joinWait = [c \in Coroutines |-> FALSE]
    /\ canceled = [c \in Coroutines |-> FALSE]
    /\ joinFutex = [c \in Coroutines |-> FALSE]
    /\ result = [c \in Coroutines |-> NULL]
    /\ context = [c \in Coroutines |-> c]
    /\ Runs(Main)
    /\ at = [c \in Coroutines |-> IF c = Main THEN "main" ELSE "none"]
    /\ call = NULL
    /\ from = [w \in Workers |-> w]
    /\ calls = 0
    /\ errno = "other"
    /\ prevSeen = NULL
    /\ sizeSeen = 0
    /\ torn = FALSE
    /\ lost = 0
    /\ misled = FALSE

CoNext ==
    \/ Tick
    \/ Loop
    \/ \E w \in Workers : RoutineSetsErrno(w) \/ RoutineReturns(w)
    \/ \E w \in Workers : Wrapper(w)
    \/ \E w \in Workers : Create(w) \/ Join(w) \/ Detach(w) \/ Cancel(w)
    \/ InCall
    \/ MainReturns

\* The timer is periodic, and the processor goes on with the code that it is
\* in; what the routines and main do next is up to them.
CoFairness ==
    /\ WF_coVars(Tick)
    /\ WF_coVars(Loop)
    /\ WF_coVars(InCall)
    /\ \A w \in Workers : WF_coVars(Wrapper(w))

CoSpec == CoInit /\ [][CoNext]_coVars /\ CoFairness

-----------------------------------------------------------------------------
\* Wherever the ticks come, a wait cut short by the timer is a failure and no
\* result: join goes on to fetch the result and to return 0 only when the
\* routine has returned and the result is there (mycoroutine_join, wrapper).
\* There is one exception: a tick between the wait and the look at errno, and a
\* routine that leaves its EAGAIN there meanwhile.
JoinReturnsResult ==
    at[Main] = "joinResult" => result[call] = call \/ misled

Runnable(c) == ~canceled[c] /\ ~joinWait[c]

\* The elements that the scheduler can reach.
Reached ==
    LET walk[n \in 0..Cardinality(Coroutines)] ==
            IF n = 0 THEN {ring.current}
            ELSE LET w == walk[n - 1] IN w \cup {ring.next[c] : c \in w}
    IN  walk[Cardinality(Coroutines)]

Inserted == IF at[Main] \in {"add1", "add2", "add3"} THEN Created \ {call} ELSE Created

\* Unless a tick has come in one of the windows, the ring is whole whatever
\* it has been interrupted in: every coroutine that may still run is in it,
\* with its own context; the pointers agree in both directions and the size
\* with their number, but where a step is half done; and the coroutine that
\* runs is the current one, so that the next tick saves it in its own place
\* (cycle_deque_add, cycle_deque_delete, switch_context).  The size exceeds
\* the number by the deletions that have come within its increment.
RingIsWhole ==
    ~torn =>
        LET inAdd == at[Main] \in {"add4", "add5"}
            inSwitch == handling # NULL \/ at[running] \in {"switch1", "delete2"}
        IN  /\ running # NULL
            /\ Main \in Reached
            /\ \A w \in Inserted : ~canceled[w] => w \in Reached
            /\ (at[Main] # "add4" /\ at[running] # "delete2")
                    => \A c \in Reached : ring.prev[ring.next[c]] = c
            /\ (~inAdd /\ at[running] # "delete2") => ring.size = Cardinality(Reached) + lost
            /\ ~inSwitch => ring.current = running
            /\ \A c \in Inserted \cup {Main} :
                    (c # running /\ Runnable(c)) => context[c] = c

\* Unless a tick comes in one of the windows, round robin starves nobody:
\* main, and every coroutine in the ring that has neither ended nor been
\* cancelled, gets the processor again (switch_context).
RunsAgain ==
    [](~torn) =>
        \A c \in Coroutines :
            (c \in Inserted \cup {Main} /\ Runnable(c))
                ~> (running = c \/ ~Runnable(c) \/ at[Main] = "ended")
=============================================================================
