# TLA+ models of the operating systems exercises

The repository holds one student's exercises of an operating systems course:
small C programs on threads, locks and queues, and one larger C++ program, a
caching HTTP proxy. They are separate programs. What they share is the subject:
shared memory, threads and blocking, where tests say little. This directory
models the programs that have such a core.

Contents: 1 the system, 2 the modules, 3 the runs, 4 fairness, 5 the proofs,
6 findings, 7 what is not modelled, 8 the plan.

## 1. The system

### 1.1 HTTP proxy (`src/third/5-grade/http-proxy/httpproxy`)

| part | state | operations |
|---|---|---|
| `HttpProxy` (`httpproxy.cpp`) | listening socket, set of created threads under a mutex | accept loop, one detached thread per connection (held back by a promise until it is registered), SIGINT handler |
| `SingleHostServer` (`singlehostserver.cpp`) | client descriptor, parsed request, position in `serve` | read the request, ask the cache, connect, send, receive, reply, hand the response to the cache |
| `HttpCacher` (`httpcacher.cpp`) | map of responses under a mutex, FIFO queue of events, `waiters` (local to the event thread), two threads | `getCache`, `cache`; event thread: REQUEST, ANSWER; cleaner thread: drop old entries |
| `blocking_queue` (`blockingqueue.h`) | a deque, a mutex, a condition variable | `push`, `pop` |
| `httpparser` | the state of a parser, the message it fills | `HttpRequestParser`, `HttpResponseParser`: one byte at a time; `UrlParser`: a whole string; vendored (Alex Nekipelov). The proxy runs the request parser; its response parser is a member that is never called, and the URL parser is not used |

A connection thread calls `getCache`, which puts a REQUEST with a pointer to a
promise on its own stack into the queue and waits. The event thread answers
from the map; or tells the first asker "no cache", which makes that thread the
one that fetches; or parks the promise in `waiters`. The thread that fetches
replies to its own client and then calls `cache`, which queues an ANSWER; the
event thread satisfies everybody parked and inserts the response. The cleaner
works on the same map on its own schedule.

Around them is the process: the main thread creates a connection thread, holds
it back with a promise until it is in the registry, and a connection thread
takes itself out of the registry when `serve` has returned. The SIGINT handler
locks the registry's mutex on the stack of the thread it interrupts, cancels
every thread in the registry and ends the process.

Hard behaviours: promises live on the stacks of other threads; the order of
REQUEST and ANSWER events of several threads; the cleaner reads the clock
before it takes the lock; every error path between "no cache" and `cache`; a
thread that ends about when it is registered; a signal while the interrupted
thread holds the mutex; a request that the network cuts into pieces, of which
the first are parsed again.

Correct means: a request is fetched by one thread at a time; each promise is
satisfied exactly once and never after its stack frame is gone; nobody who asks
waits for ever; an entry is served neither for too long nor dropped too soon;
the registry holds the threads that exist; what is parsed is what was sent.

### 1.2 Locks (`src/second/5-grade/my-mutex`, `my-spinlock`)

| part | state | operations |
|---|---|---|
| `my-mutex.c` | one futex word: `UNLOCKED`, `LOCKED_NO_WAITERS`, `LOCKED_WITH_WAITERS` | `my_mutex_lock` (compare-and-swap, exchange, `FUTEX_WAIT`), `my_mutex_unlock` (`atomic_fetch_sub`, store, `FUTEX_WAKE`) |
| `my-spinlock.c` | one word: 1 free, 0 taken | `my_spin_lock`, `my_spin_unlock`, both a compare-and-exchange |

Hard behaviours: a thread arrives between any two accesses of an unlock; one
wake-up reaches one of several sleepers; a signal ends a `FUTEX_WAIT`.
Correct means: mutual exclusion, no wake-up lost, somebody always gets in.

### 1.3 The list of locked nodes (`src/second/4-grade/2_3/{rwlock,mutex,spinlock}.c`, and `main.c` of both lock programs)

Five programs share this code and differ in the lock. State: 100 nodes, each
with a string, a lock and `next`. Three checkers walk the list hand over hand
and compare neighbours; three swappers walk it hand over hand and turn two
neighbours round under three locks, in three stores. A last thread prints
counters. Hard behaviours: stores to the list others are walking; every walk
waits for a lock while it holds others, in an order the swaps themselves
change. Correct means: the list keeps all its nodes, a checker passes each node
once, no walk gets stuck, `NULL` is neither locked nor followed.

### 1.4 The bounded queues (`src/second/3-grade/2_2`)

A bounded list of integers with `queue_add` and `queue_get`, used by one writer
(`queue_add(q, i)`, `i++`) and one reader that compares each value with the one
it expects (`queue-threads.c`). The exercise is the synchronisation:

| directory | synchronisation | waiting |
|---|---|---|
| `a`, `d`: `queue.c` (the same code) | spinlock made of an exchange on `is_modifying` | polling |
| `e/withoutsleep/old`, `e/withsleep/old`; `pthreads_spin_queue_combined.c` of `a` and `d` | one mutex (or `pthread_spinlock_t`) around everything | polling |
| `e/withoutsleep/new`; `a/test_spin_queue.c` | around the list and the count; a node is made before and freed after | polling |
| `e/withsleep/new`; `d/test_spin_queue.c` | around the list only, an `atomic_int` count outside it | polling |
| `f/withoutsleep/old`, `f/withoutsleep/.new`, `f/withsleep/old` (the same code) | mutex, two condition variables | sleeping |
| `g/withoutsleep/old` | three semaphores | sleeping |
| `g/withoutsleep/new` (`queue.c`, `mock.c`) | a semaphore per end of the list | sleeping |
| `sync`, `src/second/3-grade/2_1/sync` | none, a data race by design | polling |

A monitor thread prints the counters without a lock. `queue_destroy` is never
called. Hard behaviours: conditions that are stale after a wake-up, signals
that reach the wrong thread, counters that have to agree with a list, full and
empty decided before the lock is taken. Correct means: first in, first out,
each value once, never more than `max_count`, no assertion fails, no sleeper is
forgotten.

### 1.5 Threads of their own (`src/first`)

| part | state | operations |
|---|---|---|
| `5-grade/my-coroutine.c` | a ring of elements with `next` and `prev`, its `current` and `size`; per coroutine a context and the flags `joinable`, `join_wait`, `canceled`, `join_futex`; one `errno` for all coroutines, which are one thread | create, join, detach, cancel; `SIGALRM` every 50 ms, whose handler switches to the next element; the switch a coroutine makes when it ends |
| `4-grade/my-core-threads.c` | per thread `tid`, a futex, `result`, `joinable`, `canceled`; the handler of `SIGCANCEL`; one `errno` for all threads (no `CLONE_SETTLS`) | create (`clone`), join (`FUTEX_WAIT`), detach, cancel (`tgkill`) |

Hard behaviours: a preemption between any two statements of the library itself,
the insertion into the ring the preemption walks included; a futex wait that
the timer always interrupts, and an `errno` that the handler does not save;
detach and cancel against the end of the thread; a
signal to a thread that has no handler yet. Correct means: the ring keeps every
coroutine that can run, none is starved, a joiner is woken and gets the result
or an error, cancelling a thread does not end the process.
`3-grade/*` are demonstrations of single pthread calls and have no state of
their own.

## 2. The modules

| module | what it is |
|---|---|
| `HttpCacher` | the cache: events, waiters, promises, map, cleaner, clock |
| `SingleHostServer` | EXTENDS it with `serve` in the connection threads |
| `HttpProxy` | EXTENDS that with the process: the accept loop, the registry, the start and the end of a thread, SIGINT |
| `RequestCoalescing` | abstract: what the cache promises its callers |
| `ProxyRefinement` | the mapping from the proxy to `RequestCoalescing` |
| `MCProxy` | composes `HttpProxy` and `ProxyRefinement` for TLC, with symmetry |
| `HttpParser` | what the two HTTP parsers share: classes of bytes, header lines, bodies |
| `HttpRequestParser`, `HttpResponseParser`, `UrlParser` | one step of each parser, and the splitting of a Host header |
| `MessageReading` | the parsers at work: `readClientRequest` receives and parses in pieces; a response, a URL or a Host value is parsed in one call |
| `MCParsers` | the messages for TLC, written by the grammar of HTTP and of URLs |
| `MyMutex`, `MySpinlock` | the two locks, every atomic access an action |
| `Lock` | abstract: what a lock promises; both implement it |
| `MCLocks` | a program with the one or the other, for TLC |
| `NodeStorage` | the list of locked nodes with its checkers and swappers |
| `QueueThreads` | `queue-threads.c`: writer, reader, and the reader's check |
| `CondQueue`, `SemQueue`, `MutexQueue`, `SpinQueue` | EXTEND it with the `queue_add` and `queue_get` of `f`; `g/withoutsleep/old`; `e` and the `pthread_spinlock_t` files; `a` and `d` |
| `BoundedQueue` | abstract: a bounded FIFO queue between such threads; the first three implement it |
| `MyCoroutine` | the coroutines, their ring and their timer |
| `MyCoreThreads` | the threads made with `clone` and their clients |
| `...Proofs` | theorems, section 5 |

Correspondence with the code:

- A program counter (`pc`, `eventPc`, `cleanerPc`) stands for the position in
  the function named in the comment. An action is one stretch between two
  points at which other threads can see a difference. Under a lock that is
  itself modelled as excluding (`q->mutex`, `sem_modify`, the cache's mutex) a
  stretch is one action; that `sem_modify` excludes is part of the invariant
  behind `SemaphoresMatchList` (`ListIsGuarded` in `SemQueueProofs`).
  Where the exclusion is what is in doubt (`SpinQueue`, the stores of
  `NodeStorage`), statements are actions of their own.
- A promise on a stack is named by the thread that owns it. A response is left
  out: an entry of the cache is its age. A request is a value, with two
  attributes: it is a GET, it has a Host header.
- Time is counted in ticks. The cleaner's period is a quarter of the timeout,
  as in the code; `MaxDelay` bounds how late the scheduler may run it.
- Each call of `serve` that the code lets fail is a member of `FailPoints`, and
  fails or not by choice. A failed connect is not looked at: the write to the
  descriptor -1 fails (`sendBadFD`).
- In `MyMutex` the comparison of line 39 is modelled as C binds it: `c` is a
  truth value. `FUTEX_WAIT` compares and sleeps in one step, as the kernel
  does; `FUTEX_WAKE` wakes any one sleeper; a signal ends a sleep, and with it
  the call.
- In `NodeStorage` a lock is the set of its holders. `SharedReading` tells
  `rwlock.c` from the four programs whose locks exclude everybody. `seen` is a
  history variable.
- `MutexQueue` has one variable more than the programs, `discipline`, chosen
  once: which of the three ways to use the lock the program has. Its list is
  `first`, `last` and `next`, a node is named by its value, and `freed` is a
  history variable: some programs test and free after the unlock.
- In `CondQueue` and `SemQueue`, where only one thread at a time can touch the
  list, it is a sequence.
  In `SpinQueue`, where two can, it is `first`, `last` and `next`; a freed node
  keeps its fields, which is one of the outcomes its use can have; `count` is
  changed in one step there, although it is a plain `int`. The model therefore
  has fewer behaviours than the program, and what it finds is real.
- In `HttpProxy` the handler runs on the main thread, which therefore stops
  (`process`), and the mutex of the registry has an owner. `pthread_cancel` of
  every thread and `std::terminate` are one step (`HandlerTerminates`). In the
  code a cancelled thread may unwind in between: its promise goes while the
  cache still points to it, and it stays in the registry, as it does not get to
  its own erase. What another thread could see of that ends with the process.
- In `MessageReading` a symbol is a byte or a run of bytes that no state of a
  parser tells apart (a word). A message carries what its writer meant by it,
  and the properties compare this with the parser's result. A request arrives
  in up to `MaxRecv` pieces, cut anywhere. As in the code, the parser keeps its
  state from one piece to the next although it is given the data from the
  beginning.
- A number of a header or a chunk (`NumberOf`) is what `atoi` and `strtol` make of
  it: blanks and a sign are skipped, the digits end at the first byte that is
  none. It goes into `std::string::reserve`, which throws for a negative or a
  huge one, and nobody catches it: the result is "terminated". `MaxSize` stands
  for the size at which that happens.
- In `MyCoroutine` one processor executes one coroutine: `running` says whose
  stack it is on, `handling` whether it is in the handler of `SIGALRM`, in
  which the signal is blocked. Each store to a pointer of the ring that a tick
  may separate from the next is a step. A statement that loads what it stores
  may be cut in two as well: what it has loaded is in `prevSeen` and `sizeSeen`.
  A deletion within `++d->size` is lost to the size, and `lost` counts them.
  `errno` is one variable. A wait that ends sets it, a routine may leave `EAGAIN`
  there or anything else, the handler does not save it, and `join` looks at it
  one step after its wait; `misled` remembers that a routine came in
  between. `context[e]` is whose stack the context saved in an element is, so
  that a context saved in the wrong element is a state of the model.
- In `MyCoreThreads` `phase` is the position in `wrapper`, `cpc` that of a
  client in its call. A `SIGCANCEL` whose handler is installed keeps its thread
  for ever, because the handler sends the signal to itself; one without ends
  the process.
- Identical code in several programs is modelled once; PROJECT.json's map
  spreads the definitions over the copies.

## 3. The runs

| run | instance | what it shows |
|---|---|---|
| `proxy_safety` | 3 connection threads; a GET with a Host header, one without, a POST; every call of `serve` may fail; timeout 4, period 1, no delay | one fetch at a time (`SingleFlight`), the fetches after an eviction included; exactly one pointer to each waiting promise and none to an answered one (`PromiseOwnership`); the abstract cache with its evictions is implemented (`ImplementsCoalescing`) |
| `proxy_fair` | 2 threads, one GET, no failure in `serve`; timeout 4, period 1, delay up to 1; SIGINT and a failing `accept` | whoever is parked has a fetch on its way (`WaitersHaveFlight`), so every `getCache` returns (`CallersAreAnswered`); entries expire, not early and at most a period and three delays late; the registry is exact; SIGINT ends the process |
| `proxy_orphans` | 2 threads, the connect may fail | *violation*: see section 6 |
| `parsers` | requests with no body, a length (with blanks, or negative) or chunks (or one too large), behind methods that have a body and that have none, and with a NUL in every place of the head; the line without a version, with its LF and without; responses with a length, chunks or a body that ends with the connection; URLs with every part present or not, with passwords of digits and hosts in brackets, and strings that are none; Host values; up to 3 pieces; clients that go away | what is read is what was written, to the last byte that belongs to it; the program aborts or terminates for the inputs named and for no other; no part of a request is taken for the whole, and a GET is whole however it was cut |
| `locks` | 5 threads on the mutex, with signals; or 6 on the spinlock | a lock, no lost wake-up, somebody always gets in |
| `storage` | 4 nodes, 3 checkers sharing locks, 2 swappers | whole list, every node checked once per pass, stores only under an exclusive lock, every walk ends |
| `condqueue` | 2 writers, 2 readers, room for 2, spurious wake-ups | FIFO queue, no signal lost, every value gets through |
| `semqueue` | 2 + 2, room for 2 | semaphores match the list, assertions hold, FIFO queue, every value gets through |
| `mutexqueue` | 1 + 1, room for 3, 12 values, all three disciplines | what each program leaves outside its lock does no harm to one writer and one reader: no freed node is touched, the asserted bounds hold, FIFO queue, every value gets through |
| `spinqueue_order` | 1 + 1, room for 3, 5 values | *violation*: see section 6 |
| `coroutines` | the main routine and 2 coroutines, 3 calls, a tick between any two steps, a routine that may set `errno` | `join` reports the result or fails, unless a routine's `EAGAIN` misleads it; outside three windows the ring stays whole and round robin starves nobody |
| `corethreads` | 2 threads, 2 clients with 2 calls each | cancel never ends the process, join never invents a result, a joiner is woken |

The bounds and why they are enough:

- *Threads of the proxy*: with three, one fetches, one is parked and one asks
  again while the answer is on its way. Three requests cover the three paths of
  `serve`; requests for different keys meet only in the queue. Two threads are
  enough where nothing fails: one fetches, one is parked or is being created.
  There is no SIGINT in `proxy_safety`, as it only stops threads; that nothing
  new can happen after it is proved (`ProxyRunsServers`).
- *Timing*: one entry suffices, as entries age independently of each other.
  Timeout 4 and period 1 have the ratio of the code (2000 and 500 ms).
  So has `proxy_safety`, without a delay: entries age, are served from the cache,
  are evicted, and are asked for and fetched again by another thread.
- *Messages*: three pieces are a first one, one that is parsed on top of it, and
  one more. The alphabet has every byte a state of a parser asks for, and
  digits 0, 1 and 2, so that lengths and chunk sizes of one and two digits and
  ports occur. The messages are all combinations of a few kinds of each part.
- *Mutex*: a holder, a sleeper, one that is being woken, one that arrives, and
  one whose call a signal ends. The spinlock has the six threads of the list
  programs.
- *List*: with four nodes two swappers can work on overlapping triples, and each
  can be first, in the middle or last. What holds with shared locks holds with
  exclusive ones: those only remove steps.
- *Queues*: the programs have one writer and one reader, but the queues claim
  more. Two of each is the least number at which a signal can reach the wrong
  thread and a woken one be overtaken. `Capacity` 2 leaves a queue that is
  neither full nor empty. `MutexQueue` is right for one of each only: two
  writers could both see the last free place.
- *`INT_MAX`* stands for the end of the range of the writer's `int`, after which
  `i++` is undefined: the models end there. It makes the queue models finite and
  is far smaller than 2^31 - 1, so the liveness properties of the queues say
  that each of a bounded number of values gets through; `Finished` is the state
  in which the writers are done and the readers wait.
- *Coroutines and threads*: two, so that a tick finds another to run, and two
  clients race with one another. `MaxCalls` bounds join, detach and cancel; three
  are enough for a detach, a cancel and a join of one coroutine in any order.
- *Symmetry* is used in `proxy_safety` only, which has no liveness property, and
  permutes threads that nothing tells apart.
- *Deadlock* is checked except where the program may really stop: the proxy runs,
  whose process ends, and in which a SIGINT may meet its mutex held;
  `coroutines` and `corethreads`, which end with main, by a crash in a
  window, or with a client that waits for a cancelled thread; `parsers`, whose
  messages end; `spinqueue_order`, where the reader may be about to follow
  `NULL`. In these, the liveness properties tell a wanted end from a stop, but
  for `spinqueue_order` and `parsers`, which have none.

Conditions in the properties, each because the code does break without it:

- `CallersAreAnswered` and `EntriesExpire` are about runs without a SIGINT, and
  `InterruptEndsProcess` about one that does not meet the main thread with the
  mutex of the registry: then `signalHandler` waits for the thread it runs on.
- `SomebodyEnters` allows that nobody wants the mutex any more, since a signal
  makes `my_mutex_lock` return without it.
- `EverythingPasses` of `CondQueue` allows for endless spurious wake-ups: they can
  keep the mutex busy.
- `RingIsWhole` and `RunsAgain` hold while no tick has come in one of three
  windows (`Windows`): in `cycle_deque_add`, from the read of `current->prev` in
  line 105 to the store to its `next` in line 106 (the ring may have changed or
  have moved on), and after the explicit switch of an ending coroutine has moved
  `current` or has set one of two pointers, when the handler saves the context
  in the wrong element or walks half a deletion. In these windows the ring
  really breaks; `torn` remembers that one was hit. No comment, test or document
  of the repository says that it would not, so that no run refutes anything:
  what happens there is described here and left out of the two properties.
- In `RingIsWhole` the size may exceed the number of elements by `lost`, the
  deletions that have come between the load and the store of `++d->size`. The
  code looks at the size only to see whether it is 1.
- `JoinReturnsResult` has one exception, `misled`: a tick behind the wait
  (`my-coroutine.c:288`) and before the look at `errno` (line 290), and a routine
  that leaves `EAGAIN` meanwhile. Then `join` returns 0 without a result. Nothing
  in the repository says that routines keep `errno`, or that they do not.
- `RequestUnderstood` does not expect a wrong byte to be refused in the place of
  the last LF of a head with a body: `httprequestparser.h:244-253` takes any byte
  there. It counts to a request what the parser reads: up to the CR of a line
  without a version, whose LF is left over, and no body behind a method other
  than POST and PUT.
- `AddressUnderstood` names the URLs that abort the program (`UrlAborts`): a
  password of digits only, a host in brackets behind a user, and a port that no
  "/" follows.
- `JoinerIsWoken` is about a thread that is neither cancelled nor detached
  meanwhile and has no second joiner, as `futex_wake` wakes one.

Every property has a mutant of the code, defined in the module just before the
definition it replaces, under which TLC finds the property violated.

## 4. Fairness

- *Proxy*: the kernel runs each thread; time does not stop. In `serve` a step
  is taken, successful or not: the origin server and the client are assumed to
  answer or to break the connection, since `serve` has no timeouts. Nobody has
  to connect, and a client that has connected need not send its request. The
  main thread goes on after `accept`, and the handler goes on when it can; weak
  fairness is enough for the mutex of the registry, because after an interrupt
  only finitely many threads ask for it.
- *Locks*: a thread that can take its next step takes it; the holder unlocks, as
  the walks of the programs do. Nothing is assumed of who wins a race, so no
  single thread is promised the lock, only that somebody gets it.
- *List*: a thread whose next lock stays free gets it (weak fairness). Stronger
  is not needed: nobody can overtake a thread past the first node.
- *Queues*: weak fairness per thread, with the mutex and `sem_modify` always
  left.
- *Coroutines*: the timer is periodic (weak fairness of `Tick`), and the code of
  the library goes on whenever the processor is in it. When a routine returns,
  and what the main routine calls, is not assumed.
- *Threads with clone*: the kernel schedules each thread in `wrapper` and each
  client in a call. When a routine returns is not assumed.
- The parsers have no liveness property: a client may send half a request and
  wait.

## 5. The proofs

Proved for every value of the constants, with the assumptions
`CacherAssumption`, `ServerAssumption`, `SignalsAssumption`,
`StorageAssumption`, `QueueAssumption`, `SpuriousAssumption`, `NullAssumption`,
`WorkersAssumption`, `MessagesAssumption` and `AddressesAssumption` of the
modules:
threads of different kinds are different, numbers are natural numbers, the list
has at least two nodes, a queue has finitely many threads and room for a value,
there are finitely many coroutines. The last two are about the writers of the
messages that `MessageReading` is given, and TLC evaluates them for those of
`MCParsers`:

- *GET* (`WritesOneGet`): what belongs to it (`extent`) ends at its first empty
  line at the latest or, without a version, with the CR of its first line; its
  URI does not begin with "HTTP/", the one thing that a parser which begins again
  could take for the version; and what the writer means by the URI is what stands
  between the two spaces. Everything else is left open: the bytes of the URI,
  headers, a body that is announced, whether the request is well formed at all,
  and where it is cut.
- *URL* (`WritesUrl`): its parts, of any length, with the marks between them. A
  name has letters, digits, dots and hyphens, a password letters and digits, and
  may be digits only; a host is such a name or anything of two bytes at least
  that begins with "["; a port fits 16 bits, and a path begins with "/". A part
  that is empty has no mark. The URLs the parser refuses or aborts for are among
  them, and `UrlMeaning` says which. A string that is not written in this way has
  no `parts`, and the theorem says nothing of it.
- *Host* (`WritesHost`): a host and the digits of a port. Without a port the host
  has a byte that is no digit, and does not end in ":" and digits.
`WaitersAreServed` and the theorems of `MutexQueueProofs` state a further
hypothesis, without which they are false: no call of `serve` fails and every
request is a GET with a Host header; there is one writer and one reader, as in
the programs.

| module | theorems | argument |
|---|---|---|
| `HttpProxyProofs`, the connection threads | `TypeCorrect`, `OneFetchAtATime`, `PromisesAreOwned`, `WaitersAreServed`, `OrphansNeedFailure` | `Inv` follows the pointer to a promise through the four places it can be in: queue, event, parked promises, the event thread's copy. They exclude each other, the thread pointed to waits (`QueueRefs`, `EventRef`, `ParkedRefs`, `CopyRefs`), and whoever waits is pointed to (`Known`). Without that a step of the event thread could satisfy the same promise twice as far as the invariant says. `Flights` is `SingleFlight` in first-order form. `WaitersAreServed`: where no call fails, whoever was told "no cache" is on the way to `cache`, so an entry of `waiters` always has its ANSWER coming; `OrphansNeedFailure` turns it round: what the run `proxy_orphans` shows takes a failure of `serve`, a GET without Host or another request. |
| `HttpProxyProofs`, the process | `RegistryStaysExact`, `ProxyRunsServers`, `CacheCoalesces`, `ProxyCoalesces`, `StaleHitsAreBounded`, `NothingEvictedEarly` | `RegistryInv`: the thread that `listenAndServe` has in hand is the only one that waits, and is in the registry once it has been inserted; without that the start of a thread could leave one that serves unregistered. `ProxyRunsServers` maps every step of the process to one of `SingleHostServer` or none, so that the theorems above and below hold of the whole proxy. `CacheCoalesces` is the refinement to `RequestCoalescing`: one lemma per action says which step of the abstract cache it is, or that it is not to be seen there; what makes it work is `Flights`, as only with one fetch at a time, and nothing else under way, is a request whose client gives up abandoned and one whose client answers delivered. `ProxyCoalesces` carries it over to the process. `AgeInv`: how old an entry may be depends on how long the cleaner has been in its phase. The bound alone is not inductive, as a tick would break it. |
| `ThreadProofs`, the locks | `MutexIsExclusive`, `NoWakeupIsLost`, `MutexIsALock`, `SpinlockIsExclusive`, `SpinlockIsALock` | `MutualExclusion` with "the word says whether somebody holds the mutex" is inductive, and so is `NoLostWakeup` on top of it; the same of the spinlock, simpler. |
| `ThreadProofs`, the threads of `clone` | `CancelNeverKills`, `JoinTellsTheTruth` | whoever has a `tid`, or is past `sigaction`, has a handler; a finished futex and a joiner about to fetch the result both come after the store of the result, whatever `errno` says. |
| `ListProofs`, the locked nodes | `TypeCorrect`, `StoresUnderLock`, `ListStaysWhole`, `CheckersMissNothing` | what a swapper holds at each point of its walk, that the nodes it holds are different, and that nothing ever points back to the first node. `TypeCorrect` includes that `NULL` is never locked or followed. `ListStaysWhole`: there is an order of all the nodes which `next` follows but for the stores a swapper still owes (`Order`); the three stores of a swap change the order once, at the first, and the locks keep two swaps apart. `CheckersMissNothing` adds that what a checker has seen is the beginning of that order, up to its node (`InPlace`): a swap cannot move a node across, because the checker's lock is one of those that it needs. |
| `ListProofs`, the coroutines | `CoroutineJoinTellsTheTruth`, `RingStaysWhole` | `RingIs(n, w)` lists the ring from its current element: n different coroutines, each the `next` of the one before it and the `prev` of the one after it. A switch rotates the list, a deletion takes the first off, and the five stores of the insertion put the new one at its end; `NewElement`, `Cut` and `Loose` say what is still to be set in between. That the current element is the running one, outside a switch, is what makes the handler save a context in its own place (`StacksInv`). What the scheduler reaches is that list (`ReachedIsListed`). What `join` says needs none of this, so it holds in the windows as well: behind its wait the futex is finished where `errno` is `EAGAIN`, unless a routine has put it there (`misled`). |
| `BoundedQueueProofs` | `ReadsInOrder` | with one writer and one reader the values inside are consecutive, from the one the reader expects to the one the writer has next. |
| `CondQueueProofs` | `SignalsSuffice`, `CondQueueIsBoundedQueue`, `ReaderSeesNoError` | `NoLostSignal` counts the threads on their way to the condition: while a reader sleeps there are at least as many as values. With the types and the length of the list it is inductive: a value and the reader woken for it come together. |
| `SemQueueProofs` | `SemaphoresAreRight`, `AssertionsNeverFail`, `SemQueueIsBoundedQueue`, `ReaderSeesNoError` | room is counted by `sem_add`, promised to a thread on its way, or used; values are counted by `sem_get`, owed, or neither. A reader inside the list is owed a value, so the list is not empty. |
| `MutexQueueProofs` | `AssertionsNeverFail`, `ReaderSeesNoError`, `NodesStayLive`, `MutexQueueIsBoundedQueue` | a node is named by its value, so the list is an interval of numbers: from the one the reader has next to the last the writer has linked, and the count is its length but for what the one or the other has done to the list and not yet to the count. `last` may point to a freed node only when the list is empty, and then nobody follows it. |
| `ParserProofs`, the requests | `GetsAreReadWhole` | a parser that begins again at the first byte keeps its state, so what it has read is no prefix of the text. `Reading` says what it is for each state (`UriRead`): in the middle of the method or of the URI it meets the `GET` and the space too early, which spoils the URI or is refused, and from "HTTP/" on the URI that it has is the text's. `Trail` and `NoBody` lead to the end: a GET has no body, so it is complete only behind an empty line or, without a version, with the CR of its first. |
| `ParserProofs`, the addresses | `AddressesAreUnderstood` | what has been read of a URL is a prefix, so what the parser holds is a function of its length: `UrlLayout` finds the parts in the text, `UrlAt` lists the places where the parser can be and what it has stored in each, and one lemma per part shows that the next symbol leads to such a place again, or makes the parser give up with digits left over or none (`GivesUp`), which decides between an abort and a refusal (`UrlIsGivenUp`). A name is in `usernameOrHostname` and digits are in `portOrPassword` until what follows decides whose they are; that both are empty afterwards, because they were swapped with fields nobody had written, is what makes the end right (`UrlStops`, `UrlIsUnderstood`). The value of a Host header has one place where it can be split, the last byte that is no digit (`HostIsSplit`). |

`ReaderSeesNoError` of `CondQueue` and `SemQueue` is not proved of them
directly: it is `ReadsInOrder`, carried over the refinement by INSTANCE. In
`MutexQueueProofs` it is part of the inductive invariant, and the refinement
comes from that.

Three definitions are recursive functions: the walk along the list of nodes,
the list of a `MutexQueue`, what the scheduler of the coroutines reaches. The
proofs unfold the `CHOOSE` such a definition stands for, give a function without
recursion that satisfies the same equation, and show that two such functions
have no first argument at which they differ (`LeastElement`).

Only model-checked: all liveness properties, which need fairness and so are out
of reach of the prover; `RequestUnderstood` and `ResponseUnderstood`; and
`AddressUnderstood` of a string that has not the form of a URL. The first two compare what is read
with headers, chunks and lengths that the writer of the message put together: the
value of a header name, the sum of the chunks and the number that digits stand for
are recursions over data, which an induction over them would have to follow. The
theorem about addresses leaves such a recursion alone: the number of a port is
`NumberOf` its digits on both sides, and the run is what shows that "102" is 102.
The strings that are no URL are the eight mistakes of `MCParsers`, one for each
state that has something to refuse.

## 6. Findings

- *`proxy_orphans`*: `src/README.md:83` says that a `SingleHostServer` that was
  told "no cache" must return its result to the cacher. After a failed connect
  (`singlehostserver.cpp:269` and below), as after every other error of
  `serve`, it does not. The entry of `waiters` stays, and everybody who asks
  for that request from then on is parked for ever. `WaitersHaveFlight` and
  `CallersAreAnswered` therefore hold only where no call fails. A GET without a
  Host header has the same effect.
- *`spinqueue_order`*: the exchange of `a` and `d` expects the value of the
  global `FALSE_MOCK`, and a failed exchange overwrites it with what it saw.
  `TRUE_MOCK`, a `_Bool` initialised with 2, is 1; so after one failure the next
  try expects a taken lock, finds it and enters. TLC's trace ends with the
  reader's own message: the value linked behind a node that was being unlinked
  is lost.

## 7. Not modelled

- `malloc`, `calloc`, `mmap`, `clone`, `getcontext`, `pthread_*` and `sem_*` calls
  that fail: the programs abort or return before they have changed anything.
  The list walkers return from the thread with locks held when a lock function
  fails; with correct arguments none does.
- `HttpCacher`'s EXIT event and destructor: `listenAndServe` never deletes the
  cacher. `socket`, `bind` and `listen` come before any thread.
- Descriptors: the one to the origin server is never closed, on any path, so
  that a model could only count. What is in a response: one that the origin
  server cuts short is cached and sent like a whole one, and one on a connection
  that is kept alive never ends (section 4 assumes that servers close). Both are
  in the list of hazards, or in section 4, without a property.
- The inside of `blocking_queue`: it is a FIFO queue whose `push` and `pop` are
  atomic.
- In the parsers: printing (`inspect`); ports that do not fit 16 bits; numbers
  that do not fit the type of `atoi` or `strtol`, the "0x" that `strtol` allows;
  memory that runs out below the size at which `reserve` throws. Of requests in
  pieces: their header fields (a cut within a header puts the first line into
  that header's value), and the loop of `readClientRequest` that never ends when
  a client goes away half way. A body behind a GET is not read, so that it is in
  the key of the cache and in the request to the origin server as far as it came
  in the same pieces.
- In the coroutines: what happens if the timer ticks before `scheduler_init` has
  put main in the ring (the first tick comes 50 ms later), stacks and nodes that
  are never freed, and calls of the library by coroutines, which no program
  makes.
- Checks of the strings in the list; the counters; the monitor threads;
  `queue_destroy`, which no program calls while its threads run.
- `g/withoutsleep/new`: its `sem_count` starts at `max_count` (`queue.c:49`), so
  `queue_add` refuses every value and the first `queue_get` follows `NULL`.
  `mock.c` beside it is an unfinished experiment: its `queue_add` posts
  `sem_count` back to what it was, so that its reader takes from the list only
  while an add is under way, whether the list is empty or not. Neither has a
  behaviour worth a property.
- The unsynchronised queues (`sync`), which race on every field by design, the
  test scripts of the proxy, and the demonstrations of `src/first/3-grade`.

## 8. The plan

Order: the proxy first, as the largest program with the most actors; then the
locks, the list and the queues; then the process around the proxy, its parsers,
the coroutines and the threads. These are done. What would come next:

1. `BlockingQueue`: mutex and condition variable of `blockingqueue.h`, shown to
   be the atomic FIFO queue `HttpCacher` uses.
2. Responses: the loop that receives one, with servers that cut it short or keep
   the connection alive, and what then is in the cache.
3. Proofs: `RequestUnderstood` and `ResponseUnderstood` for all headers and bodies
   whose chunks have one digit, along the lines of `UrlAt`: where the parser is in
   a message that comes in one piece is known from the number of bytes read. And
   that a byte which is not allowed where `UrlAt` says makes a string refused.
