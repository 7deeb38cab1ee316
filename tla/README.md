# A formal model of the multi-threaded HTTP proxy

TLA+ specifications of the proxy in `src/` (C, about 1600 lines without the bundled
`pthread.h`), TLC configurations that check them on small instances, and TLAPS
proofs for every number of threads, clients, nodes, descriptors and every size.

Paths below are relative to the repository's root: `src/components/x.c` is the
component, `src/proxy_server.c` is `main`, and `components/proxy_server.c` is the
server core.

## 1. The system

| Component | Code | State it keeps | Operations |
|---|---|---|---|
| Thread pool | `src/components/thread_pool.c` | task list, `queue_mutex`, `queue_condition`, `shutdown`, the semaphore | `thread_pool_create`, `thread_pool_add_task`, `worker_thread`, `thread_pool_destroy` |
| Process lifecycle | `src/proxy_server.c`, `components/proxy_server.c:9-161` | the global pointers, the listening socket | `proxy_server_init`, accept loop, `signal_handler`, `proxy_server_shutdown` |
| Response cache | `src/components/cache.c` | hash table of chains, LRU list, size, `cache_mutex` | `cache_get`, `cache_add` (with `cache_remove_lru`), `cache_move_to_front`, `cache_remove_expired`, `cache_destroy` |
| Connection pool | `src/components/connection_pool.c` | array of slots, `pool_size`, `pool_mutex` | `connection_pool_get`, `create_persistent_connection`, `connection_pool_return`, `connection_pool_cleanup`, `connection_pool_destroy` |
| Request handling | `components/proxy_server.c:163-382` | none of its own | `handle_client_request`, `forward_request_to_server`, `send_error_response` |
| HTTP parser | `src/components/http_parser.c` | the hidden position of `strtok` | `ParsedRequest_parse`, `validate_http_request`, `extract_host_port` |
| Platform layer | `src/components/platform.c` | Winsock started or not | `socket_close`, start-up, error text |
| Third party, scripts | `include/pthread.h`, `Makefile`, `build.ps1`, `tests/` | | |

**How they interact.** The main thread accepts connections and passes each socket
to the thread pool. A worker takes the oldest task, waits for a semaphore unit,
and runs `handle_client_request`: parse, look the URL up in the cache, on a miss get
a connection from the connection pool, send, receive, answer the client, add the
response to the cache, give the connection back; it closes the client's socket on
every path. A signal runs `proxy_server_shutdown` in the middle of whatever its
thread was doing: on the main thread, on a worker, or (Windows) on a thread made for
it. `SIGINT` and `SIGTERM` each have the handler, and `main` shuts down itself when
`proxy_server_start` returns, so a shutdown may begin inside another. Shutdown destroys the pool, then the cache, then the connections.

**What is hard about it.** The interleavings of workers and the main thread around
the condition variable; the handler that takes mutexes and frees memory under
running threads; cache nodes and socket numbers that are used after the mutex which
protects them was released; file descriptors that the system gives out again; failing
calls (`malloc`, `pthread_create`, `connect`, `send`, `recv`) half-way through an
operation; hand-written pointer surgery in the LRU list. `PROJECT.json` lists these
as hazards, each at its line.

**What makes each component correct.**

- Thread pool: every accepted socket is closed exactly once; connections are taken in
  order of arrival, each by one worker; no wakeup and no semaphore unit is lost;
  shutdown ends, closes what is queued and frees nothing that is used.
- Cache: chains, LRU list and count agree at all times; a hit is the newest
  response; only the oldest node is evicted; a node is not freed while used. To its
  callers it is a list in the order of last use.
- Connection pool: every open descriptor has exactly one owner; a slot's host is where
  its descriptor leads; a request goes to the server it names.
- Request handling: every client is sent one answer, its own, and its socket is closed;
  what is cached was a whole answer. Parser: a parsed request is the client's own.

## 2. Modules

| Module | Models | Checked by |
|---|---|---|
| `TaskDispatch` | what the thread pool promises: an abstract dispatcher without threads or locks | refined by `ThreadPool` |
| `ThreadPool` | `thread_pool.c` with its callers: main thread, workers, signal handler | `pool_*` |
| `ThreadPoolProofs` | theorems about `ThreadPool` | TLAPS |
| `LruCache` | what the cache promises: a list without nodes, chains or locks | refined by `Cache` |
| `Cache` | `cache.c` and the workers that use it | `cache_*` |
| `CacheProofs`, `CacheRefinement` | theorems about `Cache`; that it refines `LruCache` | TLAPS |
| `ConnectionKeeper` | what the connection pool promises: connections under names, without slots or locks | refined by `ConnectionPool` |
| `ConnectionPool` | `connection_pool.c`, its use by `forward_request_to_server`, and the descriptor table | `conn_*` |
| `ConnectionPoolProofs`, `ConnectionRefinement` | theorems about `ConnectionPool`; that it refines `ConnectionKeeper` | TLAPS |
| `MinFacts` | a lemma on `Min` for both: a search finds its first match | TLAPS |
| `RequestHandler` | `handle_client_request` and `forward_request_to_server`: which bytes a client gets | `request_*` |
| `RequestHandlerProofs` | theorems about `RequestHandler` | TLAPS |
| `RequestParser` | `ParsedRequest_parse` in several threads, with `strtok`'s memory | `parse_*` |
| `RequestParserProofs` | a theorem about `RequestParser` | TLAPS |
| `MCThreadPool`, `MCCache`, `MCConnectionPool`, `MCRequestHandler`, `MCRequestParser` | constants and symmetry for TLC | |

**How the modules compose.** A client's socket goes through `ThreadPool`; its action
`HandleClient` is the whole of `RequestHandler`'s way from `Receive` to `End`. In turn
`RequestHandler` takes cache and connection pool as what they promise (a map that may
forget; idle connections kept under their server's name), and `Cache` and
`ConnectionPool` each contain the same worker code with their own component in detail.
`Cache` keeps its promise (`ImplementsLru`), but for nodes used after they are freed.
`ConnectionPool` keeps connections under the name they got (`ImplementsKeeper`), and the
name is right but for slots that failures leave behind and for connections made with
another thread's result of `gethostbyname` (`RightUnlessStrayOrCrossed`). So what
`RequestHandler` says about foreign bytes is in addition to those. The destruction of cache
and connection pool in `Cache` and `ConnectionPool` waits until no worker is in a request.
That shutdown does so is `TeardownAlone` of `ThreadPool`, proved, with two exceptions
which `DestroyFreesAll` and `DestroyClosesAll` therefore do not cover: a worker that carries
the handler itself was interrupted in the middle of its request, and is not waited for;
and a second shutdown that comes to the join waits for nobody.

### ThreadPool

One program counter per worker (`wpc`), for the main thread (`mpc`), and for every
thread one for `proxy_server_shutdown` (`hpc`), whoever called it. A step is the code between two operations on
the mutex, the condition variable, the semaphore or a socket. `queue` is the list from
`task_queue_head`; `dangling` says that head and tail still point to tasks which
`thread_pool_destroy` freed (it does not reset them). `pool` is the memory of
`thread_pool_t`, `thread_pool` the global pointer. `pthread_cond_wait` gives up the
mutex and sleeps in one step (`WorkerWait`), takes it again in another (`WorkerWakes`)
and may wake for no reason (`SpuriousWakeup`). A thread that shuts down does
nothing else (`CanRun`), keeps its mutex if it had it, and joining itself fails at once.

A shutdown begins by a signal (`Signal`) or because there is no server socket
(`ListenFails`), and it may interrupt another one on its thread, which is never resumed,
or run beside another one on a different thread: `BeginShutdown`. Up to
`NumShutdowns` begin. (On Linux there are at most three: with `-std=c99` glibc's `signal` is
System V's, so the handler of each of the two signals runs once, and main's own.) Where
one meets what another has destroyed, the next step is `ShutdownUsesFreed`:
`thread_pool` is cleared only after `thread_pool_destroy` returned
(`components/proxy_server.c:97`), the head of the list is not reset, and `pthread_join` on
a worker that two threads join is undefined (glibc returns an error, so that
`Joined` also lets the second shutdown pass). Three history variables: `shutdowns`,
`teardowns` (how many came to the join, or past a missing pool), and `late`: one began
after another had come to that.

*What is safe about it.* `MainShutdownSafe` and `ShutdownDrains` are about shutdowns on the main
thread of which none is `late` (`MainCarries`); they may still interrupt main anywhere,
in `thread_pool_add_task` and in each other, which deadlocks, or enters
`thread_pool_destroy` twice before it did anything. `TeardownAlone` holds on
every thread while only one shutdown comes to the join. Both conditions are necessary, see
section 5.
Where a thread would touch freed memory, `UseAfterFree` sets `undefined` and the
behaviour ends: nothing is assumed about what comes after.

`handle_client_request` is one action: it returns once the client has sent something
or has gone, and closes the socket. What happens inside is the subject of
`RequestHandler`. `InitFails` stands for the failures of `proxy_server_init` before the
pool exists and after it (cache or connection pool).

`Faults` names what may go wrong: `alloc` (initialisation), `create`
(`pthread_create`), `listen` (the server socket), `malloc` (a task), `spurious`.
`Carriers` is the set of threads on which the platform may run the handler; the kernel may
choose any thread, Windows makes one (`Own`).

### Cache

Nodes are addresses that `malloc` returns, frees and returns again. The chains are
sequences, one per bucket; the LRU list is kept as the code keeps it, `head`, `tail`
and two pointers per node, and the operators `PushFront`, `MoveToFront`, `DropTail`
and `Unlink` are its four pieces of pointer surgery. All operations hold `cache_mutex`
and are one step, apart from `cache_remove_expired`, which goes node by node so that the
structure is also examined between its steps. Nobody calls `cache_remove_expired`;
the runs include it (`Sweeper = TRUE`) because it is an operation of the module that a
maintainer would wire up first. Time is an age per node, capped at the expiry time, and
never goes back.

`LruCache` has one variable of its own, `entries`, a sequence of URL and age; `Walk` in
`Cache` maps the concrete state to it by following `lru_next` from `lru_head`, so the
refinement also says that chains (where a lookup searches) and list (where the eviction
does) never disagree about which entry counts.

History variables: `older` (order of last use), `stale` (nodes whose URL was added
again later), `dangling` (workers that hold a freed node).

### ConnectionPool

`fd` says what each descriptor is: closed, a client's, not yet connected, or connected
to a host (standing for host and port). The pool's operations under `pool_mutex` are
one step each; what happens outside is separate: `ReadSlot` is the `return
conn->socket_fd` after the unlock, `Resolve` and `Connect` are `gethostbyname` and the
later use of its result. `connection_pool_get` closes the expired connections that its
scan meets before it stops. `ServerFails` is the pair of `socket_close` calls in
`forward_request_to_server` that do not tell the pool; the history variable `stray`
remembers the slots they leave behind.

`crossed`, also a history variable, has the connections that were made with a result of
`gethostbyname` which another thread's call had overwritten between lines 49 and 60. They lead
to the wrong host from the start and are pooled under the right one's name. These and the
`stray` slots are what `SlotsDescribe` and `RightUnlessStrayOrCrossed` except, and the two
properties say that there is no third way.

`ConnectionKeeper` knows a connection by its number and has two sets, the `idle` and the
`lent` ones, each entry with its name, and the number each worker `uses`. The mapping takes
idle and occupied slots to entries; "found" is already "use", because the slot
that was found is the worker's own until it is read, and the steps from `Resolve` to `Connect` are one
`Make`. Two of its lines say where violation 5 comes from: a number lent and lost stays lent,
and what is given back with a lent number goes under the old name.

`LowestFd` chooses between POSIX (lowest free number) and any number (Windows);
`SharedHostent` between one static result of `gethostbyname` for all threads, which
POSIX allows and glibc has, and one per thread (Windows). `conn_owners`, whose properties hold,
has any number and the shared result, and the theorems hold for every choice, but
for `RightWithoutFailures`, which assumes a result per thread. `conn_wrong_server`, whose
property is violated, has POSIX's numbers and a result per thread, so that the stale slot
is the only cause.

### RequestHandler

A worker's program counter names the next call in `handle_client_request` and
`forward_request_to_server`. Responses are sequences of two kinds of parts, a header
(with its blank line) and a body, each tagged with the request it answers; that is all
that ownership needs. A connection is the stream of parts that were not yet received.
`Send` decides whether the server will answer, `Recv` how much of it has come: any
number of parts up to the room in `response_buffer`; `RecvEnds` and `NoResponse` are the
timeout, or the end of the stream, with and without data. The loop's rule for a complete
response is `Enough`: stop at the first `recv` after which the buffer holds the end of a
header. (The source does so below 2048 bytes, and above them because it also stops above
1024.) The receive from the client is one `recv`, which may end inside the method, the
first line or the headers (`Pieces`), with the source's different refusals.

`answers` is what was handed to `send` for a client. If `send` fails or takes a part only,
the code prints a line, caches the response, pools the connection and returns 0
(`components/proxy_server.c:366-381`), and says nothing more to the client: the same steps
as after a success, so the model does not tell the two apart.

`Forget` and `Expire` stand for eviction, expiry and the pool's timeouts. `leftover`
remembers the parts that were unread when their connection was pooled.

### RequestParser

`position` is what `strtok` remembers, one value per worker that `Remember` sets for one
worker or for all (`SharedStrtok`: glibc or Windows). A call reads it, scans, and stores
it in two steps (`StrtokGoesOn`, `StrtokStores`), which is where another worker comes in
between; a NUL that another thread has written may end the scan (`Behind`). A token is
known by the line it lies in. Reading a freed line, and going on without a path, ends the
behaviour (`Undefined`).

## 3. Runs

Every run turns TLC's deadlock check off: the number of connections is bounded
(`NumClients`), the process may exit, and destroyed components do nothing.

| Run | Question | Result |
|---|---|---|
| `pool_safety` | 2 workers, 1 unit, 3 connections, all faults, up to two shutdowns: signals at any point on the main thread or the first worker, and main's own | types, `SemaphoreBalanced`, `WorkConserving`, `OwnedOnce`, refinement of `TaskDispatch`; while one comes to the join `TeardownAlone`; on the main thread, none being late, `ShutdownDrains`, `MainShutdownSafe`: hold |
| `pool_liveness` | 2 workers, 1 unit, 3 connections, fairness, talking clients, one signal, its handler on its own thread | `EveryClientServed`, `ShutdownTerminates`: hold |
| `pool_signal_deadlock` | the same termination with the handler on the main thread | **violated**: self-deadlock on `queue_mutex` |
| `pool_freed_under_main` | use after free with the handler on its own thread | **violated**: the accept loop uses the freed pool |
| `pool_create_fails` | does a failed creation return | **violated**: lost wakeup, `pthread_join` hangs |
| `cache_shared` | 2 workers and a sweeper, 3 nodes, 3 URLs of which 2 collide | `LruList`, `ChainsExact`, `HitIsFresh`, `DropsOldest`, `DestroyFreesAll`, refinement of `LruCache`: hold |
| `cache_freed_while_sent` | is a node ever sent after it was freed | **violated** |
| `conn_owners` | 2 workers, 2 hosts, 2 slots, 4 descriptors in any order, `gethostbyname` shared, all failures, expiry, cleanup | `OneOwner`, `SizeExact`, `DestroyClosesAll`, `SlotsDescribe`, `RightUnlessStrayOrCrossed`, refinement of `ConnectionKeeper`: hold |
| `conn_wrong_server` | does a request reach the host it names, `gethostbyname` not being shared | **violated** through a stale slot |
| `request_answers` | 2 workers, 3 requests to 2 servers, 2 connections, all failures and timeouts, fairness | `AnsweredOnce`, `OwnUnlessLeftOver`, `CacheRepeatsAnswers`, `EveryRequestEnds`: hold |
| `request_leftover` | does a client get the response to its own request, all paths being different | **violated** through a body left in a pooled connection |
| `parse_shared_strtok` | is a parsed request the client's own | **violated** through `strtok` |

**The violations in words.**

1. *Self-deadlock.* A signal arrives while the main thread holds `queue_mutex` in
   `thread_pool_add_task`; the handler runs on that thread, calls
   `thread_pool_destroy` and locks the same mutex. It needs no fault.
2. *Pool freed under the main thread.* If another thread runs the handler, nothing
   stops the accept loop, which follows `thread_pool`, or the list's tail, into freed
   memory between `free` and `exit`.
3. *Creation that never returns.* `shutdown = 1` and the broadcast at
   `thread_pool.c:100-101` happen without the mutex, so they fit between a worker's
   check and its `pthread_cond_wait`.
4. *Node freed while sent.* `cache_get` returns a pointer and releases the mutex; an
   eviction by another worker frees the node before `send` (one worker alone is safe: `AloneIsSafe`). In production it takes
   as many insertions as the cache has entries during one slow `send`.
5. *Wrong server.* A pooled connection fails and is closed; its slot stays in use with
   the old number. Another worker's `socket` gets that number for another host, and
   `connection_pool_return` finds it in the old slot and marks it idle. The next
   request to the old host is sent to the other one, and its answer is cached.
6. *Leftover body.* The header of a response arrives before its body. The loop stops,
   the client and the cache get the header alone, and the connection, pooled, delivers
   the body as the beginning of the next response.
7. *Shared `strtok`.* A worker starts a line of its own between two calls of another,
   which goes on in that line and takes its path. (With a position per thread the parser
   is correct: `OwnPlaceIsSafe`, proved.)

The same kind of race hides in `gethostbyname`, whose result is one static record on
glibc, the platform of `LINUX.md`: with `SharedHostent = TRUE` in `conn_wrong_server.cfg`,
`RightServer` is also violated by two workers that resolve at once
(`connection_pool.c:49-60`), without a failure. `conn_owners` has such connections, and its
properties name them as an exception.

`OwnUnlessLeftOver` names the two sources of foreign bytes and excludes any third: the
leftover of violation 6, and the cache key, which is the path alone
(`components/proxy_server.c:256-258`, whose comment says "use full URL as cache key"): two hosts
share a relative path, and `HEAD` shares with `GET`.

Two more divergences need no model checker and have no run: `cache_remove_expired` and
`connection_pool_cleanup` have no callers although `src/README.md:219` promises
"Automatic cleanup", and the receive on the client's socket has no timeout although
`LINUX.md:468` says "All timeouts are set to 5 seconds" (without the assumption that
clients talk, `EveryClientServed` fails).

**Bounds.** With two workers one sleeps, or waits for the mutex after it was woken, while the
other holds it or finds the queue emptied, which is what a lost wakeup, a worker that misses
the broadcast and a join of the wrong worker need; one semaphore unit makes the semaphore
bind between them; three connections make a queue of two behind one being served, which order,
double signalling and the reset of the list's tail need. Two shutdowns are the fewest that
meet, on one thread or side by side on two; main and one worker are two of the three kinds of
threads that run the handler (the third, a thread made for it, is in `pool_liveness` and
`pool_freed_under_main`). The other pool runs have one shutdown:
two of them may stop each other for ever (a signal on a thread that holds `queue_mutex`, violation 1),
so `ShutdownTerminates` promises nothing there. Three nodes are the fewest with a middle
node in the LRU list and in a chain; three URLs of which two collide allow both
collisions and a second bucket, and two workers can add the same URL twice. Two slots
and four descriptors let two workers use two pooled connections at once, fill the pool
(`ReturnPoolFull`) and run out of descriptors (`NoSocket`). Three requests are two to one server (a leftover needs the
same server), two for one path (the shared cache key), and two workers let one pool a
connection while the other takes it; a `response_buffer` of two parts is the smallest that
can be filled by several receives. `strtok` needs two workers with a line each.
Times are counted up to the
expiry, one tick suffices to separate fresh from expired. Descriptors, nodes and the
connection pool's workers are symmetric where only safety is checked. The safety results of the thread pool do not
depend on these bounds: they are proved.

**Fairness.** `FairSpec` gives weak fairness to each worker, to the main thread's code
between two `accept`s and to the handler: a thread that can run goes on. That a
mutex or semaphore is granted in any order is not assumed, nor are arrivals,
signals, failures or spurious wakeups. `FairSpecTalking` adds that each client sends
its request or closes its end eventually; the code has no timeout there, so this is an
assumption about the clients. `FairSpec` of `RequestHandler` is weak fairness of each
worker's steps inside a request. The receive from the server has a timeout of the program
(`SO_RCVTIMEO`, `components/proxy_server.c:314-323`); `gethostbyname`, `connect` and the
`send` to the server have the system's only, of minutes, after which they fail, as
`CreateConnFails` and `SendFails`. The `send` to the client has none; that a client
reads what it is sent is an assumption again. Servers owe nothing.

## 4. Proofs

`ThreadPoolProofs` proves, for all `NUM_WORKER_THREADS >= 1`, `MAX_CLIENTS >= 1`, numbers
of connections and shutdowns, fault sets and carriers (the named `ASSUME`s of `ThreadPool`):

| Theorem | States |
|---|---|
| `TypeCorrect` | `[]TypeOK` |
| `ConnectionLimit` | `[]SemaphoreBalanced` |
| `NoLostWakeup` | `[]WorkConserving` |
| `SingleOwner` | `[]OwnedOnce` |
| `ShutdownOnMainIsSafe` | `[]MainShutdownSafe`: shutdowns on main only, none begun after one came to the join |
| `ShutdownOnMainDrains` | `[]ShutdownDrains`, under the same condition |
| `ShutdownWaitsForWorkers` | `[]TeardownAlone`: one shutdown comes to the join |
| `PoolImplementsDispatch` | `ThreadPool!Spec` implements `TaskDispatch!Spec` |

None of these is inductive alone. The strengthening is built in layers, each of which
assumes the ones before it, and each with one step lemma:

- `Types`, `Hands`: the types, and at which program counters a thread holds a socket.
- `Exclusion`, `Sleepers`: a worker inside the critical section owns the mutex; a
  worker that has decided to wait still sees an empty queue. This is the heart of
  `WorkConserving`: between the check and the wait nothing can be queued.
- `SemaphoreBalanced`, `WorkConserving`: inductive over those, by counting sets that
  gain or lose one element.
- `Known`, `OwnedOnce`: whatever is in hand, queued or in service was accepted. Two
  lemmas about sequences say what `Tail` and `Append` do to a sequence without
  duplicates.
- `Down` (while `MainCarries`): the workers have exited before the queue is drained, the queue
  is empty when the pool is freed, tasks are freed and `teardowns` is 1 only past the join.
  A step cannot make `MainCarries` true again (`Irrevocable`), so it is enough that `Down`
  is kept where it is true before and after. `ShutdownMoves` and `ShutdownStepMoves` say
  once which thread's place a step of a shutdown changes, and from where to where.
- `Alone` (while `teardowns` is at most 1): after the join every worker has exited or carries
  the handler; nothing can bring one back, whoever freed the pool.
- `Phases`: the refinement mapping, case by case.

`RequestHandlerProofs` proves, for all sets of workers, clients, paths and connections,
whatever the clients ask for, and all `MAX_RESPONSE_SIZE >= 1` (the named `ASSUME`s of
`RequestHandler`):

| Theorem | States |
|---|---|
| `TypeCorrect` | `[]TypeOK`, with the bound of `response_buffer` |
| `Answered` | `[]AnsweredOnce` |
| `StrayOnlyLeftOver` | `[]OwnUnlessLeftOver` |
| `CacheFaithful` | `[]CacheRepeatsAnswers` |

Here the layers are

- `Types`, `Handling`: which client, request and connection a worker has at which place;
  no two workers share one, and the connection leads to the server of the request.
- `Account`: a client has an answer exactly when its worker is past the one place that
  says something, and none before it has a worker. This is what makes `AnsweredOnce`
  inductive.
- `Fits`: the buffer and what is cached are no longer than the buffer's room.
- `Sources`: an unused connection is empty, an idle one holds leftovers only; what a
  worker may still receive, and has received, is a leftover or answers its client; what
  is cached for a path is a leftover or belongs to the path. `OwnUnlessLeftOver` follows
  when something is said.
- `Repeats`: what a worker is about to add to the cache was its answer.

The lemmas about sequences say which elements `\o`, `Append` and `SubSeq` give; `RecvEffect`,
`SayEffect`, `CloseEffect` and `AnswerEffect` then state what the actions do to sets of
parts, and no later step needs a sequence.

`CacheProofs` proves, for all sets of workers and URLs, finite sets of nodes, hash
functions, table sizes, `CACHE_SIZE >= 1` and `CACHE_EXPIRY_TIME >= 1`, with and without a
sweep (the named `ASSUME`s of `Cache`):

| Theorem | States |
|---|---|
| `TypeCorrect` | `[]TypeOK`, with the bound `CACHE_SIZE` |
| `LruListKept` | `[]LruList` |
| `ChainsKept` | `[]ChainsExact` |
| `HitsAreFresh` | `[]HitIsFresh` |
| `OldestGoes` | `DropsOldest` |
| `DestroyFrees` | `[]DestroyFreesAll` |
| `AloneIsSafe` | `[]NoUseAfterFree`, for one worker without a sweep |

It begins with the operators. `Ordered` is what `LruList` says of a list, and that head and
tail are the extremes of its order; `PushFront`, `Unlink` and, as combinations of the two,
`MoveToFront` and `DropTail` keep it. `Hashed` is what `ChainsExact` says of the table;
`TakenOut`, `Unchained` and `LinkedIn` say how taking a node out and putting one in
change it and the order within a chain. The invariant `IInv` adds what freshness
needs: of two nodes for one URL the first in the chain was used and added later (`Newest`),
and a stale node has a newer one before it or is about to be freed by the sweep that has
freed the newer one (`OldHidden`). An eviction keeps this because it takes the oldest of all,
the sweep because it goes through the whole chain before it releases the mutex.

`ConnectionPoolProofs` proves, for all sets of workers, hosts and descriptors, every
`MAX_POOL_SIZE >= 1` and expiry time, any choice of numbers by `socket` (the named `ASSUME`s of
`ConnectionPool`):

| Theorem | States |
|---|---|
| `TypeCorrect` | `[]TypeOK` |
| `SizeAlwaysExact` | `[]SizeExact` |
| `SingleOwner` | `[]OneOwner` |
| `DestroyLeavesNothingOpen` | `[]DestroyClosesAll` |
| `SlotsAlwaysDescribe` | `[]SlotsDescribe` |
| `WrongServerOnlyTwoWays` | `[]RightUnlessStrayOrCrossed` |
| `RightWithoutFailures` | `[]RightServer`, if `gethostbyname` has a result per thread, where no `ServerFails` happens |

Its layers are `Types`; `Distinct` (occupied slots name different descriptors); `Owned`, which
splits the ownership of descriptors by who the owner is (`ClientsOwn`, `ServersOwn`,
`FoundOwn`, `IdleOwn`) and says that no open one is without (`NoneLost`); `Counted`, by counting
occupied slots; `DestroyClosesAll`; and `Heading`: where the descriptor of a slot and of a
worker leads, which holds only of slots that are not `stray` and connections that are not `crossed`.

`CacheRefinement` and `ConnectionRefinement` prove, from the invariants above and under the same
assumptions, that the two components implement their abstract specifications, and
`RequestParserProofs` what the parser would be with a position per thread:

| Theorem | States |
|---|---|
| `CacheImplementsLru` | `Cache!Spec` implements `LruCache!Spec` |
| `PoolImplementsKeeper` | `ConnectionPool!Spec` implements `ConnectionKeeper!Spec` |
| `OwnPlaceIsSafe` | `[]OwnRequest`, and no undefined behaviour, if `SharedStrtok` is `FALSE` |

*The cache.* The mapping `Walk` follows `lru_next` from `lru_head`, which would need an
induction over the list. Instead the proof carries a sequence of nodes: `Shows(f)` says that
`f` enumerates the allocated nodes in the order `older`. Following
the pointers gives that sequence (`AlongIs`, by the least position at which it would not).
After that each action has to name the new sequence: with a node moved to the front, put in front, or
taken out. `LookupIsFirst` connects the two structures: the node that the chain's scan
returns is the first of its URL in the list, which follows from `Newest`.

*The connection pool.* The entries of a set of slots are counted and subtracted like the slots
because `Distinct` makes them different (`EntriesCount`, `EntriesMinus`); so the pool is full in
one sense exactly when it is in the other (`FullIs`). `Owned` makes the number of a new
connection fresh, and an idle one nobody's. `Steady` is what the unlocked read needs: a slot that a worker
has found keeps its number whatever the others do.

*The parser.* With one position per worker the invariant is that a worker's line and position
are its own client's, that no two workers have the same line, and that a line is cut in the order
method, path, version. `NoClient` must not be a client, which no `ASSUME` of the model needs
otherwise.

Three theorems locate the cause of a violation: `OwnPlaceIsSafe` states what violation 7
refutes under one more hypothesis (a position per thread), `AloneIsSafe` does so for violation 4
(no second worker), `RightWithoutFailures` for violation 5 (no connection fails in use, and a
`gethostbyname` result per thread). No
passing run checks these three properties, because each run of theirs is the one that violates it.

All invariants and refinements that the passing runs check are proved. Only model-checked is
liveness (`EveryClientServed`, `ShutdownTerminates`, `EveryRequestEnds`): fairness and
`ENABLED` are beyond the prover.

## 5. Not modelled, and why

- Bytes: a response is header and body, a request its method, path and host. Not
  covered: a NUL byte or a blank line inside a body (`strstr` stops, or finds it),
  truncated hosts, paths and cache keys, what the proxy drops when it forwards (the
  headers and body of the request), the text of error pages.
- Unchecked results of `malloc` in the parser, requests without a path (`strstr` of NULL):
  the behaviour is undefined and ends in a single step of one thread.
- A second shutdown that begins once another has come to its join is modelled, and has no
  run of its own. Without its condition each of the three properties fails in
  `pool_safety`: `MainShutdownSafe` and `ShutdownDrains` without `~late` on the main thread
  alone (`SIGINT`; the handler sets `shutdown` and releases the mutex; `SIGTERM` interrupts
  it; the second handler finds `thread_pool` set, locks, sets, unlocks and joins; or later,
  it walks a list of freed tasks, or locks a mutex in the freed pool), `TeardownAlone`
  without `teardowns <= 1` (the second shutdown's joins return at once, and it frees the
  pool under running workers). The source says nothing that this contradicts more than
  violations 1 and 2 do. What two shutdowns do to the cache and the connections is
  `ShutdownUsesFreed` at `exit` and no more.
- A signal during `pthread_create`'s own work or before `main` has installed both handlers; a
  second signal of the same kind, which kills the process (System V `signal`).
- A signal on a worker inside the cache, the connection pool or `malloc`: `ThreadPool` takes
  the whole of `handle_client_request` as one step. The worker would wait for a mutex of
  its own thread, as in violation 1.
- Which bytes `connect` sees if it reads the shared `gethostbyname` result while another thread
  writes it: one address or the other, not a mixture. A host in `ConnectionPool` stands for
  host and port, so `crossed` also has connections to the right machine, where two names
  differ in the port alone.
- Whether the client has received what was handed to `send`.
- `parse_request_url`, `ParsedHeader_*`, `ParsedRequest_unparse_headers`: no callers.
- Return values of `sem_init`, mutex initialisation and Winsock start-up: the process
  exits before there is a thread.
- `access_count` and `queue_size`: written, used only in messages.
- `connection_pool_return` with `keep_alive = 0`: no such call.
- A clock that is set back; overflow of counters.
- `include/pthread.h`: third party; POSIX's promises are used instead.

## 6. Plan

1. Done: all modules of section 2, and the proof of every safety property and refinement
   of the passing runs.
2. Use of a node after it is freed, bounded: that it needs `CACHE_SIZE` insertions or a
   sweep while the node is sent.
3. `RequestHandler` on top of `LruCache` and `ConnectionKeeper` themselves, in place of its own
   map and connections.
