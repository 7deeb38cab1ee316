----------------------------- MODULE ThreadPool -----------------------------
(***************************************************************************)
(* The worker pool (src/components/thread_pool.c) with its three kinds of  *)
(* callers: the worker threads, the main thread that creates the pool and  *)
(* then submits every accepted connection (proxy_server_start), and the    *)
(* threads that take the pool down (proxy_server_shutdown, which the       *)
(* signal handler and the end of main both call).                          *)
(*                                                                         *)
(* Each thread has a program counter; a step is the code between two       *)
(* operations on the mutex, the condition variable, the semaphore or a     *)
(* socket.  The linked list of tasks is the sequence of their sockets.     *)
(* handle_client_request is two facts here: it blocks in recv until its    *)
(* client has sent something (or has gone), and every path through it      *)
(* closes the client socket once.                                          *)
(***************************************************************************)
EXTENDS Integers, Sequences, FiniteSets

CONSTANTS
  NUM_WORKER_THREADS, \* thread_pool.h:11
  MAX_CLIENTS,        \* thread_pool.h:10, the initial value of the semaphore
  NumClients,         \* bound: how many connections arrive
  NumShutdowns,       \* bound: how many times proxy_server_shutdown is called
  Carriers,           \* threads on which the platform may run signal_handler
  Faults              \* the calls of the environment that may go wrong

Workers == 1..NUM_WORKER_THREADS
Clients == 1..NumClients
Main    == 0
Own     == NUM_WORKER_THREADS + 1  \* a thread made for the handler (Windows)
NoThread == NUM_WORKER_THREADS + 2
Threads == Workers \cup {Main, Own}
NoClient == 0

ASSUME SizesAssumption == /\ NUM_WORKER_THREADS \in Nat \ {0}
                          /\ MAX_CLIENTS \in Nat \ {0}
                          /\ NumClients \in Nat /\ NumShutdowns \in Nat
ASSUME CarriersAssumption == Carriers \subseteq Threads
ASSUME FaultsAssumption ==
         Faults \subseteq {"alloc", "create", "listen", "malloc", "spurious"}

VARIABLES
  pool,          \* the memory of thread_pool_t: "none", "live" or "freed"
  thread_pool,   \* the global pointer is set
  queue,         \* the tasks from task_queue_head to task_queue_tail
  dangling,      \* task_queue_head and _tail still point to freed tasks
  shutdown,
  queue_mutex,   \* its owner
  semaphore,
  wpc, task,     \* per worker: where it is, and the socket of its task
  mpc, accepted, \* main thread: where it is, how many connections it accepted
  client_socket, \* the connection the main thread has not handed over yet
  hpc,           \* per thread: where it is in proxy_server_shutdown
  shutdowns,     \* history: how many shutdowns have begun,
  teardowns,     \* how many of them began to join or destroy something,
  late,          \* and that one began after another had come to that
  sent,          \* clients that have sent a request, or have gone
  closes,        \* how many times each connection was closed
  undefined      \* a thread has used freed memory

poolVars == <<pool, thread_pool, queue, dangling, shutdown>>
workVars == <<wpc, task, semaphore>>
mainVars == <<mpc, accepted, client_socket>>
downVars == <<hpc, shutdowns, teardowns, late>>
vars == <<poolVars, queue_mutex, workVars, mainVars, downVars, sent, closes, undefined>>

Init == /\ pool = "none" /\ thread_pool = FALSE
        /\ queue = <<>> /\ dangling = FALSE /\ shutdown = FALSE
        /\ queue_mutex = NoThread
        /\ semaphore = MAX_CLIENTS
        /\ wpc = [w \in Workers |-> "unborn"]
        /\ task = [w \in Workers |-> NoClient]
        /\ mpc = "alloc" /\ accepted = 0 /\ client_socket = NoClient
        /\ hpc = [t \in Threads |-> "none"]
        /\ shutdowns = 0 /\ teardowns = 0 /\ late = FALSE
        /\ sent = {}
        /\ closes = [c \in Clients |-> 0]
        /\ undefined = FALSE

\* The process is over, or does what no statement of the program says.
Halted == mpc = "exited" \/ (\E t \in Threads : hpc[t] = "exited") \/ undefined

\* A thread that shuts the server down does nothing else any more: the handler
\* ends with exit(0), and main with its return.
CanRun(t) == ~Halted /\ hpc[t] = "none"

Waiting == {w \in Workers : wpc[w] = "waiting"}

Lock(t)   == queue_mutex = NoThread /\ queue_mutex' = t
Unlock(t) == queue_mutex = t /\ queue_mutex' = NoThread

CondSignal == \/ Waiting = {} /\ UNCHANGED wpc
              \/ \E w \in Waiting : wpc' = [wpc EXCEPT ![w] = "woken"]
CondBroadcast ==
  wpc' = [w \in Workers |-> IF wpc[w] = "waiting" THEN "woken" ELSE wpc[w]]

Close(S) == closes' = [c \in Clients |-> IF c \in S THEN closes[c] + 1 ELSE closes[c]]

-----------------------------------------------------------------------------
(* Worker threads: worker_thread.                                          *)

\* Where a worker's next step reads or writes the pool.
AtPool == {"top", "locked", "cond_wait", "waiting", "woken", "taken"}

WorkerGo(w, from, to) == /\ CanRun(w)
                         /\ from \in AtPool => pool # "freed"
                         /\ wpc[w] = from
                         /\ wpc' = [wpc EXCEPT ![w] = to]

WorkerLock(w) == /\ WorkerGo(w, "top", "locked") /\ Lock(w)
                 /\ UNCHANGED <<poolVars, task, semaphore, mainVars, downVars, sent, closes, undefined>>

\* while (head == NULL && !shutdown): true, so the worker calls cond_wait.
MustWait == queue = <<>> /\ ~shutdown

WorkerFindsNothing(w) ==
  /\ WorkerGo(w, "locked", "cond_wait") /\ MustWait
  /\ UNCHANGED <<poolVars, queue_mutex, task, semaphore, mainVars, downVars, sent, closes, undefined>>

\* pthread_cond_wait gives the mutex up and sleeps in one step ...
WorkerWait(w) ==
  /\ WorkerGo(w, "cond_wait", "waiting") /\ Unlock(w)
  /\ UNCHANGED <<poolVars, task, semaphore, mainVars, downVars, sent, closes, undefined>>

\* ... and takes it again once the worker was woken,
WorkerWakes(w) ==
  /\ WorkerGo(w, "woken", "locked") /\ Lock(w)
  /\ UNCHANGED <<poolVars, task, semaphore, mainVars, downVars, sent, closes, undefined>>

\* for which POSIX needs no reason.
SpuriousWakeup(w) ==
  /\ "spurious" \in Faults
  /\ WorkerGo(w, "waiting", "woken")
  /\ UNCHANGED <<poolVars, queue_mutex, task, semaphore, mainVars, downVars, sent, closes, undefined>>

WorkerExits(w) ==
  /\ WorkerGo(w, "locked", "exited") /\ shutdown /\ Unlock(w)
  /\ UNCHANGED <<poolVars, task, semaphore, mainVars, downVars, sent, closes, undefined>>

\* Mutant: the newest task is taken first.
WorkerTakesLast(w) ==
  /\ WorkerGo(w, "locked", "taken") /\ ~shutdown /\ queue # <<>>
  /\ task' = [task EXCEPT ![w] = queue[Len(queue)]]
  /\ queue' = SubSeq(queue, 1, Len(queue) - 1)
  /\ UNCHANGED <<pool, thread_pool, dangling, shutdown, queue_mutex, semaphore,
                 mainVars, downVars, sent, closes, undefined>>

WorkerTakes(w) ==
  /\ WorkerGo(w, "locked", "taken") /\ ~shutdown /\ queue # <<>>
  /\ task' = [task EXCEPT ![w] = Head(queue)]
  /\ queue' = Tail(queue)
  /\ UNCHANGED <<pool, thread_pool, dangling, shutdown, queue_mutex, semaphore,
                 mainVars, downVars, sent, closes, undefined>>

WorkerUnlock(w) ==
  /\ WorkerGo(w, "taken", "sem_wait") /\ Unlock(w)
  /\ UNCHANGED <<poolVars, task, semaphore, mainVars, downVars, sent, closes, undefined>>

\* Mutant: sem_trywait, and its result is ignored.
SemTryWait(w) == /\ WorkerGo(w, "sem_wait", "handle")
                 /\ semaphore' = IF semaphore > 0 THEN semaphore - 1 ELSE 0
                 /\ UNCHANGED <<poolVars, queue_mutex, task, mainVars, downVars, sent, closes, undefined>>

SemWait(w) == /\ WorkerGo(w, "sem_wait", "handle")
              /\ semaphore > 0
              /\ semaphore' = semaphore - 1
              /\ UNCHANGED <<poolVars, queue_mutex, task, mainVars, downVars, sent, closes, undefined>>

\* handle_client_request: recv returns, and the socket is closed on every path.
HandleClient(w) ==
  /\ WorkerGo(w, "handle", "sem_post")
  /\ task[w] \in sent
  /\ Close({task[w]})
  /\ task' = [task EXCEPT ![w] = NoClient]
  /\ UNCHANGED <<poolVars, queue_mutex, semaphore, mainVars, downVars, sent, undefined>>

\* Mutant: a path leaves the worker without sem_post.
SemPostForgotten(w) == /\ WorkerGo(w, "sem_post", "top")
                       /\ UNCHANGED <<poolVars, queue_mutex, task, semaphore, mainVars, downVars, sent, closes, undefined>>

SemPost(w) == /\ WorkerGo(w, "sem_post", "top")
              /\ semaphore' = semaphore + 1
              /\ UNCHANGED <<poolVars, queue_mutex, task, mainVars, downVars, sent, closes, undefined>>

-----------------------------------------------------------------------------
(* Main thread: thread_pool_create and the part of proxy_server_init and   *)
(* proxy_server_start around it, then thread_pool_add_task per connection. *)

Creating == {"alloc", "create", "create_failed", "create_join"}

MainGo(from, to) == /\ CanRun(Main)
                    /\ mpc = from
                    /\ mpc' = to

Started == {w \in Workers : wpc[w] # "unborn"}

\* proxy_server_init fails before there are workers, or after it has them, when
\* the cache or the connection pool cannot be created: main calls exit(1).
InitFails ==
  /\ \E from \in {"alloc", "listen"} : MainGo(from, "exited")
  /\ "alloc" \in Faults
  /\ UNCHANGED <<poolVars, queue_mutex, workVars, accepted, client_socket, downVars, sent, closes, undefined>>

CreatePool ==
  /\ MainGo("alloc", "create")
  /\ pool' = "live"
  /\ UNCHANGED <<thread_pool, queue, dangling, shutdown, queue_mutex, workVars,
                 accepted, client_socket, downVars, sent, closes, undefined>>

CreateWorker ==
  /\ MainGo("create", "create")
  /\ \E w \in Workers \ Started : /\ \A v \in Workers \ Started : w <= v
                                 /\ wpc' = [wpc EXCEPT ![w] = "top"]
  /\ UNCHANGED <<poolVars, queue_mutex, task, semaphore, accepted, client_socket, downVars, sent, closes, undefined>>

\* pthread_create fails: shutdown is set without the mutex,
CreateWorkerFails ==
  /\ MainGo("create", "create_failed") /\ Started # Workers /\ "create" \in Faults
  /\ shutdown' = TRUE
  /\ UNCHANGED <<pool, thread_pool, queue, dangling, queue_mutex, workVars,
                 accepted, client_socket, downVars, sent, closes, undefined>>

\* the workers that wait are woken without it,
CreateBroadcast ==
  /\ MainGo("create_failed", "create_join")
  /\ CondBroadcast
  /\ UNCHANGED <<poolVars, queue_mutex, task, semaphore, accepted, client_socket, downVars, sent, closes, undefined>>

\* and once they all have exited the pool is freed, and main calls exit(1).
CreateGivesUp ==
  /\ MainGo("create_join", "exited")
  /\ \A w \in Started : wpc[w] = "exited"
  /\ pool' = "freed"
  /\ UNCHANGED <<thread_pool, queue, dangling, shutdown, queue_mutex, workVars,
                 accepted, client_socket, downVars, sent, closes, undefined>>

CreateReturns ==
  /\ MainGo("create", "listen") /\ Started = Workers
  /\ thread_pool' = TRUE
  /\ UNCHANGED <<pool, queue, dangling, shutdown, queue_mutex, workVars,
                 accepted, client_socket, downVars, sent, closes, undefined>>

Listen == /\ MainGo("listen", "accept")
          /\ UNCHANGED <<poolVars, queue_mutex, workVars, accepted, client_socket, downVars, sent, closes, undefined>>

\* A thread calls proxy_server_shutdown; a shutdown it was in is never resumed.
BeginShutdown(t) == /\ shutdowns < NumShutdowns
                    /\ shutdowns' = shutdowns + 1
                    /\ late' = (late \/ teardowns > 0)
                    /\ hpc' = [hpc EXCEPT ![t] = "enter"]
                    /\ UNCHANGED <<poolVars, queue_mutex, workVars, mainVars, teardowns, sent, closes, undefined>>

\* No server socket: proxy_server_start returns, main itself shuts down.
ListenFails ==
  /\ CanRun(Main) /\ mpc = "listen" /\ "listen" \in Faults
  /\ BeginShutdown(Main)

Accept == /\ MainGo("accept", "add_task") /\ accepted < NumClients
          /\ accepted' = accepted + 1
          /\ client_socket' = accepted + 1
          /\ UNCHANGED <<poolVars, queue_mutex, workVars, downVars, sent, closes, undefined>>

\* Mutant: the accept loop ignores the result of thread_pool_add_task.
AddTaskFailureIgnored ==
  /\ MainGo("add_task", "accept") /\ (~thread_pool \/ "malloc" \in Faults)
  /\ client_socket' = NoClient
  /\ UNCHANGED <<poolVars, queue_mutex, workVars, accepted, downVars, sent, closes, undefined>>

\* thread_pool_add_task returns -1: the accept loop closes the connection.
AddTaskFails ==
  /\ MainGo("add_task", "accept") /\ (~thread_pool \/ "malloc" \in Faults)
  /\ Close({client_socket})
  /\ client_socket' = NoClient
  /\ UNCHANGED <<poolVars, queue_mutex, workVars, accepted, downVars, sent, undefined>>

AddTaskCalled ==
  /\ MainGo("add_task", "add_lock") /\ thread_pool
  /\ UNCHANGED <<poolVars, queue_mutex, workVars, accepted, client_socket, downVars, sent, closes, undefined>>

AddTaskLock ==
  /\ MainGo("add_lock", "add_link") /\ pool # "freed" /\ Lock(Main)
  /\ UNCHANGED <<poolVars, workVars, accepted, client_socket, downVars, sent, closes, undefined>>

\* Mutant: a worker is signalled only when the queue was empty.
AddTaskLinkSignalsFirst ==
  /\ MainGo("add_link", "add_unlock") /\ pool # "freed" /\ ~dangling
  /\ queue' = Append(queue, client_socket)
  /\ client_socket' = NoClient
  /\ IF queue = <<>> THEN CondSignal ELSE UNCHANGED wpc
  /\ UNCHANGED <<pool, thread_pool, dangling, shutdown, queue_mutex, task, semaphore,
                 accepted, downVars, sent, closes, undefined>>

\* Mutant: no worker is signalled.
AddTaskLinkNoSignal ==
  /\ MainGo("add_link", "add_unlock") /\ pool # "freed" /\ ~dangling
  /\ queue' = Append(queue, client_socket)
  /\ client_socket' = NoClient
  /\ UNCHANGED <<pool, thread_pool, dangling, shutdown, queue_mutex, workVars,
                 accepted, downVars, sent, closes, undefined>>

AddTaskLink ==
  /\ MainGo("add_link", "add_unlock") /\ pool # "freed" /\ ~dangling
  /\ queue' = Append(queue, client_socket)
  /\ client_socket' = NoClient
  /\ CondSignal
  /\ UNCHANGED <<pool, thread_pool, dangling, shutdown, queue_mutex, task, semaphore,
                 accepted, downVars, sent, closes, undefined>>

AddTaskUnlock ==
  /\ MainGo("add_unlock", "accept") /\ pool # "freed" /\ Unlock(Main)
  /\ UNCHANGED <<poolVars, workVars, accepted, client_socket, downVars, sent, closes, undefined>>

-----------------------------------------------------------------------------
(* Shutdown: signal_handler, proxy_server_shutdown, thread_pool_destroy.   *)

\* Where the next step of thread_pool_destroy reads or writes the pool.
DestroyAtPool == {"lock", "set", "unlock", "join", "drain_lock", "drain", "drain_unlock", "free"}

HandlerMoves(t, from, to) == /\ ~Halted
                             /\ from \in DestroyAtPool => pool # "freed"
                             /\ hpc[t] = from
                             /\ hpc' = [hpc EXCEPT ![t] = to]
                             /\ UNCHANGED <<shutdowns, late>>
HandlerGo(t, from, to)    == HandlerMoves(t, from, to) /\ UNCHANGED teardowns
HandlerTears(t, from, to) == HandlerMoves(t, from, to) /\ teardowns' = teardowns + 1

\* SIGINT and SIGTERM each have the handler.  It interrupts a thread wherever that
\* is, in another shutdown also; the thread made for it handles one signal only.
Signal(t) ==
  /\ ~Halted /\ t \in Carriers
  /\ t \in Workers => wpc[t] \notin {"unborn", "exited"}
  /\ t = Own => hpc[t] = "none"
  /\ BeginShutdown(t)

ShutdownEnters(t) ==
  /\ HandlerGo(t, "enter", "lock") /\ thread_pool
  /\ UNCHANGED <<poolVars, queue_mutex, workVars, mainVars, sent, closes, undefined>>

\* There is no pool yet, or no more: on to the cache and the connections.
ShutdownSkipsPool(t) ==
  /\ HandlerTears(t, "enter", "exit") /\ ~thread_pool
  /\ UNCHANGED <<poolVars, queue_mutex, workVars, mainVars, sent, closes, undefined>>

DestroyLock(t) ==
  /\ HandlerGo(t, "lock", "set") /\ Lock(t)
  /\ UNCHANGED <<poolVars, workVars, mainVars, sent, closes, undefined>>

\* Mutant: shutdown wakes one worker only.
DestroySignalsOne(t) ==
  /\ HandlerGo(t, "set", "unlock")
  /\ shutdown' = TRUE
  /\ CondSignal
  /\ UNCHANGED <<pool, thread_pool, queue, dangling, queue_mutex, task, semaphore, mainVars, sent, closes, undefined>>

DestroySignals(t) ==
  /\ HandlerGo(t, "set", "unlock")
  /\ shutdown' = TRUE
  /\ CondBroadcast
  /\ UNCHANGED <<pool, thread_pool, queue, dangling, queue_mutex, task, semaphore, mainVars, sent, closes, undefined>>

DestroyUnlock(t) ==
  /\ HandlerTears(t, "unlock", "join") /\ Unlock(t)
  /\ UNCHANGED <<poolVars, workVars, mainVars, sent, closes, undefined>>

\* pthread_join waits for the worker to exit.  That of the calling thread fails at
\* once (EDEADLK), and where two shutdowns join the same workers POSIX defines no
\* result: glibc returns an error at once.
Joined(t, w) == wpc[w] = "exited" \/ w = t \/ teardowns > 1

\* Mutant: the workers are detached, not joined.
DestroyDetach(t) ==
  /\ HandlerGo(t, "join", "drain_lock")
  /\ UNCHANGED <<poolVars, queue_mutex, workVars, mainVars, sent, closes, undefined>>

DestroyJoin(t) ==
  /\ HandlerGo(t, "join", "drain_lock")
  /\ \A w \in Workers : Joined(t, w)
  /\ UNCHANGED <<poolVars, queue_mutex, workVars, mainVars, sent, closes, undefined>>

DrainLock(t) ==
  /\ HandlerGo(t, "drain_lock", "drain") /\ Lock(t)
  /\ UNCHANGED <<poolVars, workVars, mainVars, sent, closes, undefined>>

\* Mutant: only the tasks are freed.
DrainFreesOnly(t) ==
  /\ HandlerGo(t, "drain", "drain_unlock") /\ ~dangling
  /\ queue' = <<>>
  /\ dangling' = (queue # <<>>)
  /\ UNCHANGED <<pool, thread_pool, shutdown, queue_mutex, workVars, mainVars, sent, closes, undefined>>

\* Every queued socket is closed and its task freed; the head is not reset.
Drain(t) ==
  /\ HandlerGo(t, "drain", "drain_unlock") /\ ~dangling
  /\ Close({queue[i] : i \in 1..Len(queue)})
  /\ queue' = <<>>
  /\ dangling' = (queue # <<>>)
  /\ UNCHANGED <<pool, thread_pool, shutdown, queue_mutex, workVars, mainVars, sent, undefined>>

DrainUnlock(t) ==
  /\ HandlerGo(t, "drain_unlock", "free") /\ Unlock(t)
  /\ UNCHANGED <<poolVars, workVars, mainVars, sent, closes, undefined>>

DestroyFree(t) ==
  /\ HandlerGo(t, "free", "clear")
  /\ pool' = "freed"
  /\ UNCHANGED <<thread_pool, queue, dangling, shutdown, queue_mutex, workVars, mainVars, sent, closes, undefined>>

ClearPointer(t) ==
  /\ HandlerGo(t, "clear", "exit")
  /\ thread_pool' = FALSE
  /\ UNCHANGED <<pool, queue, dangling, shutdown, queue_mutex, workVars, mainVars, sent, closes, undefined>>

\* The rest of proxy_server_shutdown, then exit(0) or the return of main.
ProcessExits(t) ==
  /\ HandlerGo(t, "exit", "exited")
  /\ UNCHANGED <<poolVars, queue_mutex, workVars, mainVars, sent, closes, undefined>>

-----------------------------------------------------------------------------
(* A thread follows a pointer to memory that was freed.                    *)

WorkerUsesFreedPool(w) == CanRun(w) /\ pool = "freed" /\ wpc[w] \in AtPool

MainUsesFreedPool ==
  /\ CanRun(Main)
  /\ \/ pool = "freed" /\ mpc \in {"add_lock", "add_link", "add_unlock"}
     \/ dangling /\ mpc = "add_link"

\* thread_pool still points to the freed pool until ClearPointer, and the head of the
\* queue to freed tasks; two shutdowns may join the same workers, or destroy the same
\* cache and connections, which are made after the pool.
ShutdownUsesFreed(t) ==
  /\ ~Halted
  /\ \/ pool = "freed" /\ hpc[t] \in DestroyAtPool
     \/ dangling /\ hpc[t] = "drain"
     \/ teardowns > 1 /\ hpc[t] = "join"
     \/ teardowns > 1 /\ hpc[t] = "exit" /\ mpc \notin Creating

UseAfterFree ==
  /\ \/ MainUsesFreedPool
     \/ \E w \in Workers : WorkerUsesFreedPool(w)
     \/ \E t \in Threads : ShutdownUsesFreed(t)
  /\ undefined' = TRUE
  /\ UNCHANGED <<poolVars, queue_mutex, workVars, mainVars, downVars, sent, closes>>

-----------------------------------------------------------------------------
\* A client sends its request, or closes its end, when it likes.
ClientSends(c) ==
  /\ ~Halted /\ c <= accepted /\ c \notin sent
  /\ sent' = sent \cup {c}
  /\ UNCHANGED <<poolVars, queue_mutex, workVars, mainVars, downVars, closes, undefined>>

WorkerStep(w) ==
  \/ WorkerLock(w) \/ WorkerFindsNothing(w) \/ WorkerWait(w) \/ WorkerWakes(w)
  \/ WorkerExits(w) \/ WorkerTakes(w) \/ WorkerUnlock(w) \/ SemWait(w)
  \/ HandleClient(w) \/ SemPost(w)

CreateStep == InitFails \/ CreatePool \/ CreateWorker \/ CreateWorkerFails
              \/ CreateBroadcast \/ CreateGivesUp \/ CreateReturns
AddTaskStep == AddTaskFails \/ AddTaskCalled \/ AddTaskLock \/ AddTaskLink \/ AddTaskUnlock

ShutdownStep(t) ==
  \/ ShutdownEnters(t) \/ ShutdownSkipsPool(t)
  \/ DestroyLock(t) \/ DestroySignals(t) \/ DestroyUnlock(t) \/ DestroyJoin(t)
  \/ DrainLock(t) \/ Drain(t) \/ DrainUnlock(t) \/ DestroyFree(t)
  \/ ClearPointer(t) \/ ProcessExits(t)

\* The process is over.
Terminated == Halted /\ UNCHANGED vars

Next == \/ \E w \in Workers : WorkerStep(w) \/ SpuriousWakeup(w)
        \/ CreateStep \/ Listen \/ ListenFails \/ Accept \/ AddTaskStep
        \/ \E t \in Threads : Signal(t) \/ ShutdownStep(t)
        \/ UseAfterFree
        \/ \E c \in Clients : ClientSends(c)
        \/ Terminated

Spec == Init /\ [][Next]_vars

(***************************************************************************)
(* A thread that can run goes on running.  Nothing is assumed of the order *)
(* in which the mutex and the semaphore are granted; connections, signals, *)
(* failures and spurious wakeups are owed to nobody.                       *)
(***************************************************************************)
Fairness == /\ \A w \in Workers : WF_vars(WorkerStep(w))
            /\ WF_vars(CreateStep) /\ WF_vars(Listen) /\ WF_vars(AddTaskStep)
            /\ \A t \in Threads : WF_vars(ShutdownStep(t))

FairSpec == Spec /\ Fairness

\* In addition every client sends its request, or goes, sooner or later.
TalkingClients == \A c \in Clients : WF_vars(ClientSends(c))
FairSpecTalking == FairSpec /\ TalkingClients

-----------------------------------------------------------------------------
(* What must hold.                                                         *)

WorkerPlaces == {"unborn", "top", "locked", "cond_wait", "waiting", "woken",
                 "taken", "sem_wait", "handle", "sem_post", "exited"}
MainPlaces == {"alloc", "create", "create_failed", "create_join", "listen", "accept",
               "add_task", "add_lock", "add_link", "add_unlock", "exited"}
HandlerPlaces == {"none", "enter", "lock", "set", "unlock", "join", "drain_lock",
                  "drain", "drain_unlock", "free", "clear", "exit", "exited"}

\* The types; the semaphore never exceeds the number of clients it admits.
TypeOK == /\ pool \in {"none", "live", "freed"} /\ thread_pool \in BOOLEAN
          /\ queue \in Seq(Clients) /\ dangling \in BOOLEAN /\ shutdown \in BOOLEAN
          /\ queue_mutex \in Threads \cup {NoThread}
          /\ semaphore \in 0..MAX_CLIENTS
          /\ wpc \in [Workers -> WorkerPlaces]
          /\ task \in [Workers -> Clients \cup {NoClient}]
          /\ mpc \in MainPlaces /\ accepted \in 0..NumClients
          /\ client_socket \in Clients \cup {NoClient}
          /\ hpc \in [Threads -> HandlerPlaces]
          /\ shutdowns \in Nat /\ teardowns \in Nat /\ late \in BOOLEAN
          /\ sent \subseteq Clients
          /\ closes \in [Clients -> Nat]
          /\ undefined \in BOOLEAN

\* Connection limiting (thread_pool.c:49): the units of the semaphore are never
\* lost or invented, so at most MAX_CLIENTS requests are handled at a time.
Admitted == {w \in Workers : wpc[w] \in {"handle", "sem_post"}}
SemaphoreBalanced == semaphore + Cardinality(Admitted) = MAX_CLIENTS

\* No wakeup is lost (thread_pool.c:23-25, 147): while a worker sleeps, every
\* queued task has a worker of its own that is on its way to the queue.
Coming == {w \in Workers : wpc[w] \in {"top", "locked", "woken"}}
WorkConserving == ~shutdown /\ Waiting # {} => Len(queue) <= Cardinality(Coming)

\* An accepted socket is in exactly one place, the main thread's hand, the queue
\* or one worker, until it is closed, and it is closed once: it is neither
\* leaked nor closed again when the number may already name another connection.
Queued    == {queue[i] : i \in 1..Len(queue)}
InService == {task[w] : w \in Workers} \ {NoClient}
OwnedOnce ==
  /\ \A i, j \in 1..Len(queue) : queue[i] = queue[j] => i = j
  /\ \A v, w \in Workers : task[v] = task[w] /\ task[v] # NoClient => v = w
  /\ Queued \cap InService = {}
  /\ client_socket \notin Queued \cup InService
  /\ \A c \in Clients :
       closes[c] = IF c <= accepted /\ c \notin Queued \cup InService \cup {client_socket}
                   THEN 1 ELSE 0

\* Every shutdown ran on the main thread, and none began when another had come so
\* far as to join the workers: a signal may interrupt main anywhere before that.
MainCarries == ~late /\ \A t \in Threads \ {Main} : hpc[t] = "none"

\* When such a shutdown has freed the pool, no accepted connection is left open but
\* the one that the main thread was about to submit (thread_pool.c:170-178).
ShutdownDrains ==
  MainCarries /\ pool = "freed" => \A c \in 1..accepted : closes[c] = 1 \/ c = client_socket

\* No thread follows a pointer to the pool, or to a task, that was freed.
NoUseAfterFree == ~undefined

\* ... if shutdown runs on the main thread only and no signal comes after the join
\* began.  Both conditions are needed: from there until components/proxy_server.c:97
\* thread_pool still leads a second shutdown to workers that were joined, tasks that
\* were freed and then to the freed pool; on another thread see NoUseAfterFree.
MainShutdownSafe == MainCarries => NoUseAfterFree

\* Whatever threads carry shutdowns, if one of them only comes to the join: when
\* proxy_server_shutdown goes on to the cache and the connection pool
\* (components/proxy_server.c:100-108), no worker is left that could be in the middle
\* of a request, unless it is one that a signal interrupted.
TeardownAlone ==
  teardowns <= 1 /\ pool = "freed" =>
    \A w \in Workers : wpc[w] \in {"unborn", "exited"} \/ hpc[w] # "none"

\* The pool implements the abstract dispatcher: first come first served, each
\* connection by one worker, each one closed once.
Phase == [c \in Clients |-> CASE c > accepted       -> "unborn"
                              [] c = client_socket  -> "held"
                              [] c \in Queued       -> "waiting"
                              [] c \in InService    -> "served"
                              [] OTHER              -> "closed"]
Dispatch == INSTANCE TaskDispatch WITH Servers <- Workers, Nobody <- NoClient,
                                       phase <- Phase, line <- queue, serving <- task
ImplementsDispatch == Dispatch!Spec

\* Every accepted connection is served or refused in the end, unless shutdown begins.
EveryClientServed == \A c \in Clients :
  c <= accepted ~> closes[c] = 1 \/ shutdowns > 0

\* A signal ends the process (proxy_server.c:19-24, "graceful shutdown").
ShutdownTerminates == shutdowns > 0 ~> Halted

\* A pool that cannot create all its workers is given up, and the process ends
\* (thread_pool.c:99-110, "Cleanup already created threads").
CreateFailureReturns == mpc = "create_failed" ~> mpc = "exited"
=============================================================================
