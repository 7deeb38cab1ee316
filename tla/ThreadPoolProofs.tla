------------------------- MODULE ThreadPoolProofs -------------------------
(***************************************************************************)
(* Theorems about ThreadPool, for every number of workers, clients and     *)
(* semaphore units, every set of faults and every set of threads that a    *)
(* signal may interrupt.                                                   *)
(*                                                                         *)
(* The invariants are proved in layers, each from those before it:         *)
(*   Types, Hands          the types; who holds a connection at which place *)
(*   Exclusion, Sleepers   what the mutex protects                         *)
(*   SemaphoreBalanced, WorkConserving                                     *)
(*   Known, OwnedOnce      the ownership of the accepted connections       *)
(*   Down                  what shutdown on the main thread may rely on    *)
(*   Alone                 what shutdown on any thread may rely on         *)
(*   Phases                the refinement mapping                          *)
(***************************************************************************)
EXTENDS ThreadPool, TLAPS, FiniteSetTheorems, SequenceTheorems

\* TypeOK, but for the upper bound of the semaphore.
Types == /\ pool \in {"none", "live", "freed"} /\ thread_pool \in BOOLEAN
         /\ queue \in Seq(Clients) /\ dangling \in BOOLEAN /\ shutdown \in BOOLEAN
         /\ queue_mutex \in Threads \cup {NoThread}
         /\ semaphore \in Nat
         /\ wpc \in [Workers -> WorkerPlaces]
         /\ task \in [Workers -> Clients \cup {NoClient}]
         /\ mpc \in MainPlaces /\ accepted \in 0..NumClients
         /\ client_socket \in Clients \cup {NoClient}
         /\ hpc \in [Threads -> HandlerPlaces]
         /\ shutdowns \in Nat /\ teardowns \in Nat /\ late \in BOOLEAN
         /\ sent \subseteq Clients
         /\ closes \in [Clients -> Nat]
         /\ undefined \in BOOLEAN

\* A connection is in a thread's hand exactly at these places.
Hands ==
  /\ \A w \in Workers : task[w] # NoClient <=> wpc[w] \in {"taken", "sem_wait", "handle"}
  /\ client_socket # NoClient <=> mpc \in {"add_task", "add_lock", "add_link"}

\* A thread between lock and unlock is the owner of the mutex.  A thread that shuts
\* down takes it only when the code it interrupted, a shutdown also, is outside.
Inside == {"locked", "cond_wait", "taken"}
Exclusion ==
  /\ \A w \in Workers : wpc[w] \in Inside => queue_mutex = w
  /\ mpc \in {"add_link", "add_unlock"} => queue_mutex = Main
  /\ \A t \in Threads : hpc[t] \in {"set", "unlock", "drain", "drain_unlock"} =>
       /\ queue_mutex = t
       /\ \A w \in Workers : wpc[w] \notin Inside
       /\ mpc \notin {"add_link", "add_unlock"}

\* A worker that decided to wait still holds the mutex: no task came meanwhile.
Sleepers == \A w \in Workers : wpc[w] = "cond_wait" => queue = <<>> \/ shutdown

\* Only accepted connections are anywhere, and none before the pool is complete.
Known == /\ client_socket <= accepted
         /\ Queued \cup InService \subseteq 1..accepted
         /\ mpc \in {"alloc", "create", "create_failed", "create_join", "listen", "exited"} => accepted = 0

\* Shutdown on the main thread: nothing else submits, the workers have exited
\* before the queue is drained, and the queue is empty when the pool is freed.
Early == {"none", "enter", "lock", "set", "unlock"}
Down ==
  /\ MainCarries
  /\ teardowns = IF hpc[Main] \in Early THEN 0 ELSE 1
  /\ dangling => hpc[Main] \in {"drain_unlock", "free", "clear", "exit", "exited"}
  /\ hpc[Main] \in {"drain_lock", "drain", "drain_unlock", "free", "clear"} =>
       \A w \in Workers : wpc[w] = "exited"
  /\ hpc[Main] \in {"drain_unlock", "free", "clear"} => queue = <<>>
  /\ pool = "freed" /\ mpc # "exited" =>
       /\ hpc[Main] \in {"clear", "exit", "exited"}
       /\ queue = <<>>
       /\ \A w \in Workers : wpc[w] = "exited"
  /\ ~undefined

\* One shutdown that comes to the join, on any thread: after it no worker runs any
\* more, and whoever frees the pool comes from a join, of a shutdown or of a creation
\* that failed.
Gone  == \A w \in Workers : wpc[w] = "exited" \/ hpc[w] # "none"
Alone == teardowns <= 1 =>
           /\ \A t \in Threads : hpc[t] \in {"drain_lock", "drain", "drain_unlock", "free"} => Gone
           /\ pool = "freed" => Gone \/ (mpc = "exited" /\ TeardownAlone)

-----------------------------------------------------------------------------
(* Types, places and the mutex.                                            *)

LEMMA CloseTypes ==
  ASSUME NEW S, closes \in [Clients -> Nat], Close(S)
  PROVE  closes' \in [Clients -> Nat]
  BY DEF Close

LEMMA StepTypes == Types /\ Hands /\ [Next]_vars => Types'
<1> SUFFICES ASSUME Types, Hands, [Next]_vars PROVE Types'
  OBVIOUS
<1> USE SizesAssumption, CarriersAssumption DEF Types, poolVars, workVars, mainVars, downVars, Threads, Workers, Clients, Main, Own, NoThread, NoClient, WorkerPlaces, MainPlaces, HandlerPlaces
<1>1. ASSUME NEW w \in Workers, WorkerLock(w) PROVE Types'
  BY <1>1 DEF WorkerLock, WorkerGo, Lock
<1>2. ASSUME NEW w \in Workers, WorkerFindsNothing(w) PROVE Types'
  BY <1>2 DEF WorkerFindsNothing, WorkerGo
<1>3. ASSUME NEW w \in Workers, WorkerWait(w) PROVE Types'
  BY <1>3 DEF WorkerWait, WorkerGo, Unlock
<1>4. ASSUME NEW w \in Workers, WorkerWakes(w) PROVE Types'
  BY <1>4 DEF WorkerWakes, WorkerGo, Lock
<1>5. ASSUME NEW w \in Workers, WorkerExits(w) PROVE Types'
  BY <1>5 DEF WorkerExits, WorkerGo, Unlock
<1>6. ASSUME NEW w \in Workers, WorkerTakes(w) PROVE Types'
  BY <1>6 DEF WorkerTakes, WorkerGo
<1>7. ASSUME NEW w \in Workers, WorkerUnlock(w) PROVE Types'
  BY <1>7 DEF WorkerUnlock, WorkerGo, Unlock
<1>8. ASSUME NEW w \in Workers, SemWait(w) PROVE Types'
  BY <1>8 DEF SemWait, WorkerGo
<1>9. ASSUME NEW w \in Workers, HandleClient(w) PROVE Types'
  <2>1. task' \in [Workers -> Clients \cup {NoClient}] /\ wpc' \in [Workers -> WorkerPlaces]
    BY <1>9 DEF HandleClient, WorkerGo
  <2>2. closes' \in [Clients -> Nat]
    BY <1>9, CloseTypes DEF HandleClient
  <2> QED
    BY <1>9, <2>1, <2>2 DEF HandleClient, WorkerGo
<1>10. ASSUME NEW w \in Workers, SemPost(w) PROVE Types'
  BY <1>10 DEF SemPost, WorkerGo
<1>11. ASSUME NEW w \in Workers, SpuriousWakeup(w) PROVE Types'
  BY <1>11 DEF SpuriousWakeup, WorkerGo
<1>12. CASE InitFails
  BY <1>12 DEF InitFails, MainGo
<1>13. CASE CreatePool
  BY <1>13 DEF CreatePool, MainGo
<1>14. CASE CreateWorker
  BY <1>14 DEF CreateWorker, MainGo
<1>15. CASE CreateWorkerFails
  BY <1>15 DEF CreateWorkerFails, MainGo
<1>16. CASE CreateBroadcast
  BY <1>16 DEF CreateBroadcast, MainGo, CondBroadcast
<1>17. CASE CreateGivesUp
  BY <1>17 DEF CreateGivesUp, MainGo
<1>18. CASE CreateReturns
  BY <1>18 DEF CreateReturns, MainGo
<1>19. CASE Listen
  BY <1>19 DEF Listen, MainGo
<1>20. CASE ListenFails
  BY <1>20 DEF ListenFails, BeginShutdown
<1>21. CASE Accept
  BY <1>21 DEF Accept, MainGo
<1>22. CASE AddTaskFails
  BY <1>22, CloseTypes DEF AddTaskFails, MainGo
<1>23. CASE AddTaskCalled
  BY <1>23 DEF AddTaskCalled, MainGo
<1>24. CASE AddTaskLock
  BY <1>24 DEF AddTaskLock, MainGo, Lock
<1>25. CASE AddTaskLink
  <2>1. client_socket \in Clients
    BY <1>25 DEF AddTaskLink, MainGo, Hands
  <2>2. queue' \in Seq(Clients)
    BY <1>25, <2>1 DEF AddTaskLink
  <2>3. wpc' \in [Workers -> WorkerPlaces]
    BY <1>25 DEF AddTaskLink, CondSignal, Waiting
  <2> QED
    BY <1>25, <2>2, <2>3 DEF AddTaskLink, MainGo
<1>26. CASE AddTaskUnlock
  BY <1>26 DEF AddTaskUnlock, MainGo, Unlock
<1>27. ASSUME NEW t \in Threads, ShutdownEnters(t) PROVE Types'
  BY <1>27 DEF ShutdownEnters, HandlerGo, HandlerMoves
<1>28. ASSUME NEW t \in Threads, DestroyLock(t) PROVE Types'
  BY <1>28 DEF DestroyLock, HandlerGo, HandlerMoves, Lock
<1>29. ASSUME NEW t \in Threads, DestroySignals(t) PROVE Types'
  BY <1>29 DEF DestroySignals, HandlerGo, HandlerMoves, CondBroadcast
<1>30. ASSUME NEW t \in Threads, DestroyUnlock(t) PROVE Types'
  BY <1>30 DEF DestroyUnlock, HandlerTears, HandlerMoves, Unlock
<1>31. ASSUME NEW t \in Threads, DestroyJoin(t) PROVE Types'
  BY <1>31 DEF DestroyJoin, HandlerGo, HandlerMoves
<1>32. ASSUME NEW t \in Threads, DrainLock(t) PROVE Types'
  BY <1>32 DEF DrainLock, HandlerGo, HandlerMoves, Lock
<1>33. ASSUME NEW t \in Threads, Drain(t) PROVE Types'
  <2>1. dangling' \in BOOLEAN /\ queue' \in Seq(Clients)
    BY <1>33 DEF Drain
  <2>2. closes' \in [Clients -> Nat]
    BY <1>33, CloseTypes DEF Drain
  <2>3. /\ UNCHANGED <<pool, thread_pool, shutdown, queue_mutex, workVars, mainVars, shutdowns, teardowns, late, sent, undefined>>
        /\ hpc' \in [Threads -> HandlerPlaces]
    BY <1>33 DEF Drain, HandlerGo, HandlerMoves
  <2> QED
    BY <2>1, <2>2, <2>3
<1>34. ASSUME NEW t \in Threads, DrainUnlock(t) PROVE Types'
  BY <1>34 DEF DrainUnlock, HandlerGo, HandlerMoves, Unlock
<1>35. ASSUME NEW t \in Threads, DestroyFree(t) PROVE Types'
  BY <1>35 DEF DestroyFree, HandlerGo, HandlerMoves
<1>36. ASSUME NEW t \in Threads, ClearPointer(t) PROVE Types'
  <2>1. thread_pool' \in BOOLEAN
    BY <1>36 DEF ClearPointer
  <2> QED
    BY <1>36, <2>1 DEF ClearPointer, HandlerGo, HandlerMoves
<1>37. ASSUME NEW t \in Threads, ProcessExits(t) PROVE Types'
  BY <1>37 DEF ProcessExits, HandlerGo, HandlerMoves
<1>38. ASSUME NEW t \in Threads, Signal(t) PROVE Types'
  BY <1>38 DEF Signal, BeginShutdown
<1>39. CASE UseAfterFree
  BY <1>39 DEF UseAfterFree
<1>40. ASSUME NEW c \in Clients, ClientSends(c) PROVE Types'
  BY <1>40 DEF ClientSends
<1>41. CASE UNCHANGED vars
  BY <1>41 DEF vars
<1>42. ASSUME NEW t \in Threads, ShutdownSkipsPool(t) PROVE Types'
  BY <1>42 DEF ShutdownSkipsPool, HandlerTears, HandlerMoves
<1> QED
  BY <1>1, <1>2, <1>3, <1>4, <1>5, <1>6, <1>7, <1>8, <1>9, <1>10, <1>11, <1>12, <1>13, <1>14, <1>15, <1>16, <1>17, <1>18, <1>19, <1>20, <1>21, <1>22, <1>23, <1>24, <1>25, <1>26, <1>27, <1>28, <1>29, <1>30, <1>31, <1>32, <1>33, <1>34, <1>35, <1>36, <1>37, <1>38, <1>39, <1>40, <1>41, <1>42 DEF Next, WorkerStep, CreateStep, AddTaskStep, ShutdownStep, Terminated

LEMMA StepExclusion == Types /\ Exclusion /\ [Next]_vars => Exclusion'
<1> SUFFICES ASSUME Types, Exclusion, [Next]_vars PROVE Exclusion'
  OBVIOUS
<1> USE SizesAssumption, CarriersAssumption DEF Types, Exclusion, Inside, poolVars, workVars, mainVars, downVars, Threads, Workers, Clients, Main, Own, NoThread, NoClient
<1>1. ASSUME NEW w \in Workers, WorkerLock(w) PROVE Exclusion'
  BY <1>1 DEF WorkerLock, WorkerGo, Lock
<1>2. ASSUME NEW w \in Workers, WorkerFindsNothing(w) PROVE Exclusion'
  BY <1>2 DEF WorkerFindsNothing, WorkerGo
<1>3. ASSUME NEW w \in Workers, WorkerWait(w) PROVE Exclusion'
  BY <1>3 DEF WorkerWait, WorkerGo, Unlock
<1>4. ASSUME NEW w \in Workers, WorkerWakes(w) PROVE Exclusion'
  BY <1>4 DEF WorkerWakes, WorkerGo, Lock
<1>5. ASSUME NEW w \in Workers, WorkerExits(w) PROVE Exclusion'
  BY <1>5 DEF WorkerExits, WorkerGo, Unlock
<1>6. ASSUME NEW w \in Workers, WorkerTakes(w) PROVE Exclusion'
  BY <1>6 DEF WorkerTakes, WorkerGo
<1>7. ASSUME NEW w \in Workers, WorkerUnlock(w) PROVE Exclusion'
  BY <1>7 DEF WorkerUnlock, WorkerGo, Unlock
<1>8. ASSUME NEW w \in Workers, SemWait(w) PROVE Exclusion'
  BY <1>8 DEF SemWait, WorkerGo
<1>9. ASSUME NEW w \in Workers, HandleClient(w) PROVE Exclusion'
  BY <1>9 DEF HandleClient, WorkerGo, Close
<1>10. ASSUME NEW w \in Workers, SemPost(w) PROVE Exclusion'
  BY <1>10 DEF SemPost, WorkerGo
<1>11. ASSUME NEW w \in Workers, SpuriousWakeup(w) PROVE Exclusion'
  BY <1>11 DEF SpuriousWakeup, WorkerGo
<1>12. CASE InitFails
  BY <1>12 DEF InitFails, MainGo
<1>13. CASE CreatePool
  BY <1>13 DEF CreatePool, MainGo
<1>14. CASE CreateWorker
  BY <1>14 DEF CreateWorker, MainGo
<1>15. CASE CreateWorkerFails
  BY <1>15 DEF CreateWorkerFails, MainGo
<1>16. CASE CreateBroadcast
  BY <1>16 DEF CreateBroadcast, MainGo, CondBroadcast
<1>17. CASE CreateGivesUp
  BY <1>17 DEF CreateGivesUp, MainGo
<1>18. CASE CreateReturns
  BY <1>18 DEF CreateReturns, MainGo
<1>19. CASE Listen
  BY <1>19 DEF Listen, MainGo
<1>20. CASE ListenFails
  BY <1>20 DEF ListenFails, BeginShutdown
<1>21. CASE Accept
  BY <1>21 DEF Accept, MainGo
<1>22. CASE AddTaskFails
  BY <1>22 DEF AddTaskFails, MainGo, Close
<1>23. CASE AddTaskCalled
  BY <1>23 DEF AddTaskCalled, MainGo
<1>24. CASE AddTaskLock
  BY <1>24 DEF AddTaskLock, MainGo, Lock
<1>25. CASE AddTaskLink
  BY <1>25 DEF AddTaskLink, MainGo, CondSignal, Waiting
<1>26. CASE AddTaskUnlock
  BY <1>26 DEF AddTaskUnlock, MainGo, Unlock
<1>27. ASSUME NEW t \in Threads, ShutdownEnters(t) PROVE Exclusion'
  BY <1>27 DEF ShutdownEnters, HandlerGo, HandlerMoves
<1>28. ASSUME NEW t \in Threads, DestroyLock(t) PROVE Exclusion'
  BY <1>28 DEF DestroyLock, HandlerGo, HandlerMoves, Lock
<1>29. ASSUME NEW t \in Threads, DestroySignals(t) PROVE Exclusion'
  BY <1>29 DEF DestroySignals, HandlerGo, HandlerMoves, CondBroadcast
<1>30. ASSUME NEW t \in Threads, DestroyUnlock(t) PROVE Exclusion'
  BY <1>30 DEF DestroyUnlock, HandlerTears, HandlerMoves, Unlock
<1>31. ASSUME NEW t \in Threads, DestroyJoin(t) PROVE Exclusion'
  BY <1>31 DEF DestroyJoin, HandlerGo, HandlerMoves
<1>32. ASSUME NEW t \in Threads, DrainLock(t) PROVE Exclusion'
  BY <1>32 DEF DrainLock, HandlerGo, HandlerMoves, Lock
<1>33. ASSUME NEW t \in Threads, Drain(t) PROVE Exclusion'
  BY <1>33 DEF Drain, HandlerGo, HandlerMoves, Close
<1>34. ASSUME NEW t \in Threads, DrainUnlock(t) PROVE Exclusion'
  BY <1>34 DEF DrainUnlock, HandlerGo, HandlerMoves, Unlock
<1>35. ASSUME NEW t \in Threads, DestroyFree(t) PROVE Exclusion'
  BY <1>35 DEF DestroyFree, HandlerGo, HandlerMoves
<1>36. ASSUME NEW t \in Threads, ClearPointer(t) PROVE Exclusion'
  BY <1>36 DEF ClearPointer, HandlerGo, HandlerMoves
<1>37. ASSUME NEW t \in Threads, ProcessExits(t) PROVE Exclusion'
  BY <1>37 DEF ProcessExits, HandlerGo, HandlerMoves
<1>38. ASSUME NEW t \in Threads, Signal(t) PROVE Exclusion'
  BY <1>38 DEF Signal, BeginShutdown
<1>39. CASE UseAfterFree
  BY <1>39 DEF UseAfterFree
<1>40. ASSUME NEW c \in Clients, ClientSends(c) PROVE Exclusion'
  BY <1>40 DEF ClientSends
<1>41. CASE UNCHANGED vars
  BY <1>41 DEF vars
<1>42. ASSUME NEW t \in Threads, ShutdownSkipsPool(t) PROVE Exclusion'
  BY <1>42 DEF ShutdownSkipsPool, HandlerTears, HandlerMoves
<1> QED
  BY <1>1, <1>2, <1>3, <1>4, <1>5, <1>6, <1>7, <1>8, <1>9, <1>10, <1>11, <1>12, <1>13, <1>14, <1>15, <1>16, <1>17, <1>18, <1>19, <1>20, <1>21, <1>22, <1>23, <1>24, <1>25, <1>26, <1>27, <1>28, <1>29, <1>30, <1>31, <1>32, <1>33, <1>34, <1>35, <1>36, <1>37, <1>38, <1>39, <1>40, <1>41, <1>42 DEF Next, WorkerStep, CreateStep, AddTaskStep, ShutdownStep, Terminated

LEMMA StepHands == Types /\ Hands /\ [Next]_vars => Hands'
<1> SUFFICES ASSUME Types, Hands, [Next]_vars PROVE Hands'
  OBVIOUS
<1> USE SizesAssumption, CarriersAssumption DEF Types, Exclusion, Hands, Inside, poolVars, workVars, mainVars, downVars, Threads, Workers, Clients, Main, Own, NoThread, NoClient
<1>1. ASSUME NEW w \in Workers, WorkerLock(w) PROVE Hands'
  BY <1>1 DEF WorkerLock, WorkerGo, Lock
<1>2. ASSUME NEW w \in Workers, WorkerFindsNothing(w) PROVE Hands'
  BY <1>2 DEF WorkerFindsNothing, WorkerGo
<1>3. ASSUME NEW w \in Workers, WorkerWait(w) PROVE Hands'
  BY <1>3 DEF WorkerWait, WorkerGo, Unlock
<1>4. ASSUME NEW w \in Workers, WorkerWakes(w) PROVE Hands'
  BY <1>4 DEF WorkerWakes, WorkerGo, Lock
<1>5. ASSUME NEW w \in Workers, WorkerExits(w) PROVE Hands'
  BY <1>5 DEF WorkerExits, WorkerGo, Unlock
<1>6. ASSUME NEW w \in Workers, WorkerTakes(w) PROVE Hands'
  BY <1>6 DEF WorkerTakes, WorkerGo
<1>7. ASSUME NEW w \in Workers, WorkerUnlock(w) PROVE Hands'
  BY <1>7 DEF WorkerUnlock, WorkerGo, Unlock
<1>8. ASSUME NEW w \in Workers, SemWait(w) PROVE Hands'
  BY <1>8 DEF SemWait, WorkerGo
<1>9. ASSUME NEW w \in Workers, HandleClient(w) PROVE Hands'
  BY <1>9 DEF HandleClient, WorkerGo, Close
<1>10. ASSUME NEW w \in Workers, SemPost(w) PROVE Hands'
  BY <1>10 DEF SemPost, WorkerGo
<1>11. ASSUME NEW w \in Workers, SpuriousWakeup(w) PROVE Hands'
  BY <1>11 DEF SpuriousWakeup, WorkerGo
<1>12. CASE InitFails
  BY <1>12 DEF InitFails, MainGo
<1>13. CASE CreatePool
  BY <1>13 DEF CreatePool, MainGo
<1>14. CASE CreateWorker
  <2>1. PICK w \in Workers : wpc[w] = "unborn" /\ wpc' = [wpc EXCEPT ![w] = "top"]
    BY <1>14 DEF CreateWorker, Started
  <2> QED
    BY <1>14, <2>1 DEF CreateWorker, MainGo
<1>15. CASE CreateWorkerFails
  BY <1>15 DEF CreateWorkerFails, MainGo
<1>16. CASE CreateBroadcast
  BY <1>16 DEF CreateBroadcast, MainGo, CondBroadcast
<1>17. CASE CreateGivesUp
  BY <1>17 DEF CreateGivesUp, MainGo
<1>18. CASE CreateReturns
  BY <1>18 DEF CreateReturns, MainGo
<1>19. CASE Listen
  BY <1>19 DEF Listen, MainGo
<1>20. CASE ListenFails
  BY <1>20 DEF ListenFails, BeginShutdown
<1>21. CASE Accept
  BY <1>21 DEF Accept, MainGo
<1>22. CASE AddTaskFails
  BY <1>22 DEF AddTaskFails, MainGo, Close
<1>23. CASE AddTaskCalled
  BY <1>23 DEF AddTaskCalled, MainGo
<1>24. CASE AddTaskLock
  BY <1>24 DEF AddTaskLock, MainGo, Lock
<1>25. CASE AddTaskLink
  BY <1>25 DEF AddTaskLink, MainGo, CondSignal, Waiting
<1>26. CASE AddTaskUnlock
  BY <1>26 DEF AddTaskUnlock, MainGo, Unlock
<1>27. ASSUME NEW t \in Threads, ShutdownEnters(t) PROVE Hands'
  BY <1>27 DEF ShutdownEnters, HandlerGo, HandlerMoves
<1>28. ASSUME NEW t \in Threads, DestroyLock(t) PROVE Hands'
  BY <1>28 DEF DestroyLock, HandlerGo, HandlerMoves, Lock
<1>29. ASSUME NEW t \in Threads, DestroySignals(t) PROVE Hands'
  BY <1>29 DEF DestroySignals, HandlerGo, HandlerMoves, CondBroadcast
<1>30. ASSUME NEW t \in Threads, DestroyUnlock(t) PROVE Hands'
  BY <1>30 DEF DestroyUnlock, HandlerTears, HandlerMoves, Unlock
<1>31. ASSUME NEW t \in Threads, DestroyJoin(t) PROVE Hands'
  BY <1>31 DEF DestroyJoin, HandlerGo, HandlerMoves
<1>32. ASSUME NEW t \in Threads, DrainLock(t) PROVE Hands'
  BY <1>32 DEF DrainLock, HandlerGo, HandlerMoves, Lock
<1>33. ASSUME NEW t \in Threads, Drain(t) PROVE Hands'
  BY <1>33 DEF Drain, HandlerGo, HandlerMoves, Close
<1>34. ASSUME NEW t \in Threads, DrainUnlock(t) PROVE Hands'
  BY <1>34 DEF DrainUnlock, HandlerGo, HandlerMoves, Unlock
<1>35. ASSUME NEW t \in Threads, DestroyFree(t) PROVE Hands'
  BY <1>35 DEF DestroyFree, HandlerGo, HandlerMoves
<1>36. ASSUME NEW t \in Threads, ClearPointer(t) PROVE Hands'
  BY <1>36 DEF ClearPointer, HandlerGo, HandlerMoves
<1>37. ASSUME NEW t \in Threads, ProcessExits(t) PROVE Hands'
  BY <1>37 DEF ProcessExits, HandlerGo, HandlerMoves
<1>38. ASSUME NEW t \in Threads, Signal(t) PROVE Hands'
  BY <1>38 DEF Signal, BeginShutdown
<1>39. CASE UseAfterFree
  BY <1>39 DEF UseAfterFree
<1>40. ASSUME NEW c \in Clients, ClientSends(c) PROVE Hands'
  BY <1>40 DEF ClientSends
<1>41. CASE UNCHANGED vars
  BY <1>41 DEF vars
<1>42. ASSUME NEW t \in Threads, ShutdownSkipsPool(t) PROVE Hands'
  BY <1>42 DEF ShutdownSkipsPool, HandlerTears, HandlerMoves
<1> QED
  BY <1>1, <1>2, <1>3, <1>4, <1>5, <1>6, <1>7, <1>8, <1>9, <1>10, <1>11, <1>12, <1>13, <1>14, <1>15, <1>16, <1>17, <1>18, <1>19, <1>20, <1>21, <1>22, <1>23, <1>24, <1>25, <1>26, <1>27, <1>28, <1>29, <1>30, <1>31, <1>32, <1>33, <1>34, <1>35, <1>36, <1>37, <1>38, <1>39, <1>40, <1>41, <1>42 DEF Next, WorkerStep, CreateStep, AddTaskStep, ShutdownStep, Terminated

LEMMA StepSleepers == Types /\ Exclusion /\ Sleepers /\ [Next]_vars => Sleepers'
<1> SUFFICES ASSUME Types, Exclusion, Sleepers, [Next]_vars PROVE Sleepers'
  OBVIOUS
<1> USE SizesAssumption, CarriersAssumption DEF Types, Exclusion, Sleepers, Inside, poolVars, workVars, mainVars, downVars, Threads, Workers, Clients, Main, Own, NoThread, NoClient
<1>1. ASSUME NEW w \in Workers, WorkerLock(w) PROVE Sleepers'
  BY <1>1 DEF WorkerLock, WorkerGo, Lock
<1>2. ASSUME NEW w \in Workers, WorkerFindsNothing(w) PROVE Sleepers'
  BY <1>2 DEF WorkerFindsNothing, WorkerGo, MustWait
<1>3. ASSUME NEW w \in Workers, WorkerWait(w) PROVE Sleepers'
  BY <1>3 DEF WorkerWait, WorkerGo, Unlock
<1>4. ASSUME NEW w \in Workers, WorkerWakes(w) PROVE Sleepers'
  BY <1>4 DEF WorkerWakes, WorkerGo, Lock
<1>5. ASSUME NEW w \in Workers, WorkerExits(w) PROVE Sleepers'
  BY <1>5 DEF WorkerExits, WorkerGo, Unlock
<1>6. ASSUME NEW w \in Workers, WorkerTakes(w) PROVE Sleepers'
  BY <1>6 DEF WorkerTakes, WorkerGo
<1>7. ASSUME NEW w \in Workers, WorkerUnlock(w) PROVE Sleepers'
  BY <1>7 DEF WorkerUnlock, WorkerGo, Unlock
<1>8. ASSUME NEW w \in Workers, SemWait(w) PROVE Sleepers'
  BY <1>8 DEF SemWait, WorkerGo
<1>9. ASSUME NEW w \in Workers, HandleClient(w) PROVE Sleepers'
  BY <1>9 DEF HandleClient, WorkerGo, Close
<1>10. ASSUME NEW w \in Workers, SemPost(w) PROVE Sleepers'
  BY <1>10 DEF SemPost, WorkerGo
<1>11. ASSUME NEW w \in Workers, SpuriousWakeup(w) PROVE Sleepers'
  BY <1>11 DEF SpuriousWakeup, WorkerGo
<1>12. CASE InitFails
  BY <1>12 DEF InitFails, MainGo
<1>13. CASE CreatePool
  BY <1>13 DEF CreatePool, MainGo
<1>14. CASE CreateWorker
  BY <1>14 DEF CreateWorker, MainGo
<1>15. CASE CreateWorkerFails
  BY <1>15 DEF CreateWorkerFails, MainGo
<1>16. CASE CreateBroadcast
  BY <1>16 DEF CreateBroadcast, MainGo, CondBroadcast
<1>17. CASE CreateGivesUp
  BY <1>17 DEF CreateGivesUp, MainGo
<1>18. CASE CreateReturns
  BY <1>18 DEF CreateReturns, MainGo
<1>19. CASE Listen
  BY <1>19 DEF Listen, MainGo
<1>20. CASE ListenFails
  BY <1>20 DEF ListenFails, BeginShutdown
<1>21. CASE Accept
  BY <1>21 DEF Accept, MainGo
<1>22. CASE AddTaskFails
  BY <1>22 DEF AddTaskFails, MainGo, Close
<1>23. CASE AddTaskCalled
  BY <1>23 DEF AddTaskCalled, MainGo
<1>24. CASE AddTaskLock
  BY <1>24 DEF AddTaskLock, MainGo, Lock
<1>25. CASE AddTaskLink
  BY <1>25 DEF AddTaskLink, MainGo, CondSignal, Waiting
<1>26. CASE AddTaskUnlock
  BY <1>26 DEF AddTaskUnlock, MainGo, Unlock
<1>27. ASSUME NEW t \in Threads, ShutdownEnters(t) PROVE Sleepers'
  BY <1>27 DEF ShutdownEnters, HandlerGo, HandlerMoves
<1>28. ASSUME NEW t \in Threads, DestroyLock(t) PROVE Sleepers'
  BY <1>28 DEF DestroyLock, HandlerGo, HandlerMoves, Lock
<1>29. ASSUME NEW t \in Threads, DestroySignals(t) PROVE Sleepers'
  BY <1>29 DEF DestroySignals, HandlerGo, HandlerMoves, CondBroadcast
<1>30. ASSUME NEW t \in Threads, DestroyUnlock(t) PROVE Sleepers'
  BY <1>30 DEF DestroyUnlock, HandlerTears, HandlerMoves, Unlock
<1>31. ASSUME NEW t \in Threads, DestroyJoin(t) PROVE Sleepers'
  BY <1>31 DEF DestroyJoin, HandlerGo, HandlerMoves
<1>32. ASSUME NEW t \in Threads, DrainLock(t) PROVE Sleepers'
  BY <1>32 DEF DrainLock, HandlerGo, HandlerMoves, Lock
<1>33. ASSUME NEW t \in Threads, Drain(t) PROVE Sleepers'
  BY <1>33 DEF Drain, HandlerGo, HandlerMoves, Close
<1>34. ASSUME NEW t \in Threads, DrainUnlock(t) PROVE Sleepers'
  BY <1>34 DEF DrainUnlock, HandlerGo, HandlerMoves, Unlock
<1>35. ASSUME NEW t \in Threads, DestroyFree(t) PROVE Sleepers'
  BY <1>35 DEF DestroyFree, HandlerGo, HandlerMoves
<1>36. ASSUME NEW t \in Threads, ClearPointer(t) PROVE Sleepers'
  BY <1>36 DEF ClearPointer, HandlerGo, HandlerMoves
<1>37. ASSUME NEW t \in Threads, ProcessExits(t) PROVE Sleepers'
  BY <1>37 DEF ProcessExits, HandlerGo, HandlerMoves
<1>38. ASSUME NEW t \in Threads, Signal(t) PROVE Sleepers'
  BY <1>38 DEF Signal, BeginShutdown
<1>39. CASE UseAfterFree
  BY <1>39 DEF UseAfterFree
<1>40. ASSUME NEW c \in Clients, ClientSends(c) PROVE Sleepers'
  BY <1>40 DEF ClientSends
<1>41. CASE UNCHANGED vars
  BY <1>41 DEF vars
<1>42. ASSUME NEW t \in Threads, ShutdownSkipsPool(t) PROVE Sleepers'
  BY <1>42 DEF ShutdownSkipsPool, HandlerTears, HandlerMoves
<1> QED
  BY <1>1, <1>2, <1>3, <1>4, <1>5, <1>6, <1>7, <1>8, <1>9, <1>10, <1>11, <1>12, <1>13, <1>14, <1>15, <1>16, <1>17, <1>18, <1>19, <1>20, <1>21, <1>22, <1>23, <1>24, <1>25, <1>26, <1>27, <1>28, <1>29, <1>30, <1>31, <1>32, <1>33, <1>34, <1>35, <1>36, <1>37, <1>38, <1>39, <1>40, <1>41, <1>42 DEF Next, WorkerStep, CreateStep, AddTaskStep, ShutdownStep, Terminated

-----------------------------------------------------------------------------
(* The semaphore and the condition variable.                               *)

LEMMA WorkersFinite == \A S \in SUBSET Workers : IsFiniteSet(S) /\ Cardinality(S) \in Nat
<1>1. IsFiniteSet(Workers)
  BY FS_Interval, SizesAssumption DEF Workers
<1> QED
  BY <1>1, FS_Subset, FS_CardinalityType

LEMMA StepSemaphore == Types /\ SemaphoreBalanced /\ [Next]_vars => SemaphoreBalanced'
<1> SUFFICES ASSUME Types, SemaphoreBalanced, [Next]_vars PROVE SemaphoreBalanced'
  OBVIOUS
<1>a. /\ IsFiniteSet(Admitted) /\ Cardinality(Admitted) \in Nat
  BY WorkersFinite DEF Admitted
<1>0. ASSUME semaphore' = semaphore, Admitted' = Admitted
      PROVE  SemaphoreBalanced'
  BY <1>0 DEF SemaphoreBalanced
<1>1. ASSUME NEW w \in Workers, SemWait(w) PROVE SemaphoreBalanced'
  <2>1. Admitted' = Admitted \cup {w} /\ w \notin Admitted
    BY <1>1 DEF SemWait, WorkerGo, Admitted, Types
  <2>2. Cardinality(Admitted') = Cardinality(Admitted) + 1
    BY <1>a, <2>1, FS_AddElement
  <2> QED
    BY <1>1, <1>a, <2>2, SizesAssumption DEF SemWait, SemaphoreBalanced, Types
<1>2. ASSUME NEW w \in Workers, SemPost(w) PROVE SemaphoreBalanced'
  <2>1. Admitted' = Admitted \ {w} /\ w \in Admitted
    BY <1>2 DEF SemPost, WorkerGo, Admitted, Types
  <2>2. Cardinality(Admitted') = Cardinality(Admitted) - 1
    BY <1>a, <2>1, FS_RemoveElement
  <2> QED
    BY <1>2, <1>a, <2>2, SizesAssumption DEF SemPost, SemaphoreBalanced, Types
<1> USE DEF Types, Admitted, poolVars, workVars, mainVars, downVars
<1>3. ASSUME NEW w \in Workers, WorkerStep(w) \/ SpuriousWakeup(w), ~SemWait(w), ~SemPost(w)
      PROVE  SemaphoreBalanced'
  BY <1>0, <1>3 DEF WorkerStep, SpuriousWakeup, WorkerLock, WorkerFindsNothing, WorkerWait, WorkerWakes, WorkerExits,
     WorkerTakes, WorkerUnlock, HandleClient, WorkerGo
<1>4. CASE CreateStep
  BY <1>0, <1>4 DEF CreateStep, InitFails, CreatePool, CreateWorker, CreateWorkerFails,
     CreateBroadcast, CreateGivesUp, CreateReturns, CondBroadcast, Started
<1>5. CASE Listen \/ ListenFails \/ Accept \/ AddTaskStep
  BY <1>0, <1>5 DEF Listen, ListenFails, BeginShutdown, Accept, AddTaskStep, AddTaskFails, AddTaskCalled,
     AddTaskLock, AddTaskLink, AddTaskUnlock, CondSignal, Waiting
<1>6. CASE \E t \in Threads : ShutdownStep(t)
  BY <1>0, <1>6 DEF ShutdownStep, ShutdownEnters, ShutdownSkipsPool, DestroyLock, DestroySignals, DestroyUnlock, DestroyJoin,
     DrainLock, Drain, DrainUnlock, DestroyFree, ClearPointer, ProcessExits, CondBroadcast
<1>7. CASE UseAfterFree \/ (\E t \in Threads : Signal(t)) \/ (\E c \in Clients : ClientSends(c)) \/ UNCHANGED vars
  BY <1>0, <1>7 DEF UseAfterFree, Signal, BeginShutdown, ClientSends, vars
<1> QED
  BY <1>1, <1>2, <1>3, <1>4, <1>5, <1>6, <1>7 DEF Next, Terminated

LEMMA StepConserving ==
  Types /\ Exclusion /\ Sleepers /\ WorkConserving /\ [Next]_vars => WorkConserving'
<1> SUFFICES ASSUME Types, Exclusion, Sleepers, WorkConserving, [Next]_vars,
                    ~shutdown', Waiting' # {}
             PROVE  Len(queue') <= Cardinality(Coming')
  BY DEF WorkConserving
<1>a. /\ IsFiniteSet(Coming)  /\ Cardinality(Coming) \in Nat
      /\ IsFiniteSet(Coming') /\ Cardinality(Coming') \in Nat
  BY WorkersFinite DEF Coming
<1>b. Len(queue) \in Nat
  BY LenProperties DEF Types
<1>0. ASSUME queue' = queue, shutdown' = shutdown, Waiting' \subseteq Waiting, Coming \subseteq Coming'
      PROVE  Len(queue') <= Cardinality(Coming')
  <2>1. Cardinality(Coming) <= Cardinality(Coming')
    BY <1>0, <1>a, FS_Subset
  <2> QED
    BY <1>0, <1>a, <1>b, <2>1 DEF WorkConserving
<1>1. ASSUME queue' = <<>>
      PROVE  Len(queue') <= Cardinality(Coming')
  BY <1>1, <1>a
<1>c. ASSUME NEW w \in Coming, Coming' = Coming \ {w}
      PROVE  Cardinality(Coming') = Cardinality(Coming) - 1
  BY <1>a, <1>c, FS_RemoveElement
<1>d. ASSUME NEW w, w \notin Coming, Coming' = Coming \cup {w}
      PROVE  Cardinality(Coming') = Cardinality(Coming) + 1
  BY <1>a, <1>d, FS_AddElement
<1> USE DEF Types, Coming, Waiting, poolVars, workVars, mainVars, downVars
<1>2. ASSUME NEW w \in Workers, WorkerFindsNothing(w) \/ WorkerWait(w)
      PROVE  Len(queue') <= Cardinality(Coming')
  BY <1>1, <1>2 DEF WorkerFindsNothing, MustWait, WorkerWait, WorkerGo, Sleepers
<1>3. ASSUME NEW w \in Workers, WorkerTakes(w)
      PROVE  Len(queue') <= Cardinality(Coming')
  <2>1. Coming' = Coming \ {w} /\ w \in Coming /\ Waiting' = Waiting /\ ~shutdown
    BY <1>3 DEF WorkerTakes, WorkerGo
  <2>2. Cardinality(Coming') = Cardinality(Coming) - 1
    BY <1>c, <2>1
  <2>3. Len(queue') = Len(queue) - 1
    BY <1>3, HeadTailProperties DEF WorkerTakes
  <2> QED
    BY <1>a, <1>b, <2>1, <2>2, <2>3 DEF WorkConserving
<1>4. ASSUME NEW w \in Workers, WorkerStep(w) \/ SpuriousWakeup(w),
             ~WorkerFindsNothing(w), ~WorkerWait(w), ~WorkerTakes(w)
      PROVE  Len(queue') <= Cardinality(Coming')
  BY <1>0, <1>4 DEF WorkerStep, SpuriousWakeup, WorkerLock, WorkerWakes, WorkerExits, WorkerUnlock, SemWait,
     HandleClient, SemPost, WorkerGo
<1>5. CASE AddTaskLink
  <2>1. Len(queue') = Len(queue) + 1 /\ shutdown' = shutdown
    BY <1>5 DEF AddTaskLink
  <2>2. Waiting # {}
    BY <1>5 DEF AddTaskLink, CondSignal
  <2>3. PICK w \in Waiting : wpc' = [wpc EXCEPT ![w] = "woken"]
    BY <1>5, <2>2 DEF AddTaskLink, CondSignal
  <2>4. Coming' = Coming \cup {w} /\ w \notin Coming
    BY <2>3
  <2>5. Cardinality(Coming') = Cardinality(Coming) + 1
    BY <1>d, <2>4
  <2> QED
    BY <1>a, <1>b, <2>1, <2>2, <2>5 DEF WorkConserving
<1>6. CASE CreateStep
  BY <1>0, <1>6 DEF CreateStep, InitFails, CreatePool, CreateWorker, CreateWorkerFails,
     CreateBroadcast, CreateGivesUp, CreateReturns, CondBroadcast, Started
<1>7. CASE Listen \/ ListenFails \/ Accept \/ AddTaskFails \/ AddTaskCalled \/ AddTaskLock \/ AddTaskUnlock
  BY <1>0, <1>7 DEF Listen, ListenFails, BeginShutdown, Accept, AddTaskFails, AddTaskCalled, AddTaskLock, AddTaskUnlock
<1>8. CASE \E t \in Threads : ShutdownStep(t)
  BY <1>0, <1>1, <1>8 DEF ShutdownStep, ShutdownEnters, ShutdownSkipsPool, DestroyLock, DestroySignals, DestroyUnlock, DestroyJoin,
     DrainLock, Drain, DrainUnlock, DestroyFree, ClearPointer, ProcessExits
<1>9. CASE UseAfterFree \/ (\E t \in Threads : Signal(t)) \/ (\E c \in Clients : ClientSends(c)) \/ UNCHANGED vars
  BY <1>0, <1>9 DEF UseAfterFree, Signal, BeginShutdown, ClientSends, vars
<1> QED
  BY <1>2, <1>3, <1>4, <1>5, <1>6, <1>7, <1>8, <1>9 DEF Next, AddTaskStep, Terminated

-----------------------------------------------------------------------------
(* The ownership of connections.                                           *)

\* The first task of a queue without repetitions, taken off it.
LEMMA DequeueHead ==
  ASSUME NEW s \in Seq(Clients), s # <<>>,
         \A i, j \in 1..Len(s) : s[i] = s[j] => i = j
  PROVE  /\ \A i, j \in 1..Len(Tail(s)) : Tail(s)[i] = Tail(s)[j] => i = j
         /\ {Tail(s)[i] : i \in 1..Len(Tail(s))} = {s[i] : i \in 1..Len(s)} \ {Head(s)}
         /\ Head(s) \in {s[i] : i \in 1..Len(s)}
<1>1. /\ Head(s) = s[1] /\ Len(s) \in Nat /\ Len(s) > 0
  BY LenProperties, EmptySeq
<1>2. /\ Len(Tail(s)) = Len(s) - 1
      /\ \A i \in 1..Len(Tail(s)) : Tail(s)[i] = s[i+1]
  BY HeadTailProperties
<1>3. \A i, j \in 1..Len(Tail(s)) : Tail(s)[i] = Tail(s)[j] => i = j
  <2> SUFFICES ASSUME NEW i \in 1..Len(Tail(s)), NEW j \in 1..Len(Tail(s)), Tail(s)[i] = Tail(s)[j]
               PROVE  i = j
    OBVIOUS
  <2>1. i+1 \in 1..Len(s) /\ j+1 \in 1..Len(s) /\ s[i+1] = s[j+1]
    BY <1>1, <1>2
  <2> QED
    BY <2>1
<1>4. {Tail(s)[i] : i \in 1..Len(Tail(s))} = {s[i] : i \in 1..Len(s)} \ {Head(s)}
  <2>1. ASSUME NEW i \in 1..Len(Tail(s))
        PROVE  i+1 \in 1..Len(s) /\ Tail(s)[i] = s[i+1] /\ s[i+1] # Head(s)
    BY <1>1, <1>2
  <2>2. ASSUME NEW i \in 1..Len(s), s[i] # Head(s)
        PROVE  i-1 \in 1..Len(Tail(s)) /\ Tail(s)[i-1] = s[i]
    BY <1>1, <1>2, <2>2
  <2>3. ASSUME NEW c, c \in {s[i] : i \in 1..Len(s)}, c # Head(s)
        PROVE  c \in {Tail(s)[i] : i \in 1..Len(Tail(s))}
    <3>1. PICK i \in 1..Len(s) : s[i] = c
      BY <2>3
    <3>2. i-1 \in 1..Len(Tail(s)) /\ Tail(s)[i-1] = c
      BY <2>2, <2>3, <3>1
    <3> QED
      BY <3>2
  <2> QED
    BY <2>1, <2>3
<1>5. Head(s) \in {s[i] : i \in 1..Len(s)}
  BY <1>1
<1> QED
  BY <1>3, <1>4, <1>5, Zenon

\* A connection that was not in the queue, put at its end.
LEMMA EnqueueLast ==
  ASSUME NEW s \in Seq(Clients), NEW c \in Clients, c \notin {s[i] : i \in 1..Len(s)},
         \A i, j \in 1..Len(s) : s[i] = s[j] => i = j
  PROVE  LET t == Append(s, c)
         IN  /\ \A i, j \in 1..Len(t) : t[i] = t[j] => i = j
             /\ {t[i] : i \in 1..Len(t)} = {s[i] : i \in 1..Len(s)} \cup {c}
<1> DEFINE t == Append(s, c)
<1>1. /\ Len(s) \in Nat /\ Len(t) = Len(s) + 1
      /\ \A i \in 1..Len(s) + 1 : t[i] = IF i = Len(s) + 1 THEN c ELSE s[i]
  BY AppendProperties, LenProperties
<1> HIDE DEF t
<1>2. \A i, j \in 1..Len(t) : t[i] = t[j] => i = j
  BY <1>1
<1>3. {t[i] : i \in 1..Len(t)} = {s[i] : i \in 1..Len(s)} \cup {c}
  <2>1. t[Len(t)] = c /\ Len(t) \in 1..Len(t)
    BY <1>1
  <2>2. \A i \in 1..Len(s) : i \in 1..Len(t) /\ t[i] = s[i]
    BY <1>1
  <2>3. \A i \in 1..Len(t) : i = Len(t) \/ i \in 1..Len(s)
    BY <1>1
  <2> QED
    BY <2>1, <2>2, <2>3
<1> QED
  BY <1>2, <1>3 DEF t

LEMMA StepKnown == Types /\ Hands /\ Known /\ [Next]_vars => Known'
<1> SUFFICES ASSUME Types, Hands, Known, [Next]_vars PROVE Known'
  OBVIOUS
<1>0. ASSUME Queued' \cup InService' \subseteq Queued \cup InService, accepted' = accepted,
             client_socket' \in {client_socket, NoClient},
             mpc' \in {"alloc", "create", "create_failed", "create_join", "listen", "exited"} =>
               mpc \in {"alloc", "create", "create_failed", "create_join", "listen", "exited"}
      PROVE  Known'
  BY <1>0, SizesAssumption DEF Known, Types, NoClient, Clients
<1>1. ASSUME NEW w \in Workers, WorkerTakes(w) PROVE Known'
  <2>1. /\ Head(queue) \in Queued
        /\ Queued' \subseteq Queued
    <3>1. /\ Head(queue) = queue[1] /\ Len(queue) \in Nat /\ Len(queue) > 0
      BY <1>1, LenProperties, EmptySeq DEF WorkerTakes, Types
    <3>2. /\ Len(queue') = Len(queue) - 1
          /\ \A i \in 1..Len(queue') : queue'[i] = queue[i+1]
      BY <1>1, HeadTailProperties DEF WorkerTakes, Types
    <3> QED
      BY <3>1, <3>2 DEF Queued
  <2>2. InService' \subseteq InService \cup {Head(queue)}
    BY <1>1 DEF WorkerTakes, InService, Types
  <2> QED
    BY <1>0, <1>1, <2>1, <2>2 DEF WorkerTakes, WorkerGo, mainVars
<1>2. CASE Accept
  <2>1. /\ Queued' = Queued /\ InService' = InService
        /\ accepted' = accepted + 1 /\ client_socket' = accepted + 1 /\ mpc' = "add_task"
    BY <1>2 DEF Accept, MainGo, Queued, InService, poolVars, workVars
  <2>2. accepted \in Nat /\ Queued \cup InService \subseteq 1..accepted
    BY SizesAssumption DEF Known, Types
  <2> QED
    BY <2>1, <2>2 DEF Known
<1>3. CASE AddTaskLink
  <2>1. client_socket \in Clients
    BY <1>3 DEF AddTaskLink, MainGo, Hands, Types, Clients, NoClient
  <2>2. /\ Len(queue) \in Nat /\ Len(queue') = Len(queue) + 1
        /\ \A i \in 1..Len(queue') : queue'[i] = IF i = Len(queue) + 1 THEN client_socket ELSE queue[i]
    BY <1>3, <2>1, AppendProperties, LenProperties DEF AddTaskLink, Types
  <2>3. Queued' \subseteq Queued \cup {client_socket} /\ InService' = InService
    BY <1>3, <2>2 DEF AddTaskLink, Queued, InService
  <2>4. Queued' \cup InService' \subseteq 1..accepted /\ accepted' = accepted /\ accepted \in Nat
    BY <1>3, <2>1, <2>3, SizesAssumption DEF Known, AddTaskLink, Clients, Types
  <2> QED
    BY <1>3, <2>4 DEF Known, AddTaskLink, MainGo, NoClient
<1>4. ASSUME NEW t \in Threads, Drain(t) PROVE Known'
  <2>1. Queued' = {} /\ InService' = InService
    BY <1>4 DEF Drain, Queued, InService, workVars
  <2> QED
    BY <1>0, <1>4, <2>1 DEF Drain, mainVars
<1>5. ASSUME NEW w \in Workers, WorkerStep(w) \/ SpuriousWakeup(w), ~WorkerTakes(w)
      PROVE  Known'
  <2>1. queue' = queue /\ UNCHANGED mainVars /\ (task' = task \/ task' = [task EXCEPT ![w] = NoClient])
    BY <1>5 DEF WorkerStep, SpuriousWakeup, WorkerLock, WorkerFindsNothing, WorkerWait, WorkerWakes, WorkerExits,
         WorkerUnlock, SemWait, HandleClient, SemPost, poolVars
  <2>2. Queued' = Queued /\ InService' \subseteq InService
    BY <2>1 DEF Queued, InService, Types
  <2> QED
    BY <1>0, <2>1, <2>2 DEF mainVars
<1>6. CASE queue' = queue /\ task' = task /\ accepted' = accepted /\ client_socket' \in {client_socket, NoClient} /\
           (mpc' \in {"alloc", "create", "create_failed", "create_join", "listen", "exited"} =>
               mpc \in {"alloc", "create", "create_failed", "create_join", "listen", "exited"})
  BY <1>0, <1>6 DEF Queued, InService
<1> USE DEF poolVars, workVars, mainVars, downVars
<1>7. CASE CreateStep
  BY <1>6, <1>7 DEF CreateStep, InitFails, CreatePool, CreateWorker, CreateWorkerFails,
     CreateBroadcast, CreateGivesUp, CreateReturns, CondBroadcast, Started, MainGo
<1>8. CASE Listen \/ ListenFails \/ AddTaskFails \/ AddTaskCalled \/ AddTaskLock \/ AddTaskUnlock
  BY <1>6, <1>8 DEF Listen, ListenFails, BeginShutdown, AddTaskFails, AddTaskCalled, AddTaskLock, AddTaskUnlock, MainGo
<1>9. ASSUME NEW t \in Threads, ShutdownStep(t), ~Drain(t) PROVE Known'
  BY <1>6, <1>9 DEF ShutdownStep, ShutdownEnters, ShutdownSkipsPool, DestroyLock, DestroySignals, DestroyUnlock, DestroyJoin,
     DrainLock, DrainUnlock, DestroyFree, ClearPointer, ProcessExits
<1>10. CASE UseAfterFree \/ (\E t \in Threads : Signal(t)) \/ (\E c \in Clients : ClientSends(c)) \/ UNCHANGED vars
  BY <1>6, <1>10 DEF UseAfterFree, Signal, BeginShutdown, ClientSends, vars
<1> QED
  BY <1>1, <1>2, <1>3, <1>4, <1>5, <1>7, <1>8, <1>9, <1>10 DEF Next, AddTaskStep, Terminated

LEMMA StepOwned == Types /\ Hands /\ Known /\ OwnedOnce /\ [Next]_vars => OwnedOnce'
<1> SUFFICES ASSUME Types, Hands, Known, OwnedOnce, [Next]_vars PROVE OwnedOnce'
  OBVIOUS
<1>0. ASSUME queue' = queue, task' = task, accepted' = accepted, client_socket' = client_socket, closes' = closes
      PROVE  OwnedOnce'
  BY <1>0 DEF OwnedOnce, Queued, InService
<1>a. NoClient \notin Clients /\ NoClient \notin Queued /\ accepted \in Nat
  BY ElementOfSeq, SizesAssumption DEF NoClient, Clients, Queued, Types
<1>1. ASSUME NEW w \in Workers, WorkerTakes(w) PROVE OwnedOnce'
  <2> DEFINE c == Head(queue)
  <2>1. /\ \A i, j \in 1..Len(queue') : queue'[i] = queue'[j] => i = j
        /\ Queued' = Queued \ {c} /\ c \in Queued
    <3>1. /\ queue \in Seq(Clients) /\ queue # <<>> /\ queue' = Tail(queue)
          /\ \A i, j \in 1..Len(queue) : queue[i] = queue[j] => i = j
      BY <1>1 DEF WorkerTakes, Types, OwnedOnce
    <3>2. /\ \A i, j \in 1..Len(Tail(queue)) : Tail(queue)[i] = Tail(queue)[j] => i = j
          /\ {Tail(queue)[i] : i \in 1..Len(Tail(queue))} = {queue[i] : i \in 1..Len(queue)} \ {Head(queue)}
          /\ Head(queue) \in {queue[i] : i \in 1..Len(queue)}
      BY <3>1, DequeueHead, Zenon
    <3> QED
      BY <3>1, <3>2 DEF Queued
  <2>2. task[w] = NoClient /\ task' = [task EXCEPT ![w] = c]
    BY <1>1 DEF WorkerTakes, WorkerGo, Hands
  <2> HIDE DEF c
  <2>3. InService' = InService \cup {c} /\ c \notin InService /\ c # NoClient
    BY <1>a, <2>1, <2>2 DEF InService, OwnedOnce, Types
  <2>4. \A u, v \in Workers : task'[u] = task'[v] /\ task'[u] # NoClient => u = v
    BY <2>2, <2>3 DEF OwnedOnce, InService, Types
  <2> QED
    BY <1>1, <2>1, <2>3, <2>4 DEF OwnedOnce, WorkerTakes, mainVars
<1>2. ASSUME NEW w \in Workers, HandleClient(w) PROVE OwnedOnce'
  <2> DEFINE c == task[w]
  <2>1. c \in Clients /\ c \in InService
    BY <1>2 DEF HandleClient, WorkerGo, Hands, Types, InService
  <2>2. InService' = InService \ {c}
    BY <1>2, <2>1 DEF HandleClient, InService, OwnedOnce, Types, NoClient
  <2>3. \A u, v \in Workers : task'[u] = task'[v] /\ task'[u] # NoClient => u = v
    BY <1>2 DEF HandleClient, OwnedOnce, Types
  <2>4. closes[c] = 0 /\ c <= accepted /\ c \notin Queued /\ c # client_socket
    BY <2>1, <1>a DEF OwnedOnce, Known
  <2>5. Queued' = Queued /\ client_socket' = client_socket /\ accepted' = accepted /\ queue' = queue
    BY <1>2 DEF HandleClient, poolVars, mainVars, Queued
  <2>6. closes' = [d \in Clients |-> IF d = c THEN closes[d] + 1 ELSE closes[d]]
    BY <1>2 DEF HandleClient, Close
  <2> HIDE DEF c
  <2> QED
    BY <2>1, <2>2, <2>3, <2>4, <2>5, <2>6 DEF OwnedOnce
<1>3. CASE Accept
  <2>1. client_socket = NoClient /\ accepted + 1 \notin Queued \cup InService
    BY <1>3, <1>a DEF Accept, MainGo, Hands, Known
  <2>2. UNCHANGED <<queue, task, closes>> /\ accepted' = accepted + 1 /\ client_socket' = accepted + 1
    BY <1>3 DEF Accept, poolVars, workVars
  <2>3. Queued' = Queued /\ InService' = InService /\ closes' = closes
    BY <2>2 DEF Queued, InService
  <2>4. ASSUME NEW c \in Clients
        PROVE  closes[c] = IF c <= accepted + 1 /\ c \notin Queued \cup InService \cup {accepted + 1} THEN 1 ELSE 0
    BY <1>a, <2>1 DEF OwnedOnce, Clients
  <2> QED
    BY <1>a, <2>1, <2>2, <2>3, <2>4 DEF OwnedOnce
<1>4. CASE AddTaskFails
  <2>1. client_socket \in Clients /\ closes[client_socket] = 0 /\ client_socket <= accepted
    BY <1>4, <1>a DEF AddTaskFails, MainGo, Hands, OwnedOnce, Types, Known
  <2>2. closes' = [d \in Clients |-> IF d = client_socket THEN closes[d] + 1 ELSE closes[d]]
    BY <1>4 DEF AddTaskFails, Close
  <2>3. Queued' = Queued /\ InService' = InService /\ queue' = queue /\ task' = task
        /\ client_socket' = NoClient /\ accepted' = accepted
    BY <1>4 DEF AddTaskFails, Queued, InService, poolVars, workVars
  <2>4. NoClient \notin InService
    BY DEF InService
  <2> QED
    BY <1>a, <2>1, <2>2, <2>3, <2>4 DEF OwnedOnce
<1>5. CASE AddTaskLink
  <2>1. client_socket \in Clients /\ client_socket \notin Queued
    BY <1>5, <1>a DEF AddTaskLink, MainGo, Hands, OwnedOnce, Types
  <2>2. /\ \A i, j \in 1..Len(queue') : queue'[i] = queue'[j] => i = j
        /\ Queued' = Queued \cup {client_socket}
    <3>1. /\ queue \in Seq(Clients) /\ queue' = Append(queue, client_socket)
          /\ \A i, j \in 1..Len(queue) : queue[i] = queue[j] => i = j
      BY <1>5 DEF AddTaskLink, Types, OwnedOnce
    <3> QED
      BY <2>1, <3>1, EnqueueLast DEF Queued
  <2>3. UNCHANGED <<task, accepted, closes>> /\ client_socket' = NoClient
    BY <1>5 DEF AddTaskLink
  <2>4. InService' = InService /\ NoClient \notin InService
    BY <2>3 DEF InService
  <2> QED
    BY <1>a, <2>1, <2>2, <2>3, <2>4 DEF OwnedOnce
<1>6. ASSUME NEW t \in Threads, Drain(t) PROVE OwnedOnce'
  <2>1. /\ UNCHANGED <<task, accepted, client_socket>> /\ queue' = <<>>
        /\ closes' = [d \in Clients |-> IF d \in Queued THEN closes[d] + 1 ELSE closes[d]]
    BY <1>6 DEF Drain, Close, Queued, workVars, mainVars
  <2>2. Queued' = {} /\ InService' = InService /\ \A i, j \in 1..Len(queue') : queue'[i] = queue'[j] => i = j
    BY <2>1 DEF Queued, InService
  <2>3. ASSUME NEW c \in Queued PROVE c <= accepted /\ c # client_socket /\ c \notin InService
    BY <1>a DEF Known, OwnedOnce
  <2> QED
    BY <2>1, <2>2, <2>3 DEF OwnedOnce
<1> USE DEF poolVars, workVars, mainVars, downVars
<1>7. ASSUME NEW w \in Workers, WorkerStep(w) \/ SpuriousWakeup(w), ~WorkerTakes(w), ~HandleClient(w)
      PROVE  OwnedOnce'
  BY <1>0, <1>7 DEF WorkerStep, SpuriousWakeup, WorkerLock, WorkerFindsNothing, WorkerWait, WorkerWakes, WorkerExits,
     WorkerUnlock, SemWait, SemPost
<1>8. CASE CreateStep
  BY <1>0, <1>8 DEF CreateStep, InitFails, CreatePool, CreateWorker, CreateWorkerFails,
     CreateBroadcast, CreateGivesUp, CreateReturns
<1>9. CASE Listen \/ ListenFails \/ AddTaskCalled \/ AddTaskLock \/ AddTaskUnlock
  BY <1>0, <1>9 DEF Listen, ListenFails, BeginShutdown, AddTaskCalled, AddTaskLock, AddTaskUnlock
<1>10. ASSUME NEW t \in Threads, ShutdownStep(t), ~Drain(t) PROVE OwnedOnce'
  BY <1>0, <1>10 DEF ShutdownStep, ShutdownEnters, ShutdownSkipsPool, DestroyLock, DestroySignals, DestroyUnlock, DestroyJoin,
     DrainLock, DrainUnlock, DestroyFree, ClearPointer, ProcessExits
<1>11. CASE UseAfterFree \/ (\E t \in Threads : Signal(t)) \/ (\E c \in Clients : ClientSends(c)) \/ UNCHANGED vars
  BY <1>0, <1>11 DEF UseAfterFree, Signal, BeginShutdown, ClientSends, vars
<1> QED
  BY <1>1, <1>2, <1>3, <1>4, <1>5, <1>6, <1>7, <1>8, <1>9, <1>10, <1>11 DEF Next, AddTaskStep, Terminated

\* What a thread may do to the variables of shutdown.
LEMMA ShutdownMoves ==
  [Next]_vars => UNCHANGED downVars \/ \E t \in Threads : BeginShutdown(t) \/ ShutdownStep(t)
<1> SUFFICES ASSUME [Next]_vars, ~(\E t \in Threads : BeginShutdown(t) \/ ShutdownStep(t))
             PROVE  UNCHANGED downVars
  OBVIOUS
<1>0. Main \in Threads
  BY DEF Threads
<1>1. ASSUME NEW w \in Workers, WorkerStep(w) \/ SpuriousWakeup(w)
      PROVE  UNCHANGED downVars
  BY <1>1 DEF WorkerStep, SpuriousWakeup, WorkerLock, WorkerFindsNothing, WorkerWait, WorkerWakes, WorkerExits,
     WorkerTakes, WorkerUnlock, SemWait, HandleClient, SemPost
<1>2. CASE CreateStep \/ Listen \/ ListenFails \/ Accept \/ AddTaskStep
  BY <1>0, <1>2 DEF CreateStep, InitFails, CreatePool, CreateWorker, CreateWorkerFails,
     CreateBroadcast, CreateGivesUp, CreateReturns, Listen, ListenFails, Accept, AddTaskStep,
     AddTaskFails, AddTaskCalled, AddTaskLock, AddTaskLink, AddTaskUnlock
<1>3. CASE UseAfterFree \/ (\E t \in Threads : Signal(t)) \/ (\E c \in Clients : ClientSends(c)) \/ UNCHANGED vars
  BY <1>3 DEF UseAfterFree, Signal, ClientSends, vars
<1> QED
  BY <1>1, <1>2, <1>3 DEF Next, Terminated

LEMMA ShutdownStepMoves ==
  ASSUME NEW t \in Threads, ShutdownStep(t), Types
  PROVE  /\ late' = late /\ shutdowns' = shutdowns
         /\ teardowns' \in {teardowns, teardowns + 1}
         /\ hpc[t] # "none"
         /\ \E to \in HandlerPlaces \ {"none"} : hpc' = [hpc EXCEPT ![t] = to]
BY DEF ShutdownStep, ShutdownEnters, ShutdownSkipsPool, DestroyLock, DestroySignals, DestroyUnlock, DestroyJoin,
   DrainLock, Drain, DrainUnlock, DestroyFree, ClearPointer, ProcessExits, HandlerGo, HandlerTears, HandlerMoves, HandlerPlaces

\* A shutdown that has begun, and what it has done, is never taken back.
LEMMA Irrevocable ==
  Types /\ [Next]_vars => /\ late => late'
                         /\ teardowns' \in Nat /\ teardowns <= teardowns'
                         /\ \A t \in Threads : hpc[t] # "none" => hpc'[t] # "none"
<1> SUFFICES ASSUME Types, [Next]_vars
             PROVE  /\ late => late'
                    /\ teardowns' \in Nat /\ teardowns <= teardowns'
                    /\ \A t \in Threads : hpc[t] # "none" => hpc'[t] # "none"
  OBVIOUS
<1>1. CASE UNCHANGED downVars
  <2>1. UNCHANGED <<hpc, teardowns, late>>
    BY <1>1 DEF downVars
  <2>2. late => late'
    BY <2>1, Zenon
  <2> QED
    BY <2>1, <2>2 DEF Types
<1>2. ASSUME NEW t \in Threads, BeginShutdown(t)
      PROVE  /\ late => late'
             /\ teardowns' \in Nat /\ teardowns <= teardowns'
             /\ \A u \in Threads : hpc[u] # "none" => hpc'[u] # "none"
  <2>1. /\ late' = (late \/ teardowns > 0) /\ teardowns' = teardowns
        /\ hpc' = [hpc EXCEPT ![t] = "enter"]
    BY <1>2 DEF BeginShutdown
  <2>2. \A u \in Threads : hpc[u] # "none" => hpc'[u] # "none"
    BY <2>1 DEF Types
  <2>3. late => late'
    BY <2>1, Zenon
  <2>4. teardowns' \in Nat /\ teardowns <= teardowns'
    BY <2>1 DEF Types
  <2> QED
    BY <2>2, <2>3, <2>4, Zenon
<1>3. ASSUME NEW t \in Threads, ShutdownStep(t)
      PROVE  /\ late => late'
             /\ teardowns' \in Nat /\ teardowns <= teardowns'
             /\ \A u \in Threads : hpc[u] # "none" => hpc'[u] # "none"
  <2>1. PICK to \in HandlerPlaces \ {"none"} : hpc' = [hpc EXCEPT ![t] = to]
    BY <1>3, ShutdownStepMoves
  <2>2. late' = late /\ teardowns' \in {teardowns, teardowns + 1}
    BY <1>3, ShutdownStepMoves
  <2>3. late => late'
    BY <2>2, Zenon
  <2>4. teardowns' \in Nat /\ teardowns <= teardowns'
    BY <2>2 DEF Types
  <2>5. \A u \in Threads : hpc[u] # "none" => hpc'[u] # "none"
    BY <2>1 DEF Types
  <2> QED
    BY <2>3, <2>4, <2>5, Zenon
<1> QED
  BY <1>1, <1>2, <1>3, ShutdownMoves

LEMMA StepDown ==
  Types /\ Hands /\ (MainCarries => Down) /\ [Next]_vars => (MainCarries' => Down')
<1> SUFFICES ASSUME Types, Hands, MainCarries => Down, [Next]_vars, MainCarries' PROVE Down'
  OBVIOUS
<1>a. Down
  BY Irrevocable DEF MainCarries
<1>0. Main \notin Workers /\ Main \in Threads /\ Workers \subseteq Threads
  BY SizesAssumption DEF Main, Workers, Threads
<1>b. \A t \in Threads \ {Main} : hpc[t] = "none" /\ hpc'[t] = "none"
  BY <1>a DEF Down, MainCarries
<1>1. ~UseAfterFree
  <2>1. ~MainUsesFreedPool
    BY <1>a, <1>0 DEF MainUsesFreedPool, CanRun, Halted, Down
  <2>2. \A w \in Workers : ~WorkerUsesFreedPool(w)
    BY <1>a, <1>0 DEF WorkerUsesFreedPool, AtPool, CanRun, Halted, Down
  <2>3. ~ShutdownUsesFreed(Main)
    BY <1>a, <1>0 DEF ShutdownUsesFreed, DestroyAtPool, Halted, Down, Early
  <2>4. \A t \in Threads \ {Main} : ~ShutdownUsesFreed(t)
    BY <1>b DEF ShutdownUsesFreed, DestroyAtPool
  <2> QED
    BY <2>1, <2>2, <2>3, <2>4 DEF UseAfterFree
<1> USE DEF Types, Halted, CanRun, poolVars, workVars, mainVars, downVars
<1>2. ASSUME NEW w \in Workers, WorkerStep(w) \/ SpuriousWakeup(w)
      PROVE  Down'
  BY <1>a, <1>2 DEF Down, MainCarries, WorkerStep, SpuriousWakeup, WorkerLock, WorkerFindsNothing, WorkerWait, WorkerWakes,
     WorkerExits, WorkerTakes, WorkerUnlock, SemWait, HandleClient, SemPost, WorkerGo
<1>3. CASE CreateStep
  BY <1>a, <1>0, <1>3 DEF Down, MainCarries, CreateStep, InitFails, CreatePool, CreateWorker, CreateWorkerFails,
     CreateBroadcast, CreateGivesUp, CreateReturns, CondBroadcast, MainGo
<1>4. CASE Listen \/ Accept \/ AddTaskStep
  BY <1>a, <1>0, <1>4 DEF Down, MainCarries, Listen, Accept, AddTaskStep, AddTaskFails, AddTaskCalled,
     AddTaskLock, AddTaskLink, AddTaskUnlock, CondSignal, Waiting, MainGo, Early
<1>5. ASSUME NEW t \in Threads, ShutdownStep(t) PROVE Down'
  <2>1. t = Main
    BY <1>5, <1>b, ShutdownStepMoves
  <2> QED
    BY <1>a, <1>0, <1>5, <2>1 DEF Down, Early, ShutdownStep, ShutdownEnters, ShutdownSkipsPool, DestroyLock, DestroySignals,
       DestroyUnlock, DestroyJoin, Joined, DrainLock, Drain, DrainUnlock, DestroyFree, ClearPointer, ProcessExits,
       CondBroadcast, HandlerGo, HandlerTears, HandlerMoves
<1>6. ASSUME NEW t \in Threads, BeginShutdown(t), Signal(t) \/ ListenFails PROVE Down'
  <2>1. /\ hpc' = [hpc EXCEPT ![t] = "enter"] /\ late' = (late \/ teardowns > 0) /\ teardowns' = teardowns
        /\ UNCHANGED <<pool, queue, dangling, mpc, wpc, undefined>> /\ mpc # "exited"
    BY <1>6 DEF BeginShutdown, Signal, ListenFails
  <2>2. t = Main
    BY <1>b, <2>1
  <2>3. teardowns = 0
    <3>1. ~late'
      BY DEF MainCarries
    <3>2. ~(teardowns > 0)
      BY <2>1, <3>1, Zenon
    <3> QED
      BY <3>2
  <2>4. hpc[Main] \in Early
    BY <1>a, <2>3 DEF Down
  <2>5. hpc'[Main] = "enter"
    BY <1>0, <2>1, <2>2
  <2> QED
    BY <1>a, <1>0, <2>1, <2>2, <2>3, <2>4, <2>5 DEF Down, Early
<1>7. CASE (\E c \in Clients : ClientSends(c)) \/ UNCHANGED vars
  BY <1>a, <1>0, <1>7 DEF Down, MainCarries, ClientSends, vars
<1> QED
  BY <1>0, <1>1, <1>2, <1>3, <1>4, <1>5, <1>6, <1>7 DEF Next, Terminated, Signal, ListenFails

LEMMA StepAlone == Types /\ Alone /\ [Next]_vars => Alone'
<1> SUFFICES ASSUME Types, Alone, [Next]_vars, teardowns' <= 1
             PROVE  /\ \A t \in Threads : hpc'[t] \in {"drain_lock", "drain", "drain_unlock", "free"} => Gone'
                    /\ pool' = "freed" => Gone' \/ (mpc' = "exited" /\ TeardownAlone')
  BY DEF Alone
<1> DEFINE Goal == /\ \A t \in Threads : hpc'[t] \in {"drain_lock", "drain", "drain_unlock", "free"} => Gone'
                   /\ pool' = "freed" => Gone' \/ (mpc' = "exited" /\ TeardownAlone')
<1>0. teardowns <= 1 /\ Workers \subseteq Threads /\ \A t \in Threads : hpc[t] # "none" => hpc'[t] # "none"
  BY Irrevocable DEF Types, Threads
<1>a. /\ \A t \in Threads : hpc[t] \in {"drain_lock", "drain", "drain_unlock", "free"} => Gone
      /\ pool = "freed" => Gone \/ (mpc = "exited" /\ TeardownAlone)
  BY <1>0 DEF Alone
<1> USE DEF Types, Gone, TeardownAlone, Halted, CanRun, poolVars, workVars, mainVars, downVars
<1>1. ASSUME NEW w \in Workers, WorkerStep(w) \/ SpuriousWakeup(w)
      PROVE  Goal
  BY <1>0, <1>a, <1>1 DEF WorkerStep, SpuriousWakeup, WorkerLock, WorkerFindsNothing, WorkerWait, WorkerWakes, WorkerExits,
     WorkerTakes, WorkerUnlock, SemWait, HandleClient, SemPost, WorkerGo
<1>2. CASE CreateStep
  BY <1>0, <1>a, <1>2 DEF CreateStep, InitFails, CreatePool, CreateWorker, CreateWorkerFails,
     CreateBroadcast, CreateGivesUp, CreateReturns, CondBroadcast, MainGo, Started
<1>3. CASE Listen \/ Accept \/ AddTaskStep
  BY <1>0, <1>a, <1>3 DEF Listen, Accept, AddTaskStep, AddTaskFails, AddTaskCalled,
     AddTaskLock, AddTaskLink, AddTaskUnlock, CondSignal, Waiting, MainGo
<1>4. ASSUME NEW t \in Threads, ShutdownStep(t) PROVE Goal
  <2>1. CASE DestroyJoin(t)
    BY <1>0, <1>a, <2>1 DEF DestroyJoin, Joined, HandlerGo, HandlerMoves
  <2>2. CASE ~DestroyJoin(t)
    BY <1>0, <1>a, <1>4, <2>2 DEF ShutdownStep, ShutdownEnters, ShutdownSkipsPool, DestroyLock, DestroySignals, DestroyUnlock,
       DrainLock, Drain, DrainUnlock, DestroyFree, ClearPointer, ProcessExits, CondBroadcast, HandlerGo, HandlerTears, HandlerMoves
  <2> QED
    BY <2>1, <2>2
<1>5. ASSUME NEW t \in Threads, BeginShutdown(t), Signal(t) \/ ListenFails PROVE Goal
  BY <1>0, <1>a, <1>5 DEF BeginShutdown, Signal, ListenFails
<1>6. CASE UseAfterFree \/ (\E c \in Clients : ClientSends(c)) \/ UNCHANGED vars
  BY <1>0, <1>a, <1>6 DEF UseAfterFree, ClientSends, vars
<1>7. Main \in Threads
  BY DEF Threads
<1> QED
  BY <1>1, <1>2, <1>3, <1>4, <1>5, <1>6, <1>7 DEF Next, Terminated, Signal, ListenFails

-----------------------------------------------------------------------------
(* The abstract specification.                                             *)

\* Where each connection is, in the words of the abstract specification.
Phases ==
  \A c \in Clients :
    /\ Phase[c] = "unborn"  <=> c > accepted
    /\ Phase[c] = "held"    <=> c = client_socket
    /\ Phase[c] = "waiting" <=> c \in Queued
    /\ Phase[c] = "served"  <=> c \in InService
    /\ Phase[c] = "closed"  <=> c <= accepted /\ c \notin Queued \cup InService \cup {client_socket}

LEMMA PhasesCorrect == Types /\ Known /\ OwnedOnce => Phases
<1> SUFFICES ASSUME Types, Known, OwnedOnce, NEW c \in Clients
             PROVE  /\ Phase[c] = "unborn"  <=> c > accepted
                    /\ Phase[c] = "held"    <=> c = client_socket
                    /\ Phase[c] = "waiting" <=> c \in Queued
                    /\ Phase[c] = "served"  <=> c \in InService
                    /\ Phase[c] = "closed"  <=> /\ c <= accepted
                                               /\ c \notin Queued \cup InService \cup {client_socket}
  BY DEF Phases
<1>1. /\ c \in Int /\ accepted \in Int
      /\ c \in Queued \cup InService \cup {client_socket} => c <= accepted
  BY SizesAssumption DEF Types, Clients, Known
<1>2. Phase[c] = CASE c > accepted      -> "unborn"
                   [] c = client_socket -> "held"
                   [] c \in Queued      -> "waiting"
                   [] c \in InService   -> "served"
                   [] OTHER             -> "closed"
  BY DEF Phase
<1>3. /\ ~(c \in Queued /\ c \in InService)
      /\ ~(c = client_socket /\ c \in Queued \cup InService)
  BY DEF OwnedOnce
<1>4. CASE c > accepted
  BY <1>1, <1>2, <1>4
<1>5. CASE c <= accepted /\ c = client_socket
  BY <1>1, <1>2, <1>3, <1>5
<1>6. CASE c <= accepted /\ c # client_socket /\ c \in Queued
  BY <1>1, <1>2, <1>3, <1>6
<1>7. CASE c <= accepted /\ c # client_socket /\ c \notin Queued /\ c \in InService
  BY <1>1, <1>2, <1>3, <1>7
<1>8. CASE c <= accepted /\ c \notin Queued \cup InService \cup {client_socket}
  BY <1>1, <1>2, <1>3, <1>8
<1> QED
  BY <1>1, <1>4, <1>5, <1>6, <1>7, <1>8

LEMMA InitDispatch == Init /\ Phases => Dispatch!Init
<1> SUFFICES ASSUME Init, Phases PROVE Dispatch!Init
  OBVIOUS
<1>1. \A c \in Clients : Phase[c] = "unborn"
  BY DEF Init, Clients, Phases
<1>2. Phase = [c \in Clients |-> Phase[c]]
  BY DEF Phase
<1>3. Phase = [c \in Clients |-> "unborn"]
  BY <1>1, <1>2
<1> QED
  BY <1>3 DEF Init, Dispatch!Init

LEMMA StepDispatch ==
  Types /\ Hands /\ OwnedOnce /\ Known /\ Phases /\ Phases' /\ [Next]_vars
    => [Dispatch!Next]_(Dispatch!vars)
<1> SUFFICES ASSUME Types, Hands, OwnedOnce, Known, Phases, Phases', [Next]_vars
             PROVE  Dispatch!Next \/ UNCHANGED <<Phase, queue, task>>
  BY DEF Dispatch!vars
<1> DEFINE Goal == Dispatch!Next \/ UNCHANGED <<Phase, queue, task>>
<1>0. ASSUME queue' = queue, task' = task, accepted' = accepted, client_socket' = client_socket
      PROVE  Goal
  <2>1. Phase' = Phase
    BY <1>0 DEF Phase, Queued, InService
  <2> QED
    BY <1>0, <2>1
<1>a. Phase = [c \in Clients |-> Phase[c]] /\ Phase' = [c \in Clients |-> Phase'[c]]
  BY DEF Phase
<1>b. /\ Clients \subseteq Int /\ accepted \in Int
      /\ NoClient \notin Clients /\ NoClient \notin InService /\ NoClient \notin Queued
  BY ElementOfSeq, SizesAssumption DEF Types, Clients, NoClient, InService, Queued
<1>c. \A c \in Clients : Phase[c] \in {"unborn", "held", "waiting", "served", "closed"}
                         /\ Phase'[c] \in {"unborn", "held", "waiting", "served", "closed"}
  BY DEF Phase
<1>d. ASSUME NEW c \in Clients, NEW p, Phase'[c] = p, \A d \in Clients \ {c} : Phase'[d] = Phase[d]
      PROVE  Phase' = [Phase EXCEPT ![c] = p]
  BY <1>a, <1>d
<1> HIDE DEF Goal
<1>1. ASSUME NEW w \in Workers, WorkerTakes(w) PROVE Goal
  <2> DEFINE c == Head(queue)
  <2>1. /\ queue # <<>> /\ queue' = Tail(queue)
        /\ task[w] = NoClient /\ task' = [task EXCEPT ![w] = c]
        /\ accepted' = accepted /\ client_socket' = client_socket
    BY <1>1 DEF WorkerTakes, WorkerGo, Hands, mainVars
  <2>2. Queued' = Queued \ {c} /\ c \in Queued /\ c \in Clients
    <3>1. /\ queue \in Seq(Clients)
          /\ \A i, j \in 1..Len(queue) : queue[i] = queue[j] => i = j
      BY DEF Types, OwnedOnce
    <3>2. /\ {Tail(queue)[i] : i \in 1..Len(Tail(queue))} = {queue[i] : i \in 1..Len(queue)} \ {c}
          /\ c \in {queue[i] : i \in 1..Len(queue)}
      BY <2>1, <3>1, DequeueHead, Zenon
    <3>3. c \in Clients
      BY <2>1, <3>1, HeadTailProperties
    <3> QED
      BY <2>1, <3>2, <3>3 DEF Queued
  <2>4. c = Head(queue)
    OBVIOUS
  <2> HIDE DEF c
  <2>5. InService' = InService \cup {c}
    BY <1>b, <2>1, <2>2 DEF InService, Types
  <2>6. Phase'[c] = "served"
    BY <2>2, <2>5 DEF Phases
  <2>7. ASSUME NEW d \in Clients \ {c} PROVE Phase'[d] = Phase[d]
    BY <1>c, <2>1, <2>2, <2>5 DEF Phases
  <2>8. Dispatch!Serve(w, c)
    <3>1. Phase' = [Phase EXCEPT ![c] = "served"]
      BY <1>d, <2>2, <2>6, <2>7
    <3> QED
      BY <2>1, <2>4, <3>1 DEF Dispatch!Serve
  <2> QED
    BY <2>2, <2>8 DEF Goal, Dispatch!Next
<1>2. ASSUME NEW w \in Workers, HandleClient(w) PROVE Goal
  <2> DEFINE c == task[w]
  <2>0. c = task[w] /\ task' = [task EXCEPT ![w] = NoClient]
    BY <1>2 DEF HandleClient
  <2>1. c \in Clients /\ c \in InService
    BY <1>2 DEF HandleClient, WorkerGo, Hands, Types, InService
  <2>2. InService' = InService \ {c}
    BY <1>2, <2>1 DEF HandleClient, InService, OwnedOnce, Types, NoClient
  <2>3. Queued' = Queued /\ client_socket' = client_socket /\ accepted' = accepted /\ queue' = queue
    BY <1>2 DEF HandleClient, poolVars, mainVars, Queued
  <2> HIDE DEF c
  <2>4. c <= accepted /\ c # client_socket /\ c \notin Queued
    BY <1>b, <2>1 DEF OwnedOnce, Known
  <2>5. Phase[c] = "served" /\ Phase'[c] = "closed"
    BY <2>1, <2>2, <2>3, <2>4 DEF Phases
  <2>6. ASSUME NEW d \in Clients \ {c} PROVE Phase'[d] = Phase[d]
    BY <1>c, <2>2, <2>3 DEF Phases
  <2>7. Dispatch!Finish(w, c)
    BY <1>d, <2>1, <2>3, <2>5, <2>6, <2>0 DEF Dispatch!Finish
  <2> QED
    BY <2>1, <2>7 DEF Goal, Dispatch!Next
<1>3. CASE Accept
  <2> DEFINE c == accepted + 1
  <2>1. client_socket = NoClient /\ c \in Clients
    BY <1>3, <1>b, SizesAssumption DEF Accept, MainGo, Hands, Clients, Types
  <2>2. queue' = queue /\ task' = task /\ accepted' = accepted + 1 /\ client_socket' = c
    BY <1>3 DEF Accept, poolVars, workVars
  <2>3. Queued' = Queued /\ InService' = InService
    BY <2>2 DEF Queued, InService
  <2>4. Phase[c] = "unborn" /\ Phase'[c] = "held"
    BY <1>b, <2>1, <2>2 DEF Phases
  <2>5. ASSUME NEW d \in Clients \ {c} PROVE Phase'[d] = Phase[d]
    <3>1. d \in Int /\ (d > accepted <=> d > accepted + 1)
      BY <1>b
    <3>2. d # client_socket /\ d # client_socket'
      BY <1>b, <2>1, <2>2
    <3> QED
      BY <1>b, <1>c, <2>2, <2>3, <3>1, <3>2 DEF Phases
  <2>6. Dispatch!Arrive(c)
    BY <1>d, <2>1, <2>2, <2>4, <2>5 DEF Dispatch!Arrive
  <2> QED
    BY <2>1, <2>6 DEF Goal, Dispatch!Next
<1>4. CASE AddTaskFails
  <2> DEFINE c == client_socket
  <2>1. c \in Clients
    BY <1>4 DEF AddTaskFails, MainGo, Hands, Types
  <2>2. queue' = queue /\ task' = task /\ accepted' = accepted /\ client_socket' = NoClient
    BY <1>4 DEF AddTaskFails, poolVars, workVars
  <2>3. Queued' = Queued /\ InService' = InService
    BY <2>2 DEF Queued, InService
  <2>4. c <= accepted /\ c \notin Queued \cup InService
    BY DEF OwnedOnce, Known
  <2>5. Phase[c] = "held" /\ Phase'[c] = "closed"
    BY <1>b, <2>1, <2>2, <2>3, <2>4 DEF Phases
  <2>6. ASSUME NEW d \in Clients \ {c} PROVE Phase'[d] = Phase[d]
    BY <1>b, <1>c, <2>2, <2>3 DEF Phases
  <2>7. Dispatch!Refuse(c)
    BY <1>d, <2>1, <2>2, <2>5, <2>6 DEF Dispatch!Refuse
  <2> QED
    BY <2>1, <2>7 DEF Goal, Dispatch!Next
<1>5. CASE AddTaskLink
  <2> DEFINE c == client_socket
  <2>1. c \in Clients /\ c \notin Queued
    BY <1>5 DEF AddTaskLink, MainGo, Hands, OwnedOnce, Types
  <2>2. queue' = Append(queue, c) /\ task' = task /\ accepted' = accepted /\ client_socket' = NoClient
    BY <1>5 DEF AddTaskLink
  <2>3. Queued' = Queued \cup {c} /\ InService' = InService
    <3>1. /\ queue \in Seq(Clients)
          /\ \A i, j \in 1..Len(queue) : queue[i] = queue[j] => i = j
      BY DEF Types, OwnedOnce
    <3> QED
      BY <2>1, <2>2, <3>1, EnqueueLast DEF Queued, InService
  <2>4. Phase[c] = "held" /\ Phase'[c] = "waiting"
    BY <2>1, <2>3 DEF Phases
  <2>5. ASSUME NEW d \in Clients \ {c} PROVE Phase'[d] = Phase[d]
    BY <1>b, <1>c, <2>2, <2>3 DEF Phases
  <2>6. Dispatch!Submit(c)
    BY <1>d, <2>1, <2>2, <2>4, <2>5 DEF Dispatch!Submit
  <2> QED
    BY <2>1, <2>6 DEF Goal, Dispatch!Next
<1>6. ASSUME NEW t \in Threads, Drain(t) PROVE Goal
  <2>1. UNCHANGED <<task, accepted, client_socket>> /\ queue' = <<>>
    BY <1>6 DEF Drain, workVars, mainVars
  <2>2. CASE queue = <<>>
    BY <1>0, <2>1, <2>2 DEF Goal
  <2>3. CASE queue # <<>>
    <3>1. Queued' = {} /\ InService' = InService
      BY <2>1 DEF Queued, InService
    <3>2. ASSUME NEW d \in Clients
          PROVE  Phase'[d] = IF Phase[d] = "waiting" THEN "closed" ELSE Phase[d]
      <4>1. d \in Queued => d <= accepted /\ d \notin InService \cup {client_socket}
        BY <1>b DEF OwnedOnce, Known
      <4> QED
        BY <1>b, <1>c, <2>1, <3>1, <4>1 DEF Phases
    <3>3. Dispatch!Abandon
      BY <1>a, <2>1, <2>3, <3>2 DEF Dispatch!Abandon
    <3> QED
      BY <3>3 DEF Goal, Dispatch!Next
  <2> QED
    BY <2>2, <2>3
<1> USE DEF poolVars, workVars, mainVars, downVars
<1>7. ASSUME NEW w \in Workers, WorkerStep(w) \/ SpuriousWakeup(w), ~WorkerTakes(w), ~HandleClient(w)
      PROVE  Goal
  BY <1>0, <1>7 DEF WorkerStep, SpuriousWakeup, WorkerLock, WorkerFindsNothing, WorkerWait, WorkerWakes, WorkerExits,
     WorkerUnlock, SemWait, SemPost
<1>8. ASSUME CreateStep PROVE Goal
  BY <1>0, <1>8 DEF CreateStep, InitFails, CreatePool, CreateWorker, CreateWorkerFails,
     CreateBroadcast, CreateGivesUp, CreateReturns
<1>9. ASSUME Listen \/ ListenFails \/ AddTaskCalled \/ AddTaskLock \/ AddTaskUnlock PROVE Goal
  BY <1>0, <1>9 DEF Listen, ListenFails, BeginShutdown, AddTaskCalled, AddTaskLock, AddTaskUnlock
<1>10. ASSUME NEW t \in Threads, ShutdownStep(t), ~Drain(t) PROVE Goal
  BY <1>0, <1>10 DEF ShutdownStep, ShutdownEnters, ShutdownSkipsPool, DestroyLock, DestroySignals, DestroyUnlock, DestroyJoin,
     DrainLock, DrainUnlock, DestroyFree, ClearPointer, ProcessExits
<1>11. ASSUME UseAfterFree \/ (\E t \in Threads : Signal(t)) \/ (\E c \in Clients : ClientSends(c)) \/ UNCHANGED vars PROVE Goal
  BY <1>0, <1>11 DEF UseAfterFree, Signal, BeginShutdown, ClientSends, vars
<1> QED
  BY <1>1, <1>2, <1>3, <1>4, <1>5, <1>6, <1>7, <1>8, <1>9, <1>10, <1>11 DEF Next, AddTaskStep, Terminated, Goal

-----------------------------------------------------------------------------
(* The theorems.                                                           *)

LEMMA InitAll ==
  Init => Types /\ Hands /\ Exclusion /\ Sleepers /\ SemaphoreBalanced /\ WorkConserving
          /\ Known /\ OwnedOnce /\ Down
<1> SUFFICES ASSUME Init
             PROVE  Types /\ Hands /\ Exclusion /\ Sleepers /\ SemaphoreBalanced /\ WorkConserving
                    /\ Known /\ OwnedOnce /\ Down
  OBVIOUS
<1> USE SizesAssumption DEF Init
<1>1. Types
  <2>1. queue \in Seq(Clients)
    BY EmptySeq
  <2>2. /\ wpc \in [Workers -> WorkerPlaces] /\ task \in [Workers -> Clients \cup {NoClient}]
        /\ closes \in [Clients -> Nat]
    BY DEF WorkerPlaces
  <2>3. semaphore \in Nat /\ accepted \in 0..NumClients
    OBVIOUS
  <2> QED
    BY <2>1, <2>2, <2>3 DEF Types, MainPlaces, HandlerPlaces
<1>0. Hands /\ Exclusion /\ Sleepers
  BY DEF Hands, Exclusion, Inside, Sleepers, NoThread, NoClient
<1>7. Down
  BY DEF Down, MainCarries, Early, Threads
<1>2. SemaphoreBalanced
  <2>1. Admitted = {}
    BY DEF Admitted
  <2> QED
    BY <2>1, FS_EmptySet DEF SemaphoreBalanced
<1>3. WorkConserving
  BY DEF WorkConserving, Waiting
<1>4. Queued = {} /\ InService = {}
  BY DEF Queued, InService
<1>5. Known
  BY <1>4 DEF Known, NoClient
<1>6. OwnedOnce
  BY <1>4 DEF OwnedOnce, NoClient, Clients
<1> QED
  BY <1>0, <1>1, <1>2, <1>3, <1>5, <1>6, <1>7

LEMMA TypesInvariant == Spec => [](Types /\ Hands)
BY InitAll, StepTypes, StepHands, PTL DEF Spec

\* The connection limit (thread_pool.c:49-56): no unit of the semaphore is lost
\* or invented, whatever the interleaving.
THEOREM ConnectionLimit == Spec => []SemaphoreBalanced
BY InitAll, TypesInvariant, StepSemaphore, PTL DEF Spec

\* The types, and the semaphore between 0 and its initial value.
THEOREM TypeCorrect == Spec => []TypeOK
<1>1. Types /\ SemaphoreBalanced => TypeOK
  <2> SUFFICES ASSUME Types, SemaphoreBalanced PROVE semaphore \in 0..MAX_CLIENTS
    BY DEF Types, TypeOK
  <2>1. Cardinality(Admitted) \in Nat
    BY WorkersFinite DEF Admitted
  <2> QED
    BY <2>1, SizesAssumption DEF SemaphoreBalanced, Types
<1> QED
  BY <1>1, TypesInvariant, ConnectionLimit, PTL

LEMMA MutexInvariant == Spec => [](Exclusion /\ Sleepers)
BY InitAll, TypesInvariant, StepExclusion, StepSleepers, PTL DEF Spec

\* No lost wakeup (thread_pool.c:23-25, 147): one cond_signal per task is enough.
THEOREM NoLostWakeup == Spec => []WorkConserving
BY InitAll, TypesInvariant, MutexInvariant, StepConserving, PTL DEF Spec

LEMMA KnownInvariant == Spec => []Known
BY InitAll, TypesInvariant, StepKnown, PTL DEF Spec

\* Every accepted socket has one owner until it is closed, and is closed once.
THEOREM SingleOwner == Spec => []OwnedOnce
BY InitAll, TypesInvariant, KnownInvariant, StepOwned, PTL DEF Spec

LEMMA DownInvariant == Spec => [](MainCarries => Down)
<1>1. Init => (MainCarries => Down)
  BY InitAll
<1>2. Types /\ Hands /\ (MainCarries => Down) /\ [Next]_vars => (MainCarries => Down)'
  BY StepDown
<1> QED
  BY <1>1, <1>2, TypesInvariant, PTL DEF Spec

\* While every shutdown runs on the main thread, whatever it interrupts there, and none
\* begins after one came to its join, no thread uses freed memory: a signal may interrupt
\* main's own shutdown or an earlier handler (proxy_server.c:41-42, 53) up to that point.
THEOREM ShutdownOnMainIsSafe == Spec => []MainShutdownSafe
<1>1. (MainCarries => Down) => MainShutdownSafe
  BY DEF Down, MainShutdownSafe, NoUseAfterFree
<1> QED
  BY <1>1, DownInvariant, PTL

\* ... and, under the same condition, no accepted connection is left open when the pool is
\* freed, but the one in the main thread's hand.
THEOREM ShutdownOnMainDrains == Spec => []ShutdownDrains
<1>1. Types /\ Hands /\ Known /\ OwnedOnce /\ (MainCarries => Down) => ShutdownDrains
  <2> SUFFICES ASSUME Types, Hands, Known, OwnedOnce, Down, pool = "freed", NEW c \in 1..accepted, c # client_socket
               PROVE  closes[c] = 1
    BY DEF ShutdownDrains
  <2>1. queue = <<>> /\ \A w \in Workers : wpc[w] = "exited"
    BY SizesAssumption DEF Known, Down, Types
  <2>2. Queued = {} /\ InService = {}
    BY <2>1 DEF Queued, InService, Hands
  <2>3. c \in Clients /\ c <= accepted
    BY SizesAssumption DEF Clients, Types
  <2> QED
    BY <2>2, <2>3 DEF OwnedOnce
<1> QED
  BY <1>1, DownInvariant, TypesInvariant, KnownInvariant, SingleOwner, PTL

\* Where a single shutdown comes to the join, on whatever thread and however many began, the
\* cache and the connections are torn down when no worker runs any more, unless it is
\* a worker that a signal interrupted.
THEOREM ShutdownWaitsForWorkers == Spec => []TeardownAlone
<1>1. Init => Alone
  BY DEF Init, Alone
<1>2. Alone => TeardownAlone
  BY DEF Alone, Gone, TeardownAlone
<1> QED
  BY <1>1, <1>2, StepAlone, TypesInvariant, PTL DEF Spec

\* The pool is a first come, first served dispatcher (module TaskDispatch).
THEOREM PoolImplementsDispatch == Spec => ImplementsDispatch
BY InitAll, InitDispatch, StepDispatch, PhasesCorrect, TypesInvariant, KnownInvariant, SingleOwner, PTL
   DEF Spec, ImplementsDispatch, Dispatch!Spec
=============================================================================
