SPECIFICATION Spec
CONSTANTS
  NUM_WORKER_THREADS = 2
  MAX_CLIENTS = 1
  NumClients = 3
  NumShutdowns = 2
  Carriers <- OnMainOrFirst
  Faults = {"alloc", "create", "listen", "malloc", "spurious"}
INVARIANTS TypeOK SemaphoreBalanced WorkConserving OwnedOnce ShutdownDrains MainShutdownSafe TeardownAlone
PROPERTIES ImplementsDispatch
CHECK_DEADLOCK FALSE
