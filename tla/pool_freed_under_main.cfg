SPECIFICATION Spec
CONSTANTS
  NUM_WORKER_THREADS = 1
  MAX_CLIENTS = 1
  NumClients = 2
  NumShutdowns = 1
  Carriers <- OnOwn
  Faults = {}
INVARIANTS NoUseAfterFree
CHECK_DEADLOCK FALSE
