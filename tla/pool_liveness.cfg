SPECIFICATION FairSpecTalking
CONSTANTS
  NUM_WORKER_THREADS = 2
  MAX_CLIENTS = 1
  NumClients = 3
  NumShutdowns = 1
  Carriers <- OnOwn
  Faults = {"malloc"}
PROPERTIES EveryClientServed ShutdownTerminates
CHECK_DEADLOCK FALSE
