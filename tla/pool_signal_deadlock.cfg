SPECIFICATION FairSpecTalking
CONSTANTS
  NUM_WORKER_THREADS = 1
  MAX_CLIENTS = 1
  NumClients = 1
  NumShutdowns = 1
  Carriers <- OnMain
  Faults = {}
PROPERTIES ShutdownTerminates
CHECK_DEADLOCK FALSE
