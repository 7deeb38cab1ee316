SPECIFICATION FairSpec
CONSTANTS
  NUM_WORKER_THREADS = 2
  MAX_CLIENTS = 1
  NumClients = 1
  NumShutdowns = 1
  Carriers <- Nobody
  Faults = {"create"}
PROPERTIES CreateFailureReturns
CHECK_DEADLOCK FALSE
