SPECIFICATION Spec
CONSTANTS
  Workers = {w1, w2}
  Hosts = {h1, h2}
  Fds = {3, 4, 5, 6}
  NoFd = NoFd
  MAX_POOL_SIZE = 2
  CONNECTION_TIMEOUT = 1
  LowestFd = TRUE
  SharedHostent = FALSE
  Sweeper = FALSE
INVARIANTS RightServer
CHECK_DEADLOCK FALSE
