SPECIFICATION Spec
CONSTANTS
  Workers = {w1, w2}
  Hosts = {h1, h2}
  Fds = {f1, f2, f3, f4}
  NoFd = NoFd
  MAX_POOL_SIZE = 2
  CONNECTION_TIMEOUT = 1
  LowestFd = FALSE
  SharedHostent = TRUE
  Sweeper = TRUE
SYMMETRY Symmetric
INVARIANTS TypeOK OneOwner SizeExact DestroyClosesAll SlotsDescribe RightUnlessStrayOrCrossed
PROPERTIES ImplementsKeeper
CHECK_DEADLOCK FALSE
