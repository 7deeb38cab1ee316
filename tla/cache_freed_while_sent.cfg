SPECIFICATION Spec
CONSTANTS
  Workers = {w1, w2}
  Urls = {u1, u2}
  Nodes = {n1, n2}
  NULL = NULL
  HASH_TABLE_SIZE = 2
  CACHE_SIZE = 1
  CACHE_EXPIRY_TIME = 1
  HashOf <- OneBucket
  Sweeper = FALSE
INVARIANTS NoUseAfterFree
CHECK_DEADLOCK FALSE
