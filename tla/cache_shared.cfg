SPECIFICATION Spec
CONSTANTS
  Workers = {w1, w2}
  Urls = {u1, u2, u3}
  Nodes = {n1, n2, n3}
  NULL = NULL
  HASH_TABLE_SIZE = 2
  CACHE_SIZE = 3
  CACHE_EXPIRY_TIME = 1
  HashOf <- OneApart
  Sweeper = TRUE
SYMMETRY Symmetric
INVARIANTS TypeOK LruList ChainsExact HitIsFresh DestroyFreesAll
PROPERTIES DropsOldest ImplementsLru
CHECK_DEADLOCK FALSE
