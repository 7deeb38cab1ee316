SPECIFICATION FairSpec
CONSTANTS
  a = a
  b = b
  g = g
  h = h
  c1 = c1
  c2 = c2
  c3 = c3
  Workers = {w1, w2}
  Clients = {c1, c2, c3}
  RequestOf <- TwoServers
  Methods = {"GET", "HEAD"}
  Paths = {a, b}
  Names = {g, h}
  Ports = {80, 65536}
  NoPort = NoPort
  Conns = {s1, s2}
  NoConn = NoConn
  NoClient = NoClient
  MAX_RESPONSE_SIZE = 2
INVARIANTS TypeOK AnsweredOnce OwnUnlessLeftOver CacheRepeatsAnswers
PROPERTIES EveryRequestEnds
CHECK_DEADLOCK FALSE
