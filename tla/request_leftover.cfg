SPECIFICATION Spec
CONSTANTS
  a = a
  b = b
  g = g
  h = h
  c1 = c1
  c2 = c2
  c3 = c3
  Workers = {w1}
  Clients = {c1, c3}
  RequestOf <- OneServer
  Methods = {"GET"}
  Paths = {a, b}
  Names = {h}
  Ports = {65536}
  NoPort = NoPort
  Conns = {s1}
  NoConn = NoConn
  NoClient = NoClient
  MAX_RESPONSE_SIZE = 2
INVARIANTS OwnResponse
CHECK_DEADLOCK FALSE
