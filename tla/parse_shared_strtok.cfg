SPECIFICATION Spec
CONSTANTS
  Workers = {w1, w2}
  Clients = {c1, c2}
  NoClient = NoClient
  SharedStrtok = TRUE
SYMMETRY Interchangeable
INVARIANTS OwnRequest
CHECK_DEADLOCK FALSE
