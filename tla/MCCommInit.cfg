SPECIFICATION Spec
CONSTANTS
  c1 = c1
  c2 = c2
  w1 = w1
  w2 = w2
  q1 = q1
  q2 = q2
  None = None
  Conns = {c1}
  FirstConn = c1
  Workers = {w1}
  Requests = {q1, q2}
  ConnOf <- OneConn
  ObjectsOf <- OwnObjectsOf
  HasSubject = {q1}
  Verdicts = {"ALLOW", "ERR"}
  FunctionInit = {TRUE}
  Versions = {2, 3}
  VarData = FALSE
  Pool0 = {1}
  Pool1 = {}
  Heap = {2, 3, 4, 5, 6, 7, 8, 9}
  MaxOps = 0
  MaxInitOps = 1
  Unruly = {}
INVARIANTS
  InitBufferLives
PROPERTIES
  EveryReadyAnswered
  ImplementsService
