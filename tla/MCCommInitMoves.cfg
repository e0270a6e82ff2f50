SPECIFICATION Spec
CONSTANTS
  c1 = c1
  c2 = c2
  w1 = w1
  w2 = w2
  q1 = q1
  q2 = q2
  None = None
  Conns = {c1, c2}
  FirstConn = c1
  Workers = {w1, w2}
  Requests = {q1, q2}
  ConnOf <- TwoConns
  ObjectsOf <- OwnObjectsOf
  HasSubject = {}
  Verdicts = {"ALLOW"}
  FunctionInit = {TRUE}
  Versions = {3}
  VarData = TRUE
  Pool0 = {1, 2}
  Pool1 = {3, 4}
  Heap = {5, 6, 7, 8, 9, 10, 11}
  MaxOps = 0
  MaxInitOps = 0
  Unruly = {}
INVARIANTS
  InitBufferLives
