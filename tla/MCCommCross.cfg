SPECIFICATION Spec
CONSTANTS
  c1 = c1
  c2 = c2
  w1 = w1
  w2 = w2
  q1 = q1
  q2 = q2
  None = None
  Conns = {c1}
  FirstConn = c1
  Workers = {w1, w2}
  Requests = {q1, q2}
  ConnOf <- OneConn
  ObjectsOf <- OwnObjectsOf
  HasSubject = {}
  Verdicts = {"ALLOW"}
  FunctionInit = {TRUE}
  Versions = {2}
  VarData = TRUE
  Pool0 = {}
  Pool1 = {}
  Heap = {1, 2, 3, 4, 5, 6, 7}
  MaxOps = 1
  MaxInitOps = 0
  Unruly = {}
INVARIANTS
  SeesOutcome
  OnePlace
  BeginsOnce
  WaiterKnown
  SemCounts
SYMMETRY Symmetry
