SPECIFICATION Spec
CONSTANTS
  c1 = c1
  c2 = c2
  w1 = w1
  w2 = w2
  q1 = q1
  q2 = q2
  None = None
  Conns = {c1}
  FirstConn = c1
  Workers = {w1, w2}
  Requests = {q1}
  ConnOf <- OneConn
  ObjectsOf <- OwnObjectsOf
  HasSubject = {}
  Verdicts = {"ALLOW"}
  FunctionInit = {TRUE, FALSE}
  Versions = {2, 3}
  VarData = TRUE
  Pool0 = {1}
  Pool1 = {2}
  Heap = {3, 4, 5, 6, 7, 8, 9}
  MaxOps = 1
  MaxInitOps = 1
  Unruly = {"early query", "stray answer", "hangup", "unfit types"}
CONSTRAINT OneOperation
INVARIANTS
  NoTwoPlaces
PROPERTIES
  ImplementsServiceSafely
SYMMETRY Symmetry
