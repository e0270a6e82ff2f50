SPECIFICATION Spec
CONSTANTS
  kern = kern  proc = proc  file = file  fork = fork  exec = exec
  byfork = byfork  byexec = byexec  files = files
  f0 = f0  f1 = f1  e0 = e0  e1 = e1  e2 = e2  d0 = d0
  p1 = p1  p2 = p2  i1 = i1  s1 = s1  s2 = s2  b1 = b1  b2 = b2
  NoEvent = NoEvent  NoNode = NoNode  NoObject = NoObject  NoAttr = NoAttr  Idle = Idle
  Conns <- MCConns
  ClassNames = {proc, file}
  EventNames = {fork, exec}
  ClassDefs <- MCClassDefs
  EventDefs <- MCEventDefs
  Handlers <- MCHandlers
  HandlerClass <- MCHandlerClass
  HandlerEvent <- MCHandlerEvent
  HandlerOrder <- MCOrder
  IntBits = 1
  PtrBits = 4
  MaxStructs = 2
  LateDefinitions = FALSE
  Nodes = {f0, f1, e0, e1, e2, d0}
  Root <- MCRoot
  Owner <- MCOwner
  Children <- MCChildren
  Alternatives <- MCAlternatives
  NodeSpaces <- MCNodeSpaces
  NodeEvents <- MCNodeEvents
  Flags <- MCFlags
  AccessTypes = {"MEMBER", "ENTER"}
  VsAttr <- MCVsAttr
  EventBits <- MCEventBits
  Words = {0, 1, 2, 3}
  Objects = {p1, p2, i1}
  ObjConn <- MCObjConn
  ObjClass <- MCObjClass
  Buffers = {b1, b2}
  MaxRequests = 2
  Said <- MCSaid
  MaxEnters = 1
CONSTRAINT ClassesFirst
SYMMETRY MCSymmetry
INVARIANTS
  CinfoDisjoint
  NodesInPlace
  SetsMatchNodes
  StepsDown
CHECK_DEADLOCK FALSE
