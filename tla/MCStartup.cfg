SPECIFICATION Spec
CONSTANTS
  dev1 = dev1  dev2 = dev2  ip1 = ip1  ip2 = ip2  net1 = net1
  rbac = rbac  other = other  conf2 = conf2
  NoDevice = NoDevice  NoModule = NoModule  None = None
  Configs <- MCConfigs
  Registered <- MCRegistered
  MakesComm = {rbac}
  StdFds <- MCStdFds
  TooLow = 80
INVARIANTS
  SlotForEveryConnection
  LinesKeepTheirOwn
PROPERTIES
  ServesWhoGreets
CHECK_DEADLOCK FALSE
