SPECIFICATION FairSpec
CONSTANTS
  Parent = parent
  k1 = k1
  k2 = k2
  Kids = {k1, k2}
  Pid <- MCPid
  Objs = {o1, o2}
  Conns = {c1}
  Limit = 6
  Fds <- MCFds
  None = None
  MaxInFlight = 1
INVARIANTS
  TypeOK
  EndsAreOwned
  WorkerHoldsItsOwn
PROPERTIES
  ImplementsHandOver
  EndIsSeen
CHECK_DEADLOCK FALSE
