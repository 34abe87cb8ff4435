SPECIFICATION Spec
CONSTANTS
  Conns = {c1, c2}
  Fds = {f1, f2}
  Workers = {w1, w2}
  Listener = listener
  NoConn = NoConn
  NoFd = NoFd
  MaxRequests = 2
  MaxTasks = 2
  Watched = {}
SYMMETRY Symmetry
INVARIANTS
  TypeOK
  OneOwnerPerFd
  ClientsRegistered
  RequestHandledOnce
CHECK_DEADLOCK FALSE
