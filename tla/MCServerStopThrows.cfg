SPECIFICATION Spec
CONSTANTS
  Conns = {c1}
  Fds = {f1}
  Workers = {w1}
  Listener = listener
  NoConn = NoConn
  NoFd = NoFd
  MaxRequests = 1
  MaxTasks = 2
  Watched = {}
INVARIANT StopIsGraceful
CHECK_DEADLOCK FALSE
