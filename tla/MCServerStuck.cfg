SPECIFICATION FairSpec
CONSTANTS
  Conns = {c1, c2}
  Fds = {f1, f2}
  Workers = {w1}
  Listener = listener
  NoConn = NoConn
  NoFd = NoFd
  MaxRequests = 1
  MaxTasks = 2
  Watched = {c1}
PROPERTY RequestAnswered
CHECK_DEADLOCK FALSE
