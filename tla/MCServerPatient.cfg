SPECIFICATION PatientSpec
CONSTANTS
  Conns = {c1, c2}
  Fds = {f1, f2}
  Workers = {w1}
  Listener = listener
  NoConn = NoConn
  NoFd = NoFd
  MaxRequests = 1
  MaxTasks = 1
  Watched = {c1}
PROPERTIES
  ClosedIsDropped
  RequestAnswered
  StopCompletes
CHECK_DEADLOCK FALSE
