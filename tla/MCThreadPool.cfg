SPECIFICATION FairSpec
CONSTANTS
  Workers = {w1, w2}
  Clients = {c1, c2}
  Owner = owner
  Tasks = {t1, t2}
  NoTask = NoTask
  NoThread = NoThread
INVARIANTS
  TypeOK
  ExactlyOnce
  NoLostWakeup
PROPERTIES
  AcceptedTaskRuns
  StopTerminates
  ImplementsExecutor
\* Once the pool is gone and every call has been made, the system stops.
CHECK_DEADLOCK FALSE
