SPECIFICATION Spec
CONSTANTS
  Base = 6
  Infos <- MCInfos
  Room <- MCRoom
  SizeLimit = 4
  AgeLimit = 1
  MaxTime = 2
  MaxTraced = 4
  MaxStarts = 2
INVARIANTS
  TypeOK
  NothingInvented
  Complete
  FatalIsStored
CHECK_DEADLOCK FALSE
