SPECIFICATION FairSpec
CONSTANTS
  Operators = {op}
  Polls = 2
  MaxRuns = 4
INVARIANTS
  Tracked
  OneInstance
PROPERTIES
  StopLeavesNone
  ScriptsEnd
CHECK_DEADLOCK FALSE
