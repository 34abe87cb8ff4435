SPECIFICATION Spec
CONSTANTS
  Callers = {a}
  MaxCalls = 1
  MAX_RETRIES = 3
  MaxSocket = 2
  MaxCrashes = 0
  MaxStops = 0
  Oversized <- LongFirst
  NoMsg = NoMsg
INVARIANT AckedIsLogged
CHECK_DEADLOCK FALSE
