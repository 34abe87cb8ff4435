SPECIFICATION FairSpec
CONSTANTS
  Callers = {a}
  MaxCalls = 2
  MAX_RETRIES = 2
  MaxSocket = 2
  MaxCrashes = 1
  MaxStops = 1
  Oversized <- Short
  NoMsg = NoMsg
INVARIANTS
  TypeOK
  AckedWasReceived
  PerThreadOrder
  BoundedCopies
PROPERTY TraceReturns
\* Stopped for good, with every call made and every datagram gone.
CHECK_DEADLOCK FALSE
