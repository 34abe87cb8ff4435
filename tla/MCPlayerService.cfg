SPECIFICATION Spec
CONSTANTS
  SizeT = 1000
  Sessions <- MCSessions
  Users <- Table
  NotUtf8 = {"latin1", "/latin1"}
  Quoted = {"o'brien"}
  Escapes = FALSE
INVARIANTS
  WholeIsParsed
  PartIsRefused
  AnswerIsEarned
CHECK_DEADLOCK FALSE
