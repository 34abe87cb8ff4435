SPECIFICATION FairSpec
CONSTANTS
  Threads = {a, b}
  Rows = {r1, r2, r3}
  BACKEND = "sqlite3"
  MaxCrashes = 1
INVARIANTS
  TypeOK
  Atomic
  OneTransaction
  PlainDurable
  ReadCommitted
PROPERTY TransactionEnds
