\* Every fault the writer handles: the chain stays linear.
SPECIFICATION Spec
CONSTANTS
  Payloads = {e1, e2}
  Faults = {"evict", "redisError", "dbError", "crash"}
  MaxRows = 4
INVARIANTS
  WriterInv
PROPERTIES
  LedgerSpec
