SPECIFICATION Spec
CONSTANTS
  Tools = {"a", "b"}
  Schemas = {"base"}
  BlockingChanges <- MCBlockingChanges
  Checkers = {k1}
  Admins = {a1}
  MaxChecks = 3
  MaxApprovals = 1
PROPERTIES
  RenameBlocked
CHECK_DEADLOCK FALSE
