\* Every step may fail, with or without its effect, and the process may crash.
SPECIFICATION RestartSpec
CONSTANTS
  Policies <- MCPolicies
  Faults = {"stageError", "recordError", "auditError", "auditAckLost", "auditTwice",
            "handoffError", "promoteError", "evictError", "crash"}
  MaxOps = 3
  MaxCrashes = 1
INVARIANTS
  TypeOK
  TrafficConverged
  RecoveryPossible
  EngineDurable
  RevisionsUnique
PROPERTIES
  HandoffReachesDisk
\* The bounds on mutations and crashes end every behaviour.
CHECK_DEADLOCK FALSE
