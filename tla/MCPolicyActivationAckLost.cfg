\* The audit write raises with its row committed: Redis fails under EXEC.
SPECIFICATION Spec
CONSTANTS
  Policies <- MCPolicies
  Faults = {"auditAckLost"}
  MaxOps = 1
  MaxCrashes = 0
INVARIANTS
  LastRowServed
CHECK_DEADLOCK FALSE
