\* A cancelled write, or a connection lost under EXEC, leaves a trusted stale pointer.
SPECIFICATION LossySpec
CONSTANTS
  Payloads = {e1, e2}
  Faults = {"cancel", "linkLoss"}
  MaxRows = 3
INVARIANTS
  ChainLinear
