\* Every fault that can fork the chain, a daemon and an operator's pass next to the writer.
SPECIFICATION FairVerifierSpec
CONSTANTS
  Payloads = {e1}
  Faults = {"linkLoss", "ackLost", "cancel"}
  MaxRows = 3
  Verifiers = {daemon, once}
  Daemons = {daemon}
  Killable = {once}
INVARIANTS
  RootedInv
  CheckpointSound
  NoFalseAlarm
PROPERTIES
  BreakReported
  EveryRowVerified
