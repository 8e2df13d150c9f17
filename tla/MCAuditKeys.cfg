\* Two rotations, a write and an export under failing files, writes that fail with or
\* without their row or write it twice, and crashes.
SPECIFICATION FairSpec
CONSTANTS
  MaxKeys = 3
  MaxSeq = 4
  MaxCrashes = 2
  Faults = {"crash", "file", "insert", "ackLost", "twice"}
INVARIANTS
  TypeOK
  KeyFollowsRotation
  RowsVerifiable
  RecoveryPossible
  ExportVerifies
PROPERTIES
  RotationReachesDisk
\* The bounds on keys, rows and crashes end every behaviour.
CHECK_DEADLOCK FALSE
