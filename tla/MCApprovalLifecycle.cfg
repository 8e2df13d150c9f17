\* Two retries, two admins and a sweep over one approval and two connections.
SPECIFICATION FairSpec
CONSTANTS
  Calls = {c1, c2, c3}
  c1 = c1
  c2 = c2
  c3 = c3
  r1 = r1
  r2 = r2
  Requests = {r1, r2}
  Askings <- MCAskings
  Admins = {a1}
  Sweepers = {s1}
  TTL = 1
  MaxTime = 2
  PoolSize = 2
\* The requests are finitely many.
CHECK_DEADLOCK FALSE
INVARIANTS
  TypeOK
  UsedOnce
  ForwardGranted
  StatusJustified
PROPERTIES
  ApprovalSpec
  EveryRequestEnds
