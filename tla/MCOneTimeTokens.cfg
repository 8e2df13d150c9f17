\* Copies of signed calls, step-up retries, wrong keys and calls, over all delays.
SPECIFICATION Spec
CONSTANTS
  Requests = {r1, r2}
  Mixes <- MCMixes
  Nonces = {n1}
  Challenges = {c1, c2}
  Window = 3
  Step = 2
  ChallengeTTL = 4
  FailureLimit = 1
  FailureWindow = 3
  RateLimit = 2
  RateWindow = 3
  MaxAhead = 1
  MaxDelay = 1
  MaxTime = 10
  MaxCount = 4
INVARIANTS
  NonceOnce
  ProofOnce
  BurstBounded
\* The clock stops at its bound.
CHECK_DEADLOCK FALSE
