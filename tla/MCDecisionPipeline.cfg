\* Two sessions, two tools, one fault or outside change.
SPECIFICATION Spec
CONSTANTS
  FreqThreshold = 1
  DenialThreshold = 0
  HistoryThreshold = 1
  DecayStep = 5
  DecayMax = 10
  Sessions = {s1, s2}
  Tools = {"mail", "repo"}
  Policies <- MCPolicies
  Lists <- MCLists
  Harmless <- MCHarmless
  Suspicious = {"a", "y"}
  Calls <- MCCalls
  Fits = {"a", "b", "x"}
  MaxRequests = 2
  MaxDisturbances = 1
SYMMETRY SessionSymmetry
INVARIANTS
  ReviewSound
  DecisionRecorded
  ForwardJustified
  ExplainAgrees
\* The bounds on requests and disturbances end every behaviour.
CHECK_DEADLOCK FALSE
