SPECIFICATION Spec
CONSTANTS
  Tools = {"a", "b"}
  Schemas = {"base", "wide", "pulled"}
  BlockingChanges <- MCBlockingChanges
  Checkers = {k1, k2}
  Admins = {a1, a2}
  MaxChecks = 3
  MaxApprovals = 2
SYMMETRY MCSymmetry
INVARIANTS
  TypeOK
  BlocksAudited
PROPERTIES
  ApprovalAudited
  ServedListJudged
\* The bounds on checks and approvals end every behaviour.
CHECK_DEADLOCK FALSE
