\* Two sessions and two calls: every end of a session, every end of a call.
SPECIFICATION FairSpec
CONSTANTS
  Sessions = {x1, x2}
  Calls = {k1, k2}
  MaxSessions = 2
  MaxInflight = 2
INVARIANTS
  QuotasExact
  CallOwned
PROPERTIES
  EveryCallEnds
  EverySessionReaped
\* Sessions and calls are used up in the end.
CHECK_DEADLOCK FALSE
