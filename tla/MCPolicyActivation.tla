------------------------- MODULE MCPolicyActivation -------------------------
(* Policies and fault sets for checking PolicyActivation.                  *)
EXTENDS PolicyActivation

(* Two candidates share a version and differ in content.                   *)
MCPolicies ==
  { [version |-> 1, content |-> "a"],
    [version |-> 2, content |-> "b"],
    [version |-> 2, content |-> "c"] }
=============================================================================
