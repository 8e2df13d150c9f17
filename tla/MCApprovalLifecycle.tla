------------------------ MODULE MCApprovalLifecycle ------------------------
(* Model values for checking ApprovalLifecycle.                            *)
EXTENDS ApprovalLifecycle

CONSTANTS c1, c2, c3, r1, r2

(* Three calls that ask for the same, or one of them for something else.   *)
MCAskings ==
  { [c \in Calls |-> r1], [c \in Calls |-> IF c = c3 THEN r2 ELSE r1] }
=============================================================================
