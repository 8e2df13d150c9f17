------------------------- MODULE MCDecisionPipeline -------------------------
(* Policies, lists and calls for checking DecisionPipeline and its reviews. *)
EXTENDS PolicyReview, TLC

(* The sessions differ in nothing but their names.                         *)
SessionSymmetry == Permutations(Sessions)

Open(allowed, attributes, limit) ==
  [allowed |-> allowed, denied |-> {}, attributes |-> attributes, limit |-> limit]

(* The first policy denies "mail" in front of a grant for every tool; the  *)
(* second grants it under conditions, and its identity signs its calls.    *)
MCPolicies ==
  << [signed |-> FALSE, totp |-> TRUE,
      grants |-> << [allowed |-> {}, denied |-> {"mail"}, attributes |-> {}, limit |-> 101],
                    Open({"mail", "repo"}, {}, 101) >>,
      tier |-> [mail |-> "low", repo |-> "critical"]],
     [signed |-> TRUE, totp |-> FALSE,
      grants |-> << Open({"mail"}, {"hour"}, 30), Open({"repo"}, {}, 101) >>,
      tier |-> [mail |-> "none", repo |-> "low"]] >>

(* "b" drifts from "a" and blocks, "y" from "x" does not.                  *)
MCLists == << [mail |-> "a", repo |-> "x"], [mail |-> "b", repo |-> "y"] >>
MCHarmless == {<<"x", "y">>}

Plain(tool) ==
  [tool |-> tool, nonce |-> None, attributes |-> {"hour"}, protected |-> FALSE,
   late |-> FALSE, proof |-> None, approval |-> None]

MCCalls ==
  { Plain("repo"), [Plain("mail") EXCEPT !.attributes = {}],
    [Plain("mail") EXCEPT !.nonce = "fresh", !.protected = TRUE],
    [Plain("repo") EXCEPT !.proof = "good", !.late = TRUE],
    [Plain("repo") EXCEPT !.proof = "bad", !.protected = TRUE],
    [Plain("repo") EXCEPT !.protected = TRUE, !.approval = "good"],
    [Plain("repo") EXCEPT !.protected = TRUE, !.late = TRUE, !.approval = "bad"] }
=============================================================================
