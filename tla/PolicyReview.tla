----------------------------- MODULE PolicyReview -----------------------------
(***************************************************************************)
(* What an operator reviews before a policy is activated, both read off    *)
(* the decision rows of the ledger: the replay of history against a        *)
(* candidate (policy_simulator.py) and the candidate that an observing     *)
(* gateway suggests (policy_scaffold.py).  Nothing here changes the state  *)
(* of DecisionPipeline: these are functions of it.                         *)
(***************************************************************************)
EXTENDS DecisionPipeline

-----------------------------------------------------------------------------
(* decision_explainer._OUTCOMES, the bucket a recorded event falls in.     *)
historical_bucket(row) ==
  IF row.event \in {"ALLOW", "CHALLENGE", "HUMAN_APPROVAL_REQUIRED"}
    THEN row.event ELSE "DENY"

(* _simulate_row: the call of the row with the arguments and the time of   *)
(* the row, but the hour the risk engine sees is that of the replay.       *)
(* Arguments are not validated.                                            *)
simulate_row(policy, row, late) ==
  explain_call(policy, [row.call EXCEPT !.late = late], FALSE)

(* The pairs of simulate_historical and simulate_candidate: what a row     *)
(* says, and what the candidate would say now.                             *)
Replayed(policy, rows, late) ==
  {[id |-> row.id, before |-> historical_bucket(row),
    after |-> historical_bucket([row EXCEPT !.event = simulate_row(policy, row, late)])] :
     row \in rows}

(* The counters of summarize_historical.                                   *)
summarize_historical(pairs) ==
  LET Count(before, after) ==
        Cardinality({p \in pairs : p.before # p.after /\ p.before \in before /\ p.after = after})
  IN  [would_now_deny |-> Count({"ALLOW"}, "DENY"),
       would_now_require_approval |->
         Count({"ALLOW", "CHALLENGE", "DENY"}, "HUMAN_APPROVAL_REQUIRED"),
       newly_allowed |-> Count({"DENY", "CHALLENGE"}, "ALLOW"),
       unchanged |-> Cardinality({p \in pairs : p.before = p.after})]

-----------------------------------------------------------------------------
(* Mutant: what an enforcing gateway decided counts as well.               *)
Qualifies_AnyMode(row) == row.event \in Events

(* _grant: every terminal decision of an observing gateway counts, for the *)
(* call was forwarded whatever it said.                                    *)
Qualifies(row) == row.mode = "observe" /\ row.event \in Events

(* What the loop of scaffold collects from the rows of its span, which it  *)
(* verified one after the other (AuditVerifier).                           *)
Observed(rows) == {row.call.tool : row \in {r \in rows : Qualifies(r)}}

(* _candidate_data, for one identity and one server: one grant of the      *)
(* tools that were seen, no conditions, and no tier on any tool.  How the  *)
(* identity authenticates is kept.                                         *)
scaffold(base, rows) ==
  [base EXCEPT
     !.grants = << [allowed |-> Observed(rows), denied |-> {}, attributes |-> {},
                    limit |-> 101] >>,
     !.tier = [t \in Tools |-> "none"]]

-----------------------------------------------------------------------------
(* What only a live call can find out: its nonce, its proof, its approval, *)
(* and a schema that does not fit.                                         *)
NotReplayed ==
  {"DENY_REPLAY", "DENY_STEP_UP", "DENY_APPROVAL_MISMATCH", "DENY_VALIDATION"}

Replayable(row, late) == row.event \notin NotReplayed /\ row.call.late = late

(* "It guarantees only the observed RBAC surface": whatever rows a window  *)
(* selects, replayed against the scaffold they suggest no observed call    *)
(* fails RBAC or ABAC, and no other tool is granted.                       *)
(* And the simulator does not flatter: replayed against the policy that    *)
(* recorded it, at the same hours, with nothing changed from outside, a    *)
(* row that denied or challenged is not newly allowed, although the        *)
(* counters have moved on since.                                           *)
ReviewSound ==
  /\ \A rows \in SUBSET ledger :
       Observed(rows) # {} =>
         LET candidate == scaffold(Policy, rows)
         IN  /\ \A row \in rows :
                  row.mode = "observe" =>
                    simulate_row(candidate, row, row.call.late) \notin {"DENY_RBAC", "DENY_ABAC"}
             /\ \A t \in Tools :
                  matching_grant(candidate, t) # {} =>
                    \E row \in rows : row.mode = "observe" /\ row.call.tool = t
  /\ disturbances = 0 =>
       \A late \in BOOLEAN :
         LET pairs == Replayed(Policy, {row \in ledger : Replayable(row, late)}, late)
         IN  summarize_historical(pairs).newly_allowed = 0
=============================================================================
