----------------------------- MODULE RiskScoring -----------------------------
(***************************************************************************)
(* The score of services/gateway/risk_engine.py: eight factors, of which   *)
(* approvals may discount the behavioural ones, and the bands of           *)
(* threshold_outcome, the only place a score becomes an outcome.           *)
(***************************************************************************)
EXTENDS Naturals

CONSTANTS
  FreqThreshold,      \* settings.risk_freq_threshold
  DenialThreshold,    \* settings.risk_denial_threshold
  HistoryThreshold,   \* settings.risk_drift_history_threshold
  DecayStep,          \* settings.risk_decay_step
  DecayMax            \* settings.risk_decay_max

ASSUME SettingsAssumption ==
  /\ FreqThreshold \in Nat /\ DenialThreshold \in Nat
  /\ HistoryThreshold \in Nat /\ DecayStep \in Nat /\ DecayMax \in Nat

Tiers == {"none", "low", "medium", "high", "critical"}

(* TIER_CONTRIBUTION; a tool the policy does not tier has no such factor.  *)
TierContribution ==
  [none |-> 0, low |-> 10, medium |-> 20, high |-> 30, critical |-> 45]

(* RiskContext: what score reads before it calls the factors.              *)
RiskContext ==
  [tier : Tiers, protected : BOOLEAN, offHours : BOOLEAN, calls : Nat,
   inReview : BOOLEAN, denials : Nat, drifts : Nat, suspicious : BOOLEAN]

Factor(holds, contribution) == IF holds THEN contribution ELSE 0

(* The record of the tool: approving one call does not erase it.           *)
ToolRecord(ctx) ==
  Factor(ctx.drifts >= HistoryThreshold, 15) + Factor(ctx.suspicious, 20)

(* The factors that approvals never discount ...                           *)
Static(ctx) ==
  TierContribution[ctx.tier]
  + Factor(ctx.protected, 30)
  + Factor(ctx.offHours, 25)
  + ToolRecord(ctx)

(* ... and BEHAVIORAL_FACTORS, which they do.                              *)
Behavioral(ctx) ==
  Factor(ctx.calls > FreqThreshold, 20)
  + Factor(ctx.inReview, 15)
  + Factor(ctx.denials > DenialThreshold, 25)

Discounted(behavioral, offset) ==
  IF offset >= behavioral THEN 0 ELSE behavioral - offset

(* combine: floored at 0 where it discounts, clamped to 100 in the end.    *)
combine(static, behavioral, offset) ==
  LET total == static + Discounted(behavioral, offset)
  IN  IF total > 100 THEN 100 ELSE total

(* apply_decay: one approval is one step; score clamps what has piled up.  *)
apply_decay(decay) == decay + DecayStep

Score(ctx, decay) ==
  combine(Static(ctx), Behavioral(ctx), IF decay > DecayMax THEN DecayMax ELSE decay)

(* Mutant: the upper edge of each band belongs to the band below it.       *)
threshold_outcome_Edges(score) ==
  CASE score >= 90 -> "DENY_RISK"
    [] score > 70 /\ score < 90 -> "HUMAN_APPROVAL_REQUIRED"
    [] score > 40 /\ score <= 70 -> "CHALLENGE"
    [] score <= 40 -> "ALLOW"

(* threshold_outcome: <40 allow, 40-69 challenge, 70-90 approval, >90 deny.*)
threshold_outcome(score) ==
  CASE score > 90 -> "DENY_RISK"
    [] score \in 70..90 -> "HUMAN_APPROVAL_REQUIRED"
    [] score \in 40..69 -> "CHALLENGE"
    [] score < 40 -> "ALLOW"
=============================================================================
