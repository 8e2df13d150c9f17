----------------------- MODULE DecisionPipelineProofs -----------------------
(***************************************************************************)
(* What an enforcing gateway forwards was justified, and what any gateway  *)
(* does was recorded, for all policies, lists, sessions, calls and bounds. *)
(* So did the dry run predict it, and what an operator reads off its rows  *)
(* is sound.                                                               *)
(* First, what the score that the pipeline asks for promises, for every    *)
(* setting of its thresholds and of the discount.                          *)
(***************************************************************************)
EXTENDS PolicyReview, FiniteSetTheorems, TLAPS

Outcomes == {"ALLOW", "CHALLENGE", "HUMAN_APPROVAL_REQUIRED", "DENY_RISK"}

(* The eight factors are natural numbers.                                  *)
LEMMA FactorTypes ==
  ASSUME NEW ctx \in RiskContext  PROVE Static(ctx) \in Nat /\ Behavioral(ctx) \in Nat
  <1>1. \A p : Factor(p, 15) \in Nat /\ Factor(p, 20) \in Nat
            /\ Factor(p, 25) \in Nat /\ Factor(p, 30) \in Nat
    BY DEF Factor
  <1>2. ToolRecord(ctx) \in Nat
    BY <1>1 DEF ToolRecord
  <1>3. TierContribution[ctx.tier] \in Nat
    BY DEF TierContribution, RiskContext, Tiers
  <1> QED  BY <1>1, <1>2, <1>3 DEF Static, Behavioral

(* combine lies between the static factors and all of them, within 0..100. *)
LEMMA CombineBounds ==
  ASSUME NEW static \in Nat, NEW behavioral \in Nat, NEW offset \in Nat
  PROVE  /\ combine(static, behavioral, offset) \in 0..100
         /\ static <= 100 => combine(static, behavioral, offset) >= static
         /\ static > 100 => combine(static, behavioral, offset) = 100
         /\ combine(static, behavioral, offset) <= static + behavioral
         /\ static + behavioral <= 100 =>
              combine(static, behavioral, offset) + offset >= static + behavioral
  BY DEF combine, Discounted

(* RiskEngine.score: however many approvals have piled up, the score is in *)
(* 0..100, never below the factors that approvals do not discount, and at  *)
(* most DecayMax below what it would be without them.                      *)
THEOREM ScoreBounds ==
  ASSUME NEW ctx \in RiskContext, NEW approvals \in Nat
  PROVE  /\ Score(ctx, approvals) \in 0..100
         /\ Static(ctx) <= 100 => Score(ctx, approvals) >= Static(ctx)
         /\ Static(ctx) > 100 => Score(ctx, approvals) = 100
         /\ Static(ctx) + Behavioral(ctx) <= 100 =>
              Score(ctx, approvals) + DecayMax >= Static(ctx) + Behavioral(ctx)
  <1> DEFINE offset == IF approvals > DecayMax THEN DecayMax ELSE approvals
  <1>1. offset \in Nat /\ offset <= DecayMax /\ DecayMax \in Nat
    BY SettingsAssumption
  <1>2. Score(ctx, approvals) = combine(Static(ctx), Behavioral(ctx), offset)
    BY DEF Score
  <1> HIDE DEF offset
  <1>3. Static(ctx) \in Nat /\ Behavioral(ctx) \in Nat
    BY FactorTypes
  <1> DEFINE total == combine(Static(ctx), Behavioral(ctx), offset)
  <1>4. /\ total \in 0..100
        /\ Static(ctx) <= 100 => total >= Static(ctx)
        /\ Static(ctx) > 100 => total = 100
        /\ Static(ctx) + Behavioral(ctx) <= 100 =>
             total + offset >= Static(ctx) + Behavioral(ctx)
    BY <1>1, <1>3, CombineBounds
  <1>5. Static(ctx) + Behavioral(ctx) <= 100 =>
          total + DecayMax >= Static(ctx) + Behavioral(ctx)
    <2> HIDE DEF total
    <2> QED  BY <1>1, <1>3, <1>4
  <1> QED  BY <1>2, <1>4, <1>5

(* threshold_outcome: every score of 0..100 has one outcome, by the bands  *)
(* of the documentation.                                                   *)
LEMMA Bands ==
  ASSUME NEW score \in 0..100
  PROVE  /\ threshold_outcome(score) \in Outcomes
         /\ threshold_outcome(score) = "ALLOW" <=> score < 40
         /\ threshold_outcome(score) = "CHALLENGE" <=> score \in 40..69
         /\ threshold_outcome(score) = "HUMAN_APPROVAL_REQUIRED" <=> score \in 70..90
         /\ threshold_outcome(score) = "DENY_RISK" <=> score > 90
  <1>1. CASE score < 40
    BY <1>1 DEF threshold_outcome, Outcomes
  <1>2. CASE score \in 40..69
    BY <1>2 DEF threshold_outcome, Outcomes
  <1>3. CASE score \in 70..90
    BY <1>3 DEF threshold_outcome, Outcomes
  <1>4. CASE score > 90
    BY <1>4 DEF threshold_outcome, Outcomes
  <1> QED  BY <1>1, <1>2, <1>3, <1>4

(* No number of approvals lets a call that is dangerous in itself through: *)
(* past 90 by its static factors it is denied, from 70 on it takes a human *)
(* and from 40 on at least a proof, whatever its identity was granted.     *)
THEOREM DiscountNeverClears ==
  ASSUME NEW ctx \in RiskContext, NEW approvals \in Nat
  PROVE  LET outcome == threshold_outcome(Score(ctx, approvals))
         IN  /\ Static(ctx) > 90 => outcome = "DENY_RISK"
             /\ Static(ctx) >= 70 => outcome \in {"HUMAN_APPROVAL_REQUIRED", "DENY_RISK"}
             /\ Static(ctx) >= 40 => outcome # "ALLOW"
  <1> DEFINE score == Score(ctx, approvals)
  <1>1. /\ score \in 0..100 /\ Static(ctx) \in Nat
        /\ Static(ctx) <= 100 => score >= Static(ctx)
        /\ Static(ctx) > 100 => score = 100
    BY ScoreBounds, FactorTypes
  <1> HIDE DEF score
  <1>2. /\ Static(ctx) > 90 => score > 90
        /\ Static(ctx) >= 70 => score \in 70..90 \/ score > 90
        /\ Static(ctx) >= 40 => ~(score < 40)
    BY <1>1
  <1>3. /\ Static(ctx) > 90 => threshold_outcome(score) = "DENY_RISK"
        /\ Static(ctx) >= 70 =>
             threshold_outcome(score) \in {"HUMAN_APPROVAL_REQUIRED", "DENY_RISK"}
        /\ Static(ctx) >= 40 => threshold_outcome(score) # "ALLOW"
    BY <1>1, <1>2, Bands
  <1> QED  BY <1>3 DEF score

-----------------------------------------------------------------------------
(* The fields of a request under way.                                      *)
ReqFields ==
  {"id", "call", "terminal", "grant", "verified", "list", "from", "open", "foreseen",
   "alone", "since"}

(* The policies in force since the call arrived.                           *)
InForce(r, e) == {Policies[v] : v \in r.from..e}

Granted(r, e) ==
  \E p \in InForce(r, e) : \E g \in Range(p.grants) :
    r.call.tool \in g.allowed \ g.denied /\ ~Violates({g}, r.call)

Covered(r, e) ==
  \/ r.call.approval = "good"
  \/ \E p \in InForce(r, e) :
       Alone(p, r.call) < 40 \/ (Alone(p, r.call) < 70 /\ r.call.proof = "good")

(* What is known of a call at a stage, and of one that was allowed.        *)
AtSchema == {"schema", "fetch", "judge", "put"}
AtScore == AtSchema \cup {"approval", "score"}
AtProof == AtScore \cup {"proof"}
AtDrift == AtProof \cup {"drift"}
Undone == AtDrift \cup {"start", "replay"}
Past(stages, r, a) == a \in stages \/ r.terminal.event = "ALLOW"

Sound(r, a, e, b) ==
  /\ DOMAIN r = ReqFields /\ r.call \in Request /\ r.from \in 1..e
  /\ a \in Undone => r.terminal = Undecided
  /\ a \in {"forward"} => r.terminal.event = "ALLOW"
  /\ Past(AtDrift, r, a) => Granted(r, e) /\ r.call.nonce \in {None, "fresh"}
  /\ r.call.tool \notin b => r.open = TRUE
  /\ Past(AtProof, r, a) => r.open = TRUE
  /\ r.verified = TRUE => r.call.proof = "good"
  /\ Past(AtScore, r, a) => r.call.proof # "bad"
  /\ a = "score" => r.call.approval = None
  /\ Past(AtSchema, r, a) => r.call.approval # "bad" /\ Covered(r, e)
  /\ r.terminal.event = "ALLOW" => Validates(r.call, r.list)

Settings == mode \in {"enforce", "observe"} /\ engine \in DOMAIN Policies
Counters ==
  /\ frequency \in [Tools -> Nat] /\ denials \in Nat
  /\ drifts \in [Tools -> Nat] /\ decay \in [Tools -> Nat]
Pumps == at \in [Sessions -> Stages] /\ req = [s \in Sessions |-> req[s]]

CallsSound ==
  mode = "enforce" =>
    \A s \in Sessions : at[s] # "idle" => Sound(req[s], at[s], engine, blocked)

PipelineInv == Settings /\ Counters /\ Pumps /\ CallsSound

-----------------------------------------------------------------------------
(* The engine has a policy.                                                *)
LEMMA Engines ==
  /\ DOMAIN Policies = 1..Len(Policies) /\ Len(Policies) \in Nat \ {0}
  /\ \A v \in DOMAIN Policies : Policies[v] \in IdentityPolicy
  BY DataAssumption

(* A newer engine only adds to the policies that were in force.            *)
LEMMA SoundLater ==
  ASSUME NEW r, NEW a, NEW b, NEW e \in Nat, NEW f \in Nat, e <= f, Sound(r, a, e, b)
  PROVE  Sound(r, a, f, b)
  <1>1. InForce(r, e) \subseteq InForce(r, f)
    BY DEF InForce, Sound
  <1>2. (Granted(r, e) => Granted(r, f)) /\ (Covered(r, e) => Covered(r, f))
    BY <1>1 DEF Granted, Covered
  <1> QED  BY <1>2 DEF Sound

(* A call remembers that its tool was unblocked.                           *)
LEMMA SoundReopened ==
  ASSUME NEW r, NEW a, NEW b, NEW c, NEW e, Sound(r, a, e, b)
  PROVE  /\ Sound([r EXCEPT !.open = TRUE], a, e, c)
         /\ r.call.tool \in c => Sound(r, a, e, c)
  <1> DEFINE q == [r EXCEPT !.open = TRUE]
  <1>1. /\ DOMAIN q = ReqFields /\ q.open = TRUE
        /\ q.call = r.call /\ q.from = r.from /\ q.terminal = r.terminal
        /\ q.verified = r.verified /\ q.list = r.list
    BY DEF Sound, ReqFields
  <1> HIDE DEF q
  <1>2. (Granted(r, e) => Granted(q, e)) /\ (Covered(r, e) => Covered(q, e))
    BY <1>1 DEF Granted, Covered, InForce
  <1>3. Sound(q, a, e, c)
    BY <1>1, <1>2 DEF Sound, Past
  <1>4. r.call.tool \in c => Sound(r, a, e, c)
    BY DEF Sound
  <1> QED  BY <1>3, <1>4 DEF q


(* What retaining an objection leaves of a request.                        *)
Same(r, q) ==
  /\ DOMAIN q = ReqFields /\ q.call = r.call /\ q.from = r.from
  /\ q.open = r.open /\ q.verified = r.verified /\ q.list = r.list

(* The pipeline goes on exactly if nothing objects, now or before.         *)
LEMMA Retained ==
  ASSUME NEW r, DOMAIN r = ReqFields, NEW event, NEW objects \in BOOLEAN,
         objects => event \notin {None, "ALLOW"}
  PROVE  LET q == RetainIf(objects, r, event)
         IN  /\ Same(r, q)
             /\ q.terminal = Undecided <=> r.terminal = Undecided /\ ~objects
             /\ r.terminal.event # "ALLOW" => q.terminal.event # "ALLOW"
  <1>1. CASE objects /\ r.terminal = Undecided
    <2> DEFINE q == [r EXCEPT !.terminal = [event |-> event, version |-> engine]]
    <2>1. RetainIf(objects, r, event) = q
      BY <1>1 DEF RetainIf, Retain
    <2>2. Same(r, q) /\ q.terminal = [event |-> event, version |-> engine]
      BY DEF Same, ReqFields
    <2>3. q.terminal.event = event /\ event \notin {None, "ALLOW"} /\ Undecided.event = None
      BY <1>1, <2>2 DEF Undecided
    <2> QED  BY <1>1, <2>1, <2>2, <2>3
  <1>2. CASE ~(objects /\ r.terminal = Undecided)
    BY <1>2 DEF RetainIf, Retain, Same
  <1> QED  BY <1>1, <1>2

(* A call that is not allowed is refused without more ado.                 *)
LEMMA SoundRefused ==
  ASSUME NEW r, NEW q, NEW a, NEW e, NEW b, Sound(r, a, e, b), Same(r, q),
         q.terminal.event # "ALLOW"
  PROVE  Sound(q, "emit", e, b)
  BY DEF Sound, Same, Past, Undone, AtDrift, AtProof, AtScore, AtSchema

(* What holds of a call under way holds of its copy at the same stage.     *)
LEMMA SameFacts ==
  ASSUME NEW r, NEW q, NEW e, Same(r, q)
  PROVE  (Granted(r, e) => Granted(q, e)) /\ (Covered(r, e) => Covered(q, e))
  BY DEF Same, Granted, Covered, InForce

(* A step of the client pump of one session, on its request alone.         *)
LEMMA Moves ==
  ASSUME PipelineInv, NEW s \in Sessions, NEW q, NEW stage \in Stages,
         UNCHANGED <<mode, engine, blocked>>,
         req' = [req EXCEPT ![s] = q], at' = [at EXCEPT ![s] = stage],
         mode = "enforce" => stage = "idle" \/ Sound(q, stage, engine, blocked)
  PROVE  Pumps' /\ CallsSound'
  <1>1. Pumps'
    BY DEF PipelineInv, Pumps
  <1>2. ASSUME mode' = "enforce", NEW t \in Sessions, at'[t] # "idle"
        PROVE  Sound(req'[t], at'[t], engine', blocked')
    <2>1. CASE t = s
      BY <1>2, <2>1 DEF PipelineInv, Pumps
    <2>2. CASE t # s
      BY <1>2, <2>2 DEF PipelineInv, Pumps, CallsSound
    <2> QED  BY <2>1, <2>2
  <1>3. CallsSound'
    BY <1>2 DEF CallsSound
  <1> QED  BY <1>1, <1>3

(* Goto: a refused call goes to its end, another one to the next stage.    *)
LEMMA Goes ==
  ASSUME PipelineInv, NEW s \in Sessions, NEW q, NEW stage \in Stages, Goto(s, q, stage),
         UNCHANGED <<mode, engine, blocked>>,
         ASSUME mode = "enforce"
         PROVE  /\ q.terminal # Undecided => Sound(q, "emit", engine, blocked)
                /\ q.terminal = Undecided => Sound(q, stage, engine, blocked)
  PROVE  Pumps' /\ CallsSound'
  <1> DEFINE next == IF mode = "enforce" /\ q.terminal # Undecided THEN "emit" ELSE stage
  <1>1. next \in Stages /\ req' = [req EXCEPT ![s] = q] /\ at' = [at EXCEPT ![s] = next]
    BY DEF Goto, Stages
  <1>2. mode = "enforce" => Sound(q, next, engine, blocked)
    OBVIOUS
  <1> HIDE DEF next
  <1> QED  BY <1>1, <1>2, Moves


(* What is known of the call of an enforcing gateway's session.            *)
LEMMA UnderWay ==
  ASSUME PipelineInv, mode = "enforce", NEW s \in Sessions, at[s] # "idle"
  PROVE  /\ Sound(req[s], at[s], engine, blocked) /\ DOMAIN req[s] = ReqFields
         /\ req[s].call \in Request
         /\ Policy \in IdentityPolicy /\ Policy \in InForce(req[s], engine)
  <1>1. Sound(req[s], at[s], engine, blocked)
    BY DEF PipelineInv, CallsSound
  <1>2. engine \in 1..Len(Policies) /\ Policy \in IdentityPolicy
    BY Engines DEF PipelineInv, Settings, Policy
  <1>3. req[s].from \in 1..engine /\ engine \in Nat
    BY <1>1, <1>2, Engines DEF Sound
  <1>4. Policy \in InForce(req[s], engine)
    BY <1>3 DEF InForce, Policy
  <1> QED  BY <1>1, <1>2, <1>4 DEF Sound

-----------------------------------------------------------------------------
(* RBAC and the early conditions leave only calls that a grant covers.     *)
LEMMA AuthorizeSound ==
  ASSUME PipelineInv, NEW s \in Sessions, NEW r, Authorize(s, r),
         UNCHANGED <<mode, engine, blocked>>,
         mode = "enforce" =>
           /\ at[s] \in {"start", "replay"} /\ Same(req[s], r) /\ r.terminal = Undecided
           /\ r.call.nonce \in {None, "fresh"}
  PROVE  Pumps' /\ CallsSound'
  <1> DEFINE grant == matching_grant(Policy, r.call.tool)
             r1 == RetainIf(grant = {}, r, "DENY_RBAC")
             r2 == RetainIf(Violates(grant, r.call), r1, "DENY_ABAC")
             q == [r2 EXCEPT !.grant = grant]
  <1>1. Goto(s, q, "drift") /\ "drift" \in Stages
    BY DEF Authorize, Stages
  <1>2. ASSUME mode = "enforce"
        PROVE  /\ q.terminal # Undecided => Sound(q, "emit", engine, blocked)
               /\ q.terminal = Undecided => Sound(q, "drift", engine, blocked)
    <2>1. /\ at[s] \in {"start", "replay"} /\ Same(req[s], r) /\ r.terminal = Undecided
          /\ r.call.nonce \in {None, "fresh"}
      BY <1>2
    <2>2. /\ Sound(req[s], at[s], engine, blocked)
          /\ r.call \in Request
          /\ Policy \in IdentityPolicy /\ Policy \in InForce(req[s], engine)
      BY <1>2, <2>1, UnderWay DEF Same
    <2>3. r.terminal.event # "ALLOW" /\ DOMAIN r = ReqFields
      BY <2>1 DEF Undecided, None, Same
    <2>4. /\ Same(r, r1) /\ r1.terminal.event # "ALLOW"
          /\ r1.terminal = Undecided <=> grant # {}
      <3> DEFINE objects == grant = {}
      <3>1. objects \in BOOLEAN
        OBVIOUS
      <3> HIDE DEF objects
      <3>2. LET p == RetainIf(objects, r, "DENY_RBAC")
            IN  /\ Same(r, p) /\ p.terminal.event # "ALLOW"
                /\ p.terminal = Undecided <=> ~objects
        BY <2>1, <2>3, <3>1, Retained DEF None
      <3> HIDE DEF grant
      <3> QED  BY <3>2 DEF objects
    <2>5. Violates(grant, r.call) \in BOOLEAN
      BY DEF Violates
    <2>6. /\ Same(r1, r2) /\ r2.terminal.event # "ALLOW"
          /\ r2.terminal = Undecided <=> grant # {} /\ ~Violates(grant, r.call)
      <3> DEFINE objects == Violates(grant, r.call)
      <3> HIDE DEF r1, grant
      <3> QED  BY <2>4, <2>5, Retained DEF None, Same
    <2>7. Same(r2, q) /\ q.terminal = r2.terminal
      <3> HIDE DEF r2, grant
      <3> QED  BY <2>6 DEF Same, ReqFields
    <2> HIDE DEF r1, r2, q
    <2>8. /\ DOMAIN q = ReqFields /\ q.call = r.call /\ q.call = req[s].call
          /\ q.from = req[s].from /\ q.open = req[s].open /\ q.verified = req[s].verified
      BY <2>1, <2>4, <2>6, <2>7 DEF Same
    <2>9. q.terminal # Undecided => Sound(q, "emit", engine, blocked)
      BY <2>2, <2>6, <2>7, <2>8
         DEF Sound, Past, Undone, AtDrift, AtProof, AtScore, AtSchema
    <2>10. ASSUME q.terminal = Undecided
           PROVE  Granted(q, engine)
      <3>1. PICK g \in grant : ~Violates({g}, r.call)
        BY <2>6, <2>7, <2>10 DEF Violates
      <3>2. g \in Range(Policy.grants) /\ r.call.tool \in g.allowed \ g.denied
        BY <3>1 DEF matching_grant
      <3>3. Policy \in InForce(q, engine)
        BY <2>2, <2>8 DEF InForce
      <3> QED  BY <3>1, <3>2, <3>3, <2>8 DEF Granted
    <2>11. q.terminal = Undecided => Sound(q, "drift", engine, blocked)
      BY <2>1, <2>2, <2>8, <2>10
         DEF Sound, Past, Undone, AtDrift, AtProof, AtScore, AtSchema, Undecided, None
    <2> QED  BY <2>9, <2>11
  <1> HIDE DEF q
  <1> QED  BY <1>1, <1>2, Goes

LEMMA StartSound ==
  ASSUME PipelineInv, NEW s \in Sessions, Start(s)
  PROVE  Pumps' /\ CallsSound'
  <1>1. at[s] = "start" /\ UNCHANGED <<mode, engine, blocked>>
    BY DEF Start, ClientPump, shared
  <1>2. mode = "enforce" =>
          /\ Sound(req[s], "start", engine, blocked) /\ DOMAIN req[s] = ReqFields
          /\ req[s].terminal = Undecided
    BY <1>1, UnderWay DEF Sound, Undone
  <1>3. CASE Policy.signed \/ req[s].call.nonce # None
    <2>1. Goto(s, req[s], "replay") /\ "replay" \in Stages
      BY <1>3 DEF Start, Stages
    <2>2. mode = "enforce" => Sound(req[s], "replay", engine, blocked)
      BY <1>2 DEF Sound, Past, Undone, AtDrift, AtProof, AtScore, AtSchema
    <2> QED  BY <1>1, <1>2, <2>1, <2>2, Goes
  <1>4. CASE ~(Policy.signed \/ req[s].call.nonce # None)
    <2>1. Authorize(s, req[s])
      BY <1>4 DEF Start
    <2>2. mode = "enforce" => Same(req[s], req[s])
      BY <1>2 DEF Same
    <2> QED  BY <1>1, <1>2, <1>4, <2>1, <2>2, AuthorizeSound
  <1> QED  BY <1>3, <1>4

LEMMA ReplaySound ==
  ASSUME PipelineInv, NEW s \in Sessions, Replay(s)
  PROVE  Pumps' /\ CallsSound'
  <1>1. at[s] = "replay" /\ UNCHANGED <<mode, engine, blocked>>
    BY DEF Replay, ClientPump, shared
  <1>2. PICK failed \in BOOLEAN :
          LET r == RetainIf(failed \/ req[s].call.nonce # "fresh", req[s], "DENY_REPLAY")
          IN  IF mode = "enforce" /\ r.terminal # Undecided
                THEN Goto(s, r, "emit") ELSE Authorize(s, r)
    BY DEF Replay
  <1> DEFINE objects == failed \/ req[s].call.nonce # "fresh"
             q == RetainIf(objects, req[s], "DENY_REPLAY")
  <1> HIDE DEF objects
  <1>3. ASSUME mode = "enforce"
        PROVE  /\ Same(req[s], q) /\ q.terminal.event # "ALLOW"
               /\ q.terminal # Undecided => Sound(q, "emit", engine, blocked)
               /\ q.terminal = Undecided => req[s].call.nonce = "fresh"
    <2>1. /\ Sound(req[s], "replay", engine, blocked) /\ DOMAIN req[s] = ReqFields
          /\ req[s].terminal = Undecided
      BY <1>1, <1>3, UnderWay DEF Sound, Undone
    <2>2. req[s].terminal.event # "ALLOW" /\ objects \in BOOLEAN
      BY <2>1 DEF None, Undecided, objects
    <2>3. /\ Same(req[s], q) /\ q.terminal.event # "ALLOW"
          /\ q.terminal = Undecided => ~objects
      BY <2>1, <2>2, Retained DEF None
    <2> HIDE DEF q
    <2> QED  BY <2>1, <2>3, SoundRefused DEF objects
  <1>4. CASE mode = "enforce" /\ q.terminal # Undecided
    <2>1. Goto(s, q, "emit") /\ "emit" \in Stages
      BY <1>2, <1>4 DEF Stages, objects
    <2> HIDE DEF q
    <2> QED  BY <1>1, <1>3, <1>4, <2>1, Goes
  <1>5. CASE ~(mode = "enforce" /\ q.terminal # Undecided)
    <2>1. Authorize(s, q)
      BY <1>2, <1>5 DEF objects
    <2>2. mode = "enforce" =>
            /\ at[s] \in {"start", "replay"} /\ Same(req[s], q) /\ q.terminal = Undecided
            /\ q.call.nonce \in {None, "fresh"}
      BY <1>1, <1>3, <1>5 DEF Same
    <2> HIDE DEF q
    <2> QED  BY <1>1, <2>1, <2>2, AuthorizeSound
  <1> QED  BY <1>4, <1>5


(* A stage that may object.                                                *)
LEMMA Objected ==
  ASSUME PipelineInv, NEW s \in Sessions, at[s] \in Undone,
         UNCHANGED <<mode, engine, blocked>>,
         NEW objects \in BOOLEAN, NEW event, event \notin {None, "ALLOW"}, NEW stage \in Stages,
         Goto(s, RetainIf(objects, req[s], event), stage),
         mode = "enforce" /\ ~objects => Sound(req[s], stage, engine, blocked)
  PROVE  Pumps' /\ CallsSound'
  <1> DEFINE q == RetainIf(objects, req[s], event)
  <1>1. ASSUME mode = "enforce"
        PROVE  /\ q.terminal # Undecided => Sound(q, "emit", engine, blocked)
               /\ q.terminal = Undecided => Sound(q, stage, engine, blocked)
    <2>1. /\ Sound(req[s], at[s], engine, blocked) /\ DOMAIN req[s] = ReqFields
          /\ req[s].terminal = Undecided
      BY <1>1, UnderWay DEF Sound, Undone, AtDrift, AtProof, AtScore, AtSchema
    <2>2. req[s].terminal.event # "ALLOW"
      BY <2>1 DEF None, Undecided
    <2>3. /\ Same(req[s], q) /\ q.terminal.event # "ALLOW"
          /\ q.terminal = Undecided => ~objects
      BY <2>1, <2>2, Retained
    <2>4. ~objects => q = req[s]
      BY DEF RetainIf
    <2> HIDE DEF q
    <2> QED  BY <1>1, <2>1, <2>3, <2>4, SoundRefused
  <1>2. Goto(s, q, stage)
    OBVIOUS
  <1> HIDE DEF q
  <1> QED  BY <1>1, <1>2, Goes

LEMMA DriftSound ==
  ASSUME PipelineInv, NEW s \in Sessions, Drift(s)
  PROVE  Pumps' /\ CallsSound'
  <1> DEFINE stage == IF mode = "enforce" /\ req[s].call.proof # None
                        THEN "proof" ELSE Redemption(req[s].call)
  <1>1. at[s] = "drift" /\ UNCHANGED <<mode, engine, blocked>>
    BY DEF Drift, ClientPump, shared
  <1>2. PICK failed \in BOOLEAN :
          Goto(s, RetainIf(failed \/ req[s].call.tool \in blocked, req[s], "DENY_DRIFT"), stage)
    BY DEF Drift
  <1>3. stage \in Stages
    BY DEF Stages, Redemption
  <1> DEFINE objects == failed \/ req[s].call.tool \in blocked
  <1>4. objects \in BOOLEAN
    OBVIOUS
  <1>5. ASSUME mode = "enforce", ~objects
        PROVE  Sound(req[s], stage, engine, blocked)
    <2>1. Sound(req[s], "drift", engine, blocked) /\ req[s].call \in Request
      BY <1>1, <1>5, UnderWay
    <2>2. req[s].open = TRUE
      BY <1>5, <2>1 DEF Sound
    <2>3. CASE req[s].call.proof # None
      BY <1>5, <2>1, <2>2, <2>3 DEF Sound, Past, Undone, AtDrift, AtProof, AtScore, AtSchema
    <2>4. CASE req[s].call.proof = None
      BY <1>5, <2>1, <2>2, <2>4
         DEF Sound, Past, Undone, AtDrift, AtProof, AtScore, AtSchema, Redemption, None
    <2> QED  BY <2>3, <2>4
  <1>6. Goto(s, RetainIf(objects, req[s], "DENY_DRIFT"), stage)
    BY <1>2
  <1>7. at[s] \in Undone /\ "DENY_DRIFT" \notin {None, "ALLOW"}
    BY <1>1 DEF Undone, AtDrift, None
  <1> HIDE DEF stage, objects
  <1> QED  BY <1>1, <1>3, <1>4, <1>5, <1>6, <1>7, Objected

LEMMA ApprovalSound ==
  ASSUME PipelineInv, NEW s \in Sessions, Approval(s)
  PROVE  Pumps' /\ CallsSound'
  <1>1. at[s] = "approval" /\ UNCHANGED <<mode, engine, blocked>>
    BY DEF Approval, ClientPump, shared
  <1>2. PICK failed \in BOOLEAN :
          Goto(s, RetainIf(failed \/ req[s].call.approval # "good", req[s],
                           "DENY_APPROVAL_MISMATCH"), "schema")
    BY DEF Approval
  <1> DEFINE objects == failed \/ req[s].call.approval # "good"
  <1>3. objects \in BOOLEAN
    OBVIOUS
  <1>4. ASSUME mode = "enforce", ~objects
        PROVE  Sound(req[s], "schema", engine, blocked)
    <2>1. Sound(req[s], "approval", engine, blocked) /\ req[s].call.approval = "good"
      BY <1>1, <1>4, UnderWay
    <2> QED  BY <2>1 DEF Sound, Past, Undone, AtDrift, AtProof, AtScore, AtSchema, Covered
  <1>5. Goto(s, RetainIf(objects, req[s], "DENY_APPROVAL_MISMATCH"), "schema")
    BY <1>2
  <1>6. /\ at[s] \in Undone /\ "DENY_APPROVAL_MISMATCH" \notin {None, "ALLOW"}
        /\ "schema" \in Stages
    BY <1>1 DEF Undone, AtDrift, AtProof, AtScore, None, Stages
  <1> HIDE DEF objects
  <1> QED  BY <1>1, <1>3, <1>4, <1>5, <1>6, Objected

(* A proof that is redeemed is good, and a flag of the call from then on.  *)
LEMMA ProofSound ==
  ASSUME PipelineInv, NEW s \in Sessions, Proof(s)
  PROVE  Pumps' /\ CallsSound'
  <1>1. at[s] = "proof" /\ UNCHANGED <<mode, engine, blocked>>
    BY DEF Proof, ClientPump, shared
  <1> DEFINE q == [req[s] EXCEPT !.verified = TRUE]
             stage == Redemption(req[s].call)
  <1>2. PICK failed \in BOOLEAN :
          IF failed \/ req[s].call.proof # "good"
            THEN Goto(s, Retain(req[s], "DENY_STEP_UP"), "emit") ELSE Goto(s, q, stage)
    BY DEF Proof
  <1>3. stage \in Stages /\ "emit" \in Stages
    BY DEF Redemption, Stages
  <1>4. mode = "enforce" => Sound(req[s], "proof", engine, blocked) /\ DOMAIN req[s] = ReqFields
    BY <1>1, UnderWay
  <1>5. CASE failed \/ req[s].call.proof # "good"
    <2>1. Goto(s, RetainIf(TRUE, req[s], "DENY_STEP_UP"), "emit")
      BY <1>2, <1>5 DEF RetainIf
    <2>2. at[s] \in Undone /\ "DENY_STEP_UP" \notin {None, "ALLOW"}
      BY <1>1 DEF Undone, AtDrift, AtProof, None
    <2> QED  BY <1>1, <1>3, <2>1, <2>2, Objected
  <1>6. CASE ~(failed \/ req[s].call.proof # "good")
    <2>1. Goto(s, q, stage)
      BY <1>2, <1>6
    <2>2. ASSUME mode = "enforce"
          PROVE  q.terminal = Undecided /\ Sound(q, stage, engine, blocked)
      <3>1. Sound(req[s], "proof", engine, blocked) /\ req[s].call.proof = "good"
        BY <1>4, <1>6, <2>2
      <3>2. /\ DOMAIN q = ReqFields /\ q.verified = TRUE
            /\ q.call = req[s].call /\ q.from = req[s].from /\ q.terminal = req[s].terminal
            /\ q.open = req[s].open /\ q.list = req[s].list
        BY <1>4, <2>2 DEF ReqFields
      <3> HIDE DEF q
      <3>3. Granted(req[s], engine) => Granted(q, engine)
        BY <3>2 DEF Granted, InForce
      <3> QED  BY <2>2, <3>1, <3>2, <3>3
                  DEF Sound, Past, Undone, AtDrift, AtProof, AtScore, AtSchema, Redemption,
                      Undecided, None
    <2> HIDE DEF q, stage
    <2> QED  BY <1>1, <1>3, <2>1, <2>2, Goes
  <1> QED  BY <1>5, <1>6


(* The record of a tool only adds to what a call risks in itself.          *)
LEMMA StaticCovers ==
  ASSUME NEW p \in IdentityPolicy, NEW c \in Request, NEW n \in Nat, Counters
  PROVE  Alone(p, c) \in Nat /\ Static(Context(p, c, n)) >= Alone(p, c)
  <1> DEFINE ctx == Context(p, c, n)
             own == TierContribution[p.tier[c.tool]] + Factor(c.protected, 30)
                    + Factor(c.late, 25)
             before == Factor(0 >= HistoryThreshold, 15)
  <1>1. p.tier[c.tool] \in Tiers
    BY DEF IdentityPolicy, Request
  <1>2. own \in Nat
    BY <1>1 DEF TierContribution, Tiers, Factor
  <1>3. Static(ctx) = own + ToolRecord(ctx)
    BY DEF Static, Context
  <1>4. Alone(p, c) = own + (before + Factor(FALSE, 20))
    BY DEF Alone, Static, ToolRecord
  <1>5. Factor(FALSE, 20) = 0 /\ before \in Nat
    BY DEF Factor
  <1>6. drifts[c.tool] \in Nat
    BY DEF Counters, Request
  <1>7. ctx.drifts = drifts[c.tool]
    BY DEF Context
  <1>8. Factor(ctx.drifts >= HistoryThreshold, 15) \in Nat
        /\ Factor(ctx.drifts >= HistoryThreshold, 15) >= before
    BY <1>6, <1>7, SettingsAssumption DEF Factor
  <1>9. Factor(ctx.suspicious, 20) \in Nat
    BY DEF Factor
  <1> DEFINE old == Factor(ctx.drifts >= HistoryThreshold, 15)
             found == Factor(ctx.suspicious, 20)
  <1>10. ToolRecord(ctx) = old + found
    BY DEF ToolRecord
  <1> HIDE DEF own, before, ctx, old, found
  <1>11. old \in Nat /\ old >= before /\ found \in Nat
    BY <1>8, <1>9 DEF old, found
  <1>12. Static(ctx) = own + (old + found)
    BY <1>3, <1>10
  <1>13. Alone(p, c) = own + before
    <2>1. Alone(p, c) = own + (before + 0)
      BY <1>4, <1>5
    <2> QED  BY <1>2, <1>5, <2>1
  <1>14. own + before \in Nat /\ own + (old + found) >= own + before
    BY <1>2, <1>5, <1>11
  <1> QED  BY <1>12, <1>13, <1>14 DEF ctx

(* A score says at least what the call risks by itself.                    *)
LEMMA ScoreCovers ==
  ASSUME NEW p \in IdentityPolicy, NEW c \in Request, NEW n \in Nat, Counters
  PROVE  LET threshold == threshold_outcome(ScoreOf(p, c, n))
         IN  /\ threshold \in Outcomes
             /\ threshold = "ALLOW" => Alone(p, c) < 40
             /\ threshold = "CHALLENGE" => Alone(p, c) < 70
  <1> DEFINE ctx == Context(p, c, n)
             d == decay[c.tool]
  <1>1. ctx \in RiskContext /\ d \in Nat
    BY DEF Context, RiskContext, IdentityPolicy, Request, Counters
  <1>2. Alone(p, c) \in Nat /\ Static(ctx) >= Alone(p, c)
    BY StaticCovers
  <1>3. ScoreOf(p, c, n) = Score(ctx, d)
    BY DEF ScoreOf
  <1> HIDE DEF ctx, d
  <1>4. Static(ctx) \in Nat /\ Score(ctx, d) \in 0..100
    BY <1>1, FactorTypes, ScoreBounds
  <1>5. threshold_outcome(Score(ctx, d)) \in Outcomes
    BY <1>4, Bands
  <1>6. LET outcome == threshold_outcome(Score(ctx, d))
        IN  /\ Static(ctx) >= 70 => outcome \in {"HUMAN_APPROVAL_REQUIRED", "DENY_RISK"}
            /\ Static(ctx) >= 40 => outcome # "ALLOW"
    BY <1>1, DiscountNeverClears
  <1> QED  BY <1>2, <1>3, <1>4, <1>5, <1>6

(* A call goes on from here only if a proof or no proof at all is due: a   *)
(* risk engine that fails counts as maximum risk.                          *)
LEMMA AssessSound ==
  ASSUME PipelineInv, NEW s \in Sessions, Assess(s)
  PROVE  Counters' /\ Pumps' /\ CallsSound'
  <1> DEFINE bumped == frequency[req[s].call.tool] + 1
  <1>1. at[s] = "score" /\ UNCHANGED <<mode, engine, blocked, denials, drifts, decay>>
    BY DEF Assess, ClientPump
  <1>2. frequency' \in {[frequency EXCEPT ![req[s].call.tool] = bumped], frequency}
    BY DEF Assess
  <1>3. Counters'
    BY <1>1, <1>2 DEF PipelineInv, Counters
  <1>4. PICK failed \in BOOLEAN :
          LET score == IF failed THEN 100 ELSE ScoreOf(Policy, req[s].call, bumped)
              threshold == threshold_outcome(score)
              r == RetainIf(ViolatesRisk(req[s].grant, score), req[s], "DENY_ABAC")
              cleared == threshold = "CHALLENGE" /\ r.verified
          IN  Goto(s, RetainIf(threshold # "ALLOW" /\ ~cleared, r, threshold), "schema")
    BY DEF Assess
  <1> DEFINE score == IF failed THEN 100 ELSE ScoreOf(Policy, req[s].call, bumped)
             threshold == threshold_outcome(score)
             violates == ViolatesRisk(req[s].grant, score)
             r == RetainIf(violates, req[s], "DENY_ABAC")
             objects == threshold # "ALLOW" /\ ~(threshold = "CHALLENGE" /\ r.verified)
             q == RetainIf(objects, r, threshold)
  <1>5. Goto(s, q, "schema") /\ "schema" \in Stages
    BY <1>4 DEF Stages
  <1>6. ASSUME mode = "enforce"
        PROVE  /\ q.terminal # Undecided => Sound(q, "emit", engine, blocked)
               /\ q.terminal = Undecided => Sound(q, "schema", engine, blocked)
    <2>1. /\ Sound(req[s], "score", engine, blocked) /\ DOMAIN req[s] = ReqFields
          /\ req[s].call \in Request /\ req[s].terminal = Undecided
          /\ Policy \in IdentityPolicy /\ Policy \in InForce(req[s], engine)
      BY <1>1, <1>6, UnderWay DEF Sound, Undone, AtDrift, AtProof, AtScore
    <2>2. req[s].terminal.event # "ALLOW" /\ "DENY_ABAC" \notin {None, "ALLOW"}
      BY <2>1 DEF Undecided, None
    <2>3. /\ threshold # None
          /\ threshold = "ALLOW" => Alone(Policy, req[s].call) < 40
          /\ threshold = "CHALLENGE" => Alone(Policy, req[s].call) < 70
      <3>1. CASE failed
        <4>1. 100 \in 0..100 /\ score = 100
          BY <3>1
        <4> QED  BY <4>1, Bands DEF None
      <3>2. CASE ~failed
        <4>1. bumped \in Nat /\ Counters
          BY <2>1 DEF PipelineInv, Counters, Request
        <4> HIDE DEF bumped
        <4> QED  BY <2>1, <3>2, <4>1, ScoreCovers DEF Outcomes, None
      <3> QED  BY <3>1, <3>2
    <2>4. violates \in BOOLEAN
      BY DEF ViolatesRisk
    <2>5. objects \in BOOLEAN
      OBVIOUS
    <2> HIDE DEF threshold, violates
    <2>6. CASE violates
      <3>1. Same(req[s], r) /\ r.terminal # Undecided /\ r.terminal.event # "ALLOW"
        <4> HIDE DEF r
        <4> QED  BY <2>1, <2>2, <2>4, <2>6, Retained DEF r
      <3> HIDE DEF r, objects
      <3>2. q = r
        BY <3>1 DEF RetainIf, Retain
      <3> QED  BY <2>1, <3>1, <3>2, SoundRefused
    <2>7. CASE ~violates
      <3>1. r = req[s]
        BY <2>7 DEF RetainIf
      <3>2. objects => threshold \notin {None, "ALLOW"}
        BY <2>3
      <3>3. ~objects => Covered(req[s], engine)
        BY <2>1, <2>3, <3>1 DEF Covered, Sound
      <3> HIDE DEF r, objects
      <3>4. /\ Same(req[s], q) /\ q.terminal.event # "ALLOW"
            /\ q.terminal = Undecided => ~objects
        BY <2>1, <2>2, <2>5, <3>1, <3>2, Retained
      <3>5. ~objects => q = req[s]
        BY <3>1 DEF RetainIf
      <3>6. ~objects => Sound(req[s], "schema", engine, blocked)
        BY <2>1, <3>3
           DEF Sound, Past, Undone, AtDrift, AtProof, AtScore, AtSchema, None
      <3> HIDE DEF q
      <3> QED  BY <2>1, <3>4, <3>5, <3>6, SoundRefused
    <2> QED  BY <2>6, <2>7
  <1> HIDE DEF q
  <1> QED  BY <1>1, <1>3, <1>5, <1>6, Goes


-----------------------------------------------------------------------------
(* Stage 7: an ALLOW is the verdict on a call that passed every stage.     *)
LEMMA ValidateSound ==
  ASSUME PipelineInv, NEW s \in Sessions, at[s] \in AtSchema, NEW list, Validate(s, list),
         UNCHANGED <<mode, engine, blocked>>
  PROVE  Pumps' /\ CallsSound'
  <1> DEFINE r == [req[s] EXCEPT !.list = list]
             objects == ~Validates(req[s].call, list)
             r1 == RetainIf(objects, r, "DENY_VALIDATION")
             q == Retain(r1, "ALLOW")
  <1>1. Goto(s, q, "emit") /\ "emit" \in Stages
    BY DEF Validate, Stages
  <1>2. ASSUME mode = "enforce"
        PROVE  Sound(q, "emit", engine, blocked)
    <2>1. /\ Sound(req[s], at[s], engine, blocked) /\ DOMAIN req[s] = ReqFields
          /\ req[s].terminal = Undecided
      BY <1>2, UnderWay DEF Sound, Undone, AtDrift, AtProof, AtScore, AtSchema
    <2>2. /\ DOMAIN r = ReqFields /\ r.list = list
          /\ r.call = req[s].call /\ r.from = req[s].from /\ r.open = req[s].open
          /\ r.verified = req[s].verified /\ r.terminal = Undecided
      BY <2>1 DEF ReqFields
    <2> HIDE DEF r
    <2>3. (Granted(req[s], engine) => Granted(r, engine))
          /\ (Covered(req[s], engine) => Covered(r, engine))
      BY <2>2 DEF Granted, Covered, InForce
    <2>4. Sound(r, at[s], engine, blocked)
      BY <2>1, <2>2, <2>3 DEF Sound, Past, Undecided, None
    <2>5. objects \in BOOLEAN
      OBVIOUS
    <2>6. r.terminal.event # "ALLOW" /\ "DENY_VALIDATION" \notin {None, "ALLOW"}
      BY <2>2 DEF Undecided, None
    <2>7. objects <=> ~Validates(r.call, r.list)
      BY <2>2
    <2> HIDE DEF objects
    <2>8. CASE objects
      <3>1. /\ Same(r, r1) /\ r1.terminal # Undecided /\ r1.terminal.event # "ALLOW"
        BY <2>2, <2>5, <2>6, <2>8, Retained
      <3> HIDE DEF r1
      <3>2. q = r1
        BY <3>1 DEF Retain
      <3> QED  BY <2>4, <3>1, <3>2, SoundRefused
    <2>9. CASE ~objects
      <3> DEFINE t == [event |-> "ALLOW", version |-> engine]
      <3>1. r1 = r
        BY <2>9 DEF RetainIf
      <3>2. q = [r EXCEPT !.terminal = t]
        BY <2>2, <3>1 DEF Retain
      <3> HIDE DEF q, r1
      <3>3. Same(r, q) /\ q.terminal = t
        BY <2>2, <3>2 DEF Same, ReqFields
      <3>4. (Granted(r, engine) => Granted(q, engine))
            /\ (Covered(r, engine) => Covered(q, engine))
        BY <3>3, SameFacts
      <3>5. Validates(q.call, q.list)
        BY <2>7, <2>9, <3>3 DEF Same
      <3> QED  BY <2>4, <3>3, <3>4, <3>5
                  DEF Sound, Same, Past, Undone, AtDrift, AtProof, AtScore, AtSchema
    <2> QED  BY <2>8, <2>9
  <1> HIDE DEF q
  <1> QED  BY <1>1, <1>2, Goes

(* Between the stages of the schema nothing is decided.                    *)
LEMMA SchemaStages ==
  ASSUME NEW r, NEW a \in AtSchema, NEW z \in AtSchema, NEW e, NEW b, Sound(r, a, e, b)
  PROVE  Sound(r, z, e, b)
  BY DEF Sound, Past, Undone, AtDrift, AtProof, AtScore, AtSchema

LEMMA ReadCacheSound ==
  ASSUME PipelineInv, NEW s \in Sessions, ReadCache(s)
  PROVE  Pumps' /\ CallsSound'
  <1>1. at[s] = "schema" /\ at[s] \in AtSchema /\ UNCHANGED <<mode, engine, blocked>>
    BY DEF ReadCache, ClientPump, shared, AtSchema
  <1>2. CASE Validate(s, cache)
    BY <1>1, <1>2, ValidateSound
  <1>3. CASE at' = [at EXCEPT ![s] = "fetch"] /\ UNCHANGED req
    <2>1. "fetch" \in Stages /\ "fetch" \in AtSchema
      BY DEF Stages, AtSchema
    <2>2. mode = "enforce" => Sound(req[s], "fetch", engine, blocked)
      BY <1>1, <2>1, UnderWay, SchemaStages
    <2>3. req' = [req EXCEPT ![s] = req[s]]
      BY <1>3 DEF PipelineInv, Pumps
    <2> QED  BY <1>1, <1>3, <2>1, <2>2, <2>3, Moves
  <1> QED  BY <1>2, <1>3 DEF ReadCache

LEMMA FetchedSound ==
  ASSUME PipelineInv, NEW s \in Sessions, Fetched(s)
  PROVE  Pumps' /\ CallsSound'
  <1> DEFINE q == [req[s] EXCEPT !.list = upstream]
  <1>1. /\ at[s] = "fetch" /\ at[s] \in AtSchema /\ "judge" \in AtSchema /\ "judge" \in Stages
        /\ UNCHANGED <<mode, engine, blocked>>
        /\ req' = [req EXCEPT ![s] = q] /\ at' = [at EXCEPT ![s] = "judge"]
    BY DEF Fetched, ClientPump, shared, AtSchema, Stages
  <1>2. ASSUME mode = "enforce"
        PROVE  Sound(q, "judge", engine, blocked)
    <2>1. Sound(req[s], "judge", engine, blocked) /\ DOMAIN req[s] = ReqFields
      BY <1>1, <1>2, UnderWay, SchemaStages
    <2>2. /\ DOMAIN q = ReqFields
          /\ q.call = req[s].call /\ q.from = req[s].from /\ q.open = req[s].open
          /\ q.verified = req[s].verified /\ q.terminal = req[s].terminal
      BY <2>1 DEF ReqFields
    <2> HIDE DEF q
    <2>3. (Granted(req[s], engine) => Granted(q, engine))
          /\ (Covered(req[s], engine) => Covered(q, engine))
      BY <2>2 DEF Granted, Covered, InForce
    <2>4. req[s].terminal.event # "ALLOW"
      BY <2>1 DEF Sound, Undone, AtDrift, AtProof, AtScore, AtSchema, Undecided, None
    <2> QED  BY <2>1, <2>2, <2>3, <2>4 DEF Sound, Past
  <1> HIDE DEF q
  <1> QED  BY <1>1, <1>2, Moves

(* Unblocking a tool is remembered by every call of it under way.          *)
LEMMA ReopenedSound ==
  ASSUME PipelineInv, UNCHANGED <<mode, engine, at>>, req' = Reopened
  PROVE  Pumps' /\ CallsSound'
  <1>1. Pumps'
    BY DEF PipelineInv, Pumps, Reopened
  <1>2. ASSUME mode' = "enforce", NEW s \in Sessions, at'[s] # "idle"
        PROVE  Sound(req'[s], at'[s], engine', blocked')
    <2>1. Sound(req[s], at[s], engine, blocked)
      BY <1>2 DEF PipelineInv, CallsSound
    <2>2. req'[s] = IF req[s].call.tool \notin blocked'
                      THEN [req[s] EXCEPT !.open = TRUE] ELSE req[s]
      BY <1>2 DEF Reopened
    <2> QED  BY <1>2, <2>1, <2>2, SoundReopened
  <1> QED  BY <1>1, <1>2 DEF CallsSound

LEMMA JudgeFetchedSound ==
  ASSUME PipelineInv, NEW s \in Sessions, JudgeFetched(s)
  PROVE  Pumps' /\ CallsSound'
  <1>1. /\ at[s] = "judge" /\ at' = [at EXCEPT ![s] = "put"] /\ UNCHANGED <<mode, engine>>
        /\ req' = Reopened /\ "judge" \in AtSchema /\ "put" \in AtSchema /\ "put" \in Stages
    BY DEF JudgeFetched, Checked, ClientPump, AtSchema, Stages
  <1>2. Pumps'
    BY <1>1 DEF PipelineInv, Pumps, Reopened
  <1>3. ASSUME mode' = "enforce", NEW t \in Sessions, at'[t] # "idle"
        PROVE  Sound(req'[t], at'[t], engine', blocked')
    <2>1. at[t] # "idle"
      BY <1>1, <1>3 DEF PipelineInv, Pumps
    <2>2. Sound(req[t], at'[t], engine, blocked)
      <3>1. Sound(req[t], at[t], engine, blocked)
        BY <1>1, <1>3, <2>1 DEF PipelineInv, CallsSound
      <3>2. CASE t = s
        BY <1>1, <3>1, <3>2, SchemaStages DEF PipelineInv, Pumps
      <3>3. CASE t # s
        BY <1>1, <3>1, <3>3 DEF PipelineInv, Pumps
      <3> QED  BY <3>2, <3>3
    <2>3. req'[t] = IF req[t].call.tool \notin blocked'
                      THEN [req[t] EXCEPT !.open = TRUE] ELSE req[t]
      BY <1>1, <2>1 DEF Reopened
    <2>4. engine' = engine
      BY <1>1
    <2> QED  BY <2>2, <2>3, <2>4, SoundReopened
  <1> QED  BY <1>2, <1>3 DEF CallsSound


-----------------------------------------------------------------------------
(* After the verdict only an ALLOW leads an enforcing gateway to forward.  *)
Closing == {"write", "register", "forward", "denied", "unavailable"}

LEMMA StageSound ==
  ASSUME PipelineInv, NEW s \in Sessions, at[s] \in {"emit", "write", "register"},
         NEW stage \in Closing, Stage(s, stage), UNCHANGED <<mode, engine, blocked>>,
         mode = "enforce" /\ stage = "forward" => Event(s) = "ALLOW"
  PROVE  Pumps' /\ CallsSound'
  <1>1. mode = "enforce" => Sound(req[s], stage, engine, blocked)
    <2>1. mode = "enforce" => Sound(req[s], at[s], engine, blocked)
      BY UnderWay
    <2> QED  BY <2>1 DEF Sound, Past, Undone, AtDrift, AtProof, AtScore, AtSchema,
                         Closing, Event
  <1>2. req' = [req EXCEPT ![s] = req[s]] /\ at' = [at EXCEPT ![s] = stage] /\ stage \in Stages
    BY DEF PipelineInv, Pumps, Stage, Closing, Stages
  <1> QED  BY <1>1, <1>2, Moves

LEMMA OutcomeSound ==
  ASSUME NEW s \in Sessions
  PROVE  /\ Outcome(s) \in Closing
         /\ mode = "enforce" /\ Outcome(s) = "forward" => Event(s) = "ALLOW"
  BY DEF Outcome, Closing

LEMMA RecordSound ==
  ASSUME PipelineInv, NEW s \in Sessions,
         Emit(s) \/ Write(s) \/ WriteFails(s) \/ WriteRepeats(s) \/ Register(s)
  PROVE  Counters' /\ Pumps' /\ CallsSound'
  <1>1. CASE Emit(s)
    <2>1. /\ at[s] = "emit" /\ Stage(s, "write") /\ "write" \in Closing
          /\ UNCHANGED <<mode, engine, blocked, frequency, drifts, decay>>
          /\ denials' \in {denials, denials + 1, denials + 0}
      BY <1>1 DEF Emit, ClientPump, Closing
    <2>2. Counters'
      BY <2>1 DEF PipelineInv, Counters
    <2> QED  BY <2>1, <2>2, StageSound
  <1>2. CASE Write(s)
    <2> DEFINE stage == IF Registers(s) THEN "register" ELSE Outcome(s)
    <2>1. /\ at[s] = "write" /\ Stage(s, stage)
          /\ UNCHANGED <<mode, engine, blocked, frequency, denials, drifts, decay>>
      BY <1>2 DEF Write, ClientPump, shared
    <2>2. stage \in Closing /\ (mode = "enforce" /\ stage = "forward" => Event(s) = "ALLOW")
      BY OutcomeSound DEF Closing
    <2> HIDE DEF stage
    <2> QED  BY <2>1, <2>2, StageSound DEF PipelineInv, Counters
  <1>3. CASE WriteFails(s)
    <2> DEFINE stage == IF mode = "enforce" /\ Denies(Event(s)) THEN "denied" ELSE "unavailable"
    <2>1. /\ at[s] = "write" /\ Stage(s, stage)
          /\ UNCHANGED <<mode, engine, blocked, frequency, denials, drifts, decay>>
      BY <1>3 DEF WriteFails, ClientPump, shared
    <2>2. stage \in Closing /\ stage # "forward"
      BY DEF Closing
    <2> HIDE DEF stage
    <2> QED  BY <2>1, <2>2, StageSound DEF PipelineInv, Counters
  <1>4. CASE Register(s)
    <2>1. PICK failed \in BOOLEAN : Stage(s, IF failed THEN "unavailable" ELSE Outcome(s))
      BY <1>4 DEF Register
    <2> DEFINE stage == IF failed THEN "unavailable" ELSE Outcome(s)
    <2>2. /\ at[s] = "register" /\ Stage(s, stage)
          /\ UNCHANGED <<mode, engine, blocked, frequency, denials, drifts, decay>>
      BY <1>4, <2>1 DEF Register, ClientPump, shared
    <2>3. stage \in Closing /\ (mode = "enforce" /\ stage = "forward" => Event(s) = "ALLOW")
      BY OutcomeSound DEF Closing
    <2> HIDE DEF stage
    <2> QED  BY <2>2, <2>3, StageSound DEF PipelineInv, Counters
  <1>5. CASE WriteRepeats(s)
    <2>1. UNCHANGED <<mode, engine, blocked, at, req, frequency, denials, drifts, decay>>
      BY <1>5 DEF WriteRepeats, ClientPump, shared
    <2> QED  BY <2>1 DEF PipelineInv, Counters, Pumps, CallsSound
  <1> QED  BY <1>1, <1>2, <1>3, <1>4, <1>5

(* The rows of a check add to the counts of the drifts.                    *)
LEMMA NotedCounts ==
  ASSUME Counters, NEW list
  PROVE  /\ Noted(list) \in [Tools -> Nat]
         /\ \A t \in Tools : drifts[t] <= Noted(list)[t]
  BY DEF Counters, Noted

(* A call that comes in, and one that has been answered.                   *)
LEMMA ReceiveSound ==
  ASSUME PipelineInv, NEW s \in Sessions, NEW c \in Calls, Receive(s, c)
  PROVE  Pumps' /\ CallsSound'
  <1> DEFINE q(open, foreseen, alone, since) ==
               [id |-> requests + 1, call |-> c, terminal |-> Undecided, grant |-> {},
                verified |-> FALSE, list |-> NoList, from |-> engine, open |-> open,
                foreseen |-> foreseen, alone |-> alone, since |-> since]
  <1>1. UNCHANGED <<mode, engine, blocked>> /\ "start" \in Stages
    BY DEF Receive, shared, Stages
  <1>2. PICK foreseen, alone, since :
          Goto(s, q(c.tool \notin blocked, foreseen, alone, since), "start")
    BY DEF Receive
  <1> DEFINE r == q(c.tool \notin blocked, foreseen, alone, since)
  <1>3. /\ DOMAIN r = ReqFields /\ r.call = c /\ r.terminal = Undecided /\ r.verified # TRUE
        /\ r.from = engine /\ (c.tool \notin blocked => r.open = TRUE)
    BY DEF ReqFields
  <1>4. Goto(s, r, "start")
    BY <1>2
  <1> HIDE DEF r
  <1>5. c \in Request /\ engine \in 1..engine
    BY CallsAssumption, Engines DEF PipelineInv, Settings
  <1>6. Sound(r, "start", engine, blocked)
    <2>1. r.terminal.event # "ALLOW" /\ r.call \in Request /\ r.from \in 1..engine
      BY <1>3, <1>5 DEF Undecided, None
    <2>2. ~Past(AtDrift, r, "start") /\ ~Past(AtProof, r, "start")
          /\ ~Past(AtScore, r, "start") /\ ~Past(AtSchema, r, "start")
      BY <2>1 DEF Past, AtDrift, AtProof, AtScore, AtSchema
    <2>3. r.verified = TRUE => r.call.proof = "good"
      BY <1>3
    <2> QED  BY <1>3, <2>1, <2>2, <2>3 DEF Sound
  <1> QED  BY <1>1, <1>3, <1>4, <1>6, Goes

LEMMA ConcludeSound ==
  ASSUME PipelineInv, NEW s \in Sessions, Conclude(s)
  PROVE  Pumps' /\ CallsSound'
  BY Moves DEF Conclude, ClientPump, shared, Stages

(* A policy activated while a call is under way adds to those in force.    *)
LEMMA ActivateSound ==
  ASSUME PipelineInv, ActivatePolicy
  PROVE  Settings' /\ Pumps' /\ CallsSound'
  <1>1. UNCHANGED <<mode, at, req, blocked>> /\ engine' = engine + 1 /\ engine < Len(Policies)
    BY DEF ActivatePolicy, World
  <1>2. engine \in Nat /\ engine' \in Nat /\ engine <= engine' /\ engine' \in DOMAIN Policies
    BY <1>1, Engines DEF PipelineInv, Settings
  <1>3. CallsSound'
    BY <1>1, <1>2, SoundLater DEF PipelineInv, CallsSound
  <1> QED  BY <1>1, <1>2, <1>3 DEF PipelineInv, Settings, Pumps


(* Every step of the sessions, of the upstream and of the world.           *)
LEMMA PipelineStep ==
  PipelineInv /\ [Next]_vars => PipelineInv'
  <1> SUFFICES ASSUME PipelineInv, [Next]_vars  PROVE PipelineInv'
    OBVIOUS
  <1> USE DEF PipelineInv
  <1>a. ASSUME UNCHANGED <<mode, engine>>  PROVE Settings'
    BY <1>a DEF Settings
  <1>b. ASSUME UNCHANGED <<frequency, denials, decay>>,
               drifts' = drifts \/ \E list : drifts' = Noted(list)
        PROVE  Counters'
    <2>1. drifts' \in [Tools -> Nat]
      BY <1>b, NotedCounts DEF Counters
    <2> QED  BY <1>b, <2>1 DEF Counters
  <1>c. ASSUME UNCHANGED <<mode, engine, blocked, at, req>>
        PROVE  Settings' /\ Pumps' /\ CallsSound'
    BY <1>c DEF Settings, Pumps, CallsSound
  <1>1. ASSUME NEW s \in Sessions, ClientSends(s)  PROVE PipelineInv'
    <2>1. CASE \E c \in Calls : Receive(s, c)
      <3>1. UNCHANGED <<mode, engine, frequency, denials, drifts, decay>>
        BY <2>1 DEF Receive, shared
      <3> QED  BY <1>a, <1>b, <2>1, <3>1, ReceiveSound
    <2>2. CASE Initialize(s) \/ RequestList(s)
      <3>1. UNCHANGED <<mode, engine, blocked, at, req, frequency, denials, drifts, decay>>
        BY <2>2 DEF Initialize, RequestList, shared
      <3> QED  BY <1>b, <1>c, <3>1
    <2> QED  BY <1>1, <2>1, <2>2 DEF ClientSends
  <1>2. ASSUME NEW s \in Sessions, ClientStep(s)  PROVE PipelineInv'
    <2>1. CASE Start(s)
      <3>1. UNCHANGED <<mode, engine, frequency, denials, drifts, decay>>
        BY <2>1 DEF Start, ClientPump, shared
      <3> QED  BY <1>a, <1>b, <2>1, <3>1, StartSound
    <2>2. CASE Replay(s)
      <3>1. UNCHANGED <<mode, engine, frequency, denials, drifts, decay>>
        BY <2>2 DEF Replay, ClientPump, shared
      <3> QED  BY <1>a, <1>b, <2>2, <3>1, ReplaySound
    <2>3. CASE Drift(s)
      <3>1. UNCHANGED <<mode, engine, frequency, denials, drifts, decay>>
        BY <2>3 DEF Drift, ClientPump, shared
      <3> QED  BY <1>a, <1>b, <2>3, <3>1, DriftSound
    <2>4. CASE Proof(s)
      <3>1. UNCHANGED <<mode, engine, frequency, denials, drifts, decay>>
        BY <2>4 DEF Proof, ClientPump, shared
      <3> QED  BY <1>a, <1>b, <2>4, <3>1, ProofSound
    <2>5. CASE Approval(s)
      <3>1. UNCHANGED <<mode, engine, frequency, denials, drifts, decay>>
        BY <2>5 DEF Approval, ClientPump, shared
      <3> QED  BY <1>a, <1>b, <2>5, <3>1, ApprovalSound
    <2>6. CASE Assess(s)
      <3>1. UNCHANGED <<mode, engine>>
        BY <2>6 DEF Assess, ClientPump
      <3> QED  BY <1>a, <2>6, <3>1, AssessSound
    <2>7. CASE ReadCache(s)
      <3>1. UNCHANGED <<mode, engine, frequency, denials, drifts, decay>>
        BY <2>7 DEF ReadCache, ClientPump, shared
      <3> QED  BY <1>a, <1>b, <2>7, <3>1, ReadCacheSound
    <2>8. CASE JudgeFetched(s)
      <3>1. UNCHANGED <<mode, engine, frequency, denials, decay>>
            /\ drifts' = Noted(Lists[req[s].list])
        BY <2>8 DEF JudgeFetched, Checked, ClientPump
      <3> QED  BY <1>a, <1>b, <2>8, <3>1, JudgeFetchedSound
    <2>9. CASE PutFetched(s)
      <3>1. /\ UNCHANGED <<mode, engine, blocked, frequency, denials, drifts, decay>>
            /\ at[s] \in AtSchema /\ Validate(s, req[s].list)
        BY <2>9 DEF PutFetched, ClientPump, AtSchema
      <3> QED  BY <1>a, <1>b, <3>1, ValidateSound
    <2>10. CASE FetchTimesOut(s)
      <3>1. /\ UNCHANGED <<mode, engine, blocked, frequency, denials, drifts, decay>>
            /\ at[s] \in AtSchema /\ Validate(s, NoList)
        BY <2>10 DEF FetchTimesOut, ClientPump, shared, AtSchema
      <3> QED  BY <1>a, <1>b, <3>1, ValidateSound
    <2>11. CASE Emit(s) \/ Write(s) \/ WriteRepeats(s) \/ Register(s)
      <3>1. UNCHANGED <<mode, engine>>
        BY <2>11 DEF Emit, Write, WriteRepeats, Register, ClientPump, shared
      <3> QED  BY <1>a, <2>11, <3>1, RecordSound
    <2>12. CASE Conclude(s)
      <3>1. UNCHANGED <<mode, engine, frequency, denials, drifts, decay>>
        BY <2>12 DEF Conclude, ClientPump, shared
      <3> QED  BY <1>a, <1>b, <2>12, <3>1, ConcludeSound
    <2> QED  BY <1>2, <2>1, <2>2, <2>3, <2>4, <2>5, <2>6, <2>7, <2>8, <2>9, <2>10, <2>11, <2>12
             DEF ClientStep
  <1>3. ASSUME NEW s \in Sessions, UpstreamStep(s)  PROVE PipelineInv'
    <2>1. CASE AnswerList(s) \/ PutList(s) \/ ServeList(s)
      <3>1. UNCHANGED <<mode, engine, blocked, at, req, frequency, denials, drifts, decay>>
        BY <2>1 DEF AnswerList, PutList, ServeList, UpstreamPump, shared
      <3> QED  BY <1>b, <1>c, <3>1
    <2>2. CASE JudgeList(s)
      <3>1. /\ UNCHANGED <<mode, engine, at, frequency, denials, decay>> /\ req' = Reopened
            /\ drifts' = Noted(Lists[listing[s].list])
        BY <2>2 DEF JudgeList, Checked
      <3> QED  BY <1>a, <1>b, <3>1, ReopenedSound
    <2>3. CASE Fetched(s)
      <3>1. UNCHANGED <<mode, engine, frequency, denials, drifts, decay>>
        BY <2>3 DEF Fetched, ClientPump, shared
      <3> QED  BY <1>a, <1>b, <2>3, <3>1, FetchedSound
    <2> QED  BY <1>3, <2>1, <2>2, <2>3 DEF UpstreamStep
  <1>4. ASSUME NEW s \in Sessions, FetchFails(s) \/ WriteFails(s) \/ ListFails(s)
        PROVE  PipelineInv'
    <2>1. CASE FetchFails(s)
      <3>1. /\ UNCHANGED <<mode, engine, blocked, frequency, denials, decay>>
            /\ at[s] \in AtSchema /\ Validate(s, NoList)
        BY <2>1 DEF FetchFails, NotedOrNot, ClientPump, AtSchema
      <3>2. drifts' = drifts \/ \E list : drifts' = Noted(list)
        BY <2>1 DEF FetchFails, NotedOrNot
      <3> QED  BY <1>a, <1>b, <3>1, <3>2, ValidateSound
    <2>2. CASE WriteFails(s)
      <3>1. UNCHANGED <<mode, engine>>
        BY <2>2 DEF WriteFails, ClientPump, shared
      <3> QED  BY <1>a, <2>2, <3>1, RecordSound
    <2>3. CASE ListFails(s)
      <3>1. UNCHANGED <<mode, engine, blocked, at, req, frequency, denials, decay>>
        BY <2>3 DEF ListFails, NotedOrNot, UpstreamPump
      <3>2. drifts' = drifts \/ \E list : drifts' = Noted(list)
        BY <2>3 DEF ListFails, NotedOrNot
      <3> QED  BY <1>b, <1>c, <3>1, <3>2
    <2> QED  BY <1>4, <2>1, <2>2, <2>3
  <1>5. ASSUME ActivatePolicy  PROVE PipelineInv'
    <2>1. UNCHANGED <<frequency, denials, drifts, decay>>
      BY <1>5 DEF ActivatePolicy
    <2> QED  BY <1>5, <1>b, <2>1, ActivateSound
  <1>6. ASSUME UpstreamChanges \/ Expire  PROVE PipelineInv'
    <2>1. UNCHANGED <<mode, engine, blocked, at, req>> /\ UNCHANGED decay
      BY <1>6 DEF UpstreamChanges, Expire, World
    <2>2. /\ \/ UNCHANGED <<frequency, denials>>
             \/ frequency' = [t \in Tools |-> 0] /\ denials' = 0
          /\ drifts' = drifts \/ drifts' = [t \in Tools |-> 0]
      BY <1>6 DEF UpstreamChanges, Expire
    <2>3. Counters'
      BY <2>1, <2>2 DEF Counters
    <2> QED  BY <1>c, <2>1, <2>3
  <1>7. ASSUME NEW t \in Tools, ApproveTool(t) \/ ApproveCall(t)  PROVE PipelineInv'
    <2>1. CASE ApproveTool(t)
      <3>1. UNCHANGED <<mode, engine, at, frequency, denials, drifts, decay>> /\ req' = Reopened
        BY <2>1 DEF ApproveTool, World
      <3> QED  BY <1>a, <1>b, <3>1, ReopenedSound
    <2>2. CASE ApproveCall(t)
      <3>1. /\ UNCHANGED <<mode, engine, blocked, at, req, frequency, denials, drifts>>
            /\ decay' = [decay EXCEPT ![t] = decay[t] + DecayStep]
        BY <2>2 DEF ApproveCall, World, apply_decay
      <3>2. Counters'
        BY <3>1, SettingsAssumption DEF Counters
      <3> QED  BY <1>c, <3>1, <3>2
    <2> QED  BY <1>7, <2>1, <2>2
  <1>8. ASSUME UNCHANGED vars  PROVE PipelineInv'
    <2>1. UNCHANGED <<mode, engine, blocked, at, req, frequency, denials, drifts, decay>>
      BY <1>8 DEF vars, shared
    <2> QED  BY <1>b, <1>c, <2>1
  <1> QED  BY <1>1, <1>2, <1>3, <1>4, <1>5, <1>6, <1>7, <1>8 DEF Next

-----------------------------------------------------------------------------
(* ForwardJustified, the promise of the decision pipeline of               *)
(* jsonrpc_interceptor.py: whatever other sessions, policy activations,    *)
(* drift, approvals, expiries and faults come between two of its stages, a *)
(* call that an enforcing gateway forwards passed every one of them.       *)
THEOREM CallsJustified == Spec => []ForwardJustified
  <1>1. Init => PipelineInv
    <2> SUFFICES ASSUME Init  PROVE PipelineInv
      OBVIOUS
    <2>1. engine \in DOMAIN Policies
      BY Engines DEF Init
    <2>2. Settings /\ Counters /\ Pumps /\ \A s \in Sessions : at[s] = "idle"
      BY <2>1 DEF Init, Settings, Counters, Pumps, Stages
    <2> QED  BY <2>2 DEF PipelineInv, CallsSound
  <1>2. PipelineInv => ForwardJustified
    <2> SUFFICES ASSUME PipelineInv, NEW s \in Sessions, at[s] = "forward", mode = "enforce"
        PROVE  LET c == req[s].call
                   inForce == {Policies[v] : v \in req[s].from..engine}
               IN  /\ \E p \in inForce : \E g \in Range(p.grants) :
                        c.tool \in g.allowed \ g.denied /\ ~Violates({g}, c)
                   /\ req[s].open
                   /\ c.nonce \in {None, "fresh"} /\ c.proof # "bad" /\ c.approval # "bad"
                   /\ Validates(c, req[s].list)
                   /\ \/ c.approval = "good"
                      \/ \E p \in inForce :
                           \/ Alone(p, c) < 40
                           \/ Alone(p, c) < 70 /\ c.proof = "good"
      BY DEF ForwardJustified
    <2>1. Sound(req[s], "forward", engine, blocked) /\ req[s].terminal.event = "ALLOW"
      BY UnderWay DEF Sound
    <2>2. /\ Granted(req[s], engine) /\ Covered(req[s], engine) /\ req[s].open = TRUE
          /\ req[s].call.nonce \in {None, "fresh"} /\ req[s].call.proof # "bad"
          /\ req[s].call.approval # "bad" /\ Validates(req[s].call, req[s].list)
      BY <2>1 DEF Sound, Past
    <2> QED  BY <2>2 DEF Granted, Covered, InForce
  <1> QED  BY <1>1, <1>2, PipelineStep, PTL DEF Spec


-----------------------------------------------------------------------------
(* The audit trail.  What is known of a call at a stage a, of its rows in  *)
(* the ledger l, and of its verdict, under engine e, after n requests, in  *)
(* mode m.                                                                 *)
RowOf(r, l) == \E row \in l : row.id = r.id

Recorded(r, a, l, e, n, m) ==
  /\ DOMAIN r = ReqFields /\ r.id \in 1..n /\ r.call \in Calls
  /\ r.list \in {NoList} \cup DOMAIN Lists
  /\ a \in {"judge", "put"} => r.list \in DOMAIN Lists
  /\ \/ r.terminal = Undecided /\ a \in Undone
     \/ r.terminal.event \in Events /\ r.terminal.version \in 1..e
  /\ a \in Undone \cup {"emit"} => ~RowOf(r, l)
  /\ \A row \in l : row.id = r.id =>
       row.event = r.terminal.event /\ row.version >= r.terminal.version
  /\ a \in {"register", "forward"} => RowOf(r, l)
  /\ a = "register" =>
       m = "enforce" /\ r.terminal.event \in {"CHALLENGE", "HUMAN_APPROVAL_REQUIRED"}
  /\ a = "forward" => m = "observe" \/ r.terminal.event = "ALLOW"
  /\ a = "denied" => /\ m = "enforce" /\ r.terminal.event # "ALLOW"
                     /\ RowOf(r, l) \/ Denies(r.terminal.event)
  /\ a = "unavailable" => m = "observe" \/ ~Denies(r.terminal.event)

CallsRecorded ==
  \A s \in Sessions :
    at[s] # "idle" => Recorded(req[s], at[s], ledger, engine, requests, mode)

OwnRows ==
  /\ \A s \in Sessions : at[s] = "idle" => req[s].id = 0
  /\ \A s, t \in Sessions : at[s] # "idle" /\ at[t] # "idle" /\ s # t => req[s].id # req[t].id
  /\ ledger \subseteq [id : 1..requests, call : Calls, mode : {mode},
                       event : Events, version : DOMAIN Policies]

Baselines ==
  /\ upstream \in DOMAIN Lists /\ cache \in {NoList} \cup DOMAIN Lists
  /\ baseline \in [Tools -> [approved : Schemas \cup {None}, observed : Schemas \cup {None}]]
  /\ blocked \subseteq Tools

Listings ==
  /\ listing \in [Sessions -> [at : {"idle", "sent", "judge", "put", "record"},
                               list : {NoList} \cup DOMAIN Lists]]
  /\ \A s \in Sessions :
       listing[s].at \in {"judge", "put"} => listing[s].list \in DOMAIN Lists

Bounded == requests \in 0..MaxRequests /\ disturbances \in 0..MaxDisturbances

RecordInv ==
  /\ Settings /\ Counters /\ Pumps /\ Baselines /\ Listings /\ Bounded
  /\ OwnRows /\ CallsRecorded

(* What a stage before the record may do to a call.                        *)
Verdict(t) == t = Undecided \/ (t.event \in Events /\ t.version \in 1..engine)
Kept(r, q) ==
  /\ DOMAIN q = ReqFields /\ q.id = r.id /\ q.call = r.call /\ q.list = r.list
  /\ Verdict(q.terminal)

LEMMA RetainedKept ==
  ASSUME NEW r, Kept(r, r), engine \in 1..engine, NEW event \in Events, NEW objects \in BOOLEAN
  PROVE  LET q == RetainIf(objects, r, event)
         IN  Kept(r, q) /\ (objects => q.terminal # Undecided)
  <1>1. CASE objects /\ r.terminal = Undecided
    <2> DEFINE t == [event |-> event, version |-> engine]
               q == [r EXCEPT !.terminal = t]
    <2>1. RetainIf(objects, r, event) = q
      BY <1>1 DEF RetainIf, Retain
    <2>2. t.event = event /\ t.version = engine /\ Undecided.event = None /\ event # None
      BY DEF Undecided, Events, None
    <2> HIDE DEF t
    <2>3. /\ DOMAIN q = ReqFields /\ q.terminal = t
          /\ q.id = r.id /\ q.call = r.call /\ q.list = r.list
      BY DEF Kept, ReqFields
    <2> QED  BY <1>1, <2>1, <2>2, <2>3 DEF Kept, Verdict
  <1>2. CASE ~(objects /\ r.terminal = Undecided)
    BY <1>2 DEF RetainIf, Retain
  <1> QED  BY <1>1, <1>2

LEMMA CallKept ==
  ASSUME RecordInv, NEW s \in Sessions, at[s] # "idle"
  PROVE  /\ Kept(req[s], req[s]) /\ req[s].call \in Request /\ engine \in 1..engine
         /\ Policy \in IdentityPolicy
         /\ Recorded(req[s], at[s], ledger, engine, requests, mode)
  BY Engines, CallsAssumption
     DEF RecordInv, CallsRecorded, Recorded, Kept, Verdict, Settings, Policy

(* A step of one call that records nothing.                                *)
LEMMA TrailMoves ==
  ASSUME RecordInv, NEW s \in Sessions, at[s] # "idle", NEW q, NEW stage \in Stages,
         UNCHANGED <<mode, engine, requests, ledger>>,
         req' = [req EXCEPT ![s] = q], at' = [at EXCEPT ![s] = stage],
         \/ stage = "idle" /\ q.id = 0
         \/ stage # "idle" /\ q.id = req[s].id
            /\ Recorded(q, stage, ledger, engine, requests, mode)
  PROVE  Pumps' /\ OwnRows' /\ CallsRecorded'
  <1>1. Pumps'
    BY DEF RecordInv, Pumps
  <1>2. \A t \in Sessions :
          /\ t # s => at'[t] = at[t] /\ req'[t] = req[t]
          /\ t = s => at'[t] = stage /\ req'[t] = q
    BY DEF RecordInv, Pumps
  <1>3. OwnRows'
    BY <1>2 DEF RecordInv, OwnRows
  <1>4. CallsRecorded'
    BY <1>2 DEF RecordInv, CallsRecorded
  <1> QED  BY <1>1, <1>3, <1>4

(* Goto, before the record: no row names the call yet.                     *)
LEMMA TrailGoes ==
  ASSUME RecordInv, NEW s \in Sessions, at[s] \in Undone, NEW q,
         NEW stage \in (Undone \ {"judge", "put"}) \cup {"emit"}, Goto(s, q, stage),
         Verdict(q.terminal), stage = "emit" => q.terminal # Undecided,
         DOMAIN q = ReqFields, q.id = req[s].id, q.call = req[s].call,
         q.list \in {NoList} \cup DOMAIN Lists,
         UNCHANGED <<mode, engine, requests, ledger>>
  PROVE  Pumps' /\ OwnRows' /\ CallsRecorded'
  <1> DEFINE next == IF mode = "enforce" /\ q.terminal # Undecided THEN "emit" ELSE stage
  <1>1. /\ req' = [req EXCEPT ![s] = q] /\ at' = [at EXCEPT ![s] = next]
        /\ next \in (Undone \ {"judge", "put"}) \cup {"emit"}
        /\ next = "emit" => q.terminal # Undecided
    BY DEF Goto
  <1> HIDE DEF next
  <1>2. next \in Stages /\ at[s] # "idle" /\ next # "idle"
        /\ next \notin {"judge", "put", "register", "forward", "denied", "unavailable"}
    BY <1>1 DEF Stages, Undone, AtDrift, AtProof, AtScore, AtSchema
  <1>3. Recorded(req[s], at[s], ledger, engine, requests, mode)
    BY <1>2, CallKept
  <1>4. ~RowOf(q, ledger) /\ q.id \in 1..requests /\ q.call \in Calls
    BY <1>3 DEF Recorded, RowOf
  <1>5. Recorded(q, next, ledger, engine, requests, mode)
    BY <1>1, <1>2, <1>4 DEF Recorded, Verdict, RowOf
  <1> QED  BY <1>1, <1>2, <1>5, TrailMoves


LEMMA TrailKept ==
  ASSUME RecordInv, NEW s \in Sessions, at[s] \in Undone, NEW q, Kept(req[s], q),
         NEW stage \in (Undone \ {"judge", "put"}) \cup {"emit"}, Goto(s, q, stage),
         stage = "emit" => q.terminal # Undecided,
         UNCHANGED <<mode, engine, requests, ledger>>
  PROVE  Pumps' /\ OwnRows' /\ CallsRecorded'
  <1>1. q.list \in {NoList} \cup DOMAIN Lists
    BY CallKept DEF Kept, Recorded, Undone, AtDrift, AtProof, AtScore, AtSchema
  <1> QED  BY <1>1, TrailGoes DEF Kept

(* A stage with one objection.                                             *)
LEMMA TrailObjected ==
  ASSUME RecordInv, NEW s \in Sessions, at[s] \in Undone,
         UNCHANGED <<mode, engine, requests, ledger>>,
         NEW objects \in BOOLEAN, NEW event \in Events,
         NEW stage \in (Undone \ {"judge", "put"}) \cup {"emit"},
         stage = "emit" => objects,
         Goto(s, RetainIf(objects, req[s], event), stage)
  PROVE  Pumps' /\ OwnRows' /\ CallsRecorded'
  <1> DEFINE q == RetainIf(objects, req[s], event)
  <1>1. at[s] # "idle"
    BY DEF Undone, AtDrift, AtProof, AtScore, AtSchema
  <1>2. Kept(req[s], q) /\ (objects => q.terminal # Undecided)
    BY <1>1, CallKept, RetainedKept
  <1>3. Goto(s, q, stage)
    OBVIOUS
  <1> HIDE DEF q
  <1> QED  BY <1>2, <1>3, TrailKept

LEMMA TrailAuthorize ==
  ASSUME RecordInv, NEW s \in Sessions, at[s] \in {"start", "replay"}, NEW r,
         Kept(req[s], r), Authorize(s, r), UNCHANGED <<mode, engine, requests, ledger>>
  PROVE  Pumps' /\ OwnRows' /\ CallsRecorded'
  <1> DEFINE grant == matching_grant(Policy, r.call.tool)
             ungranted == grant = {}
             violates == Violates(grant, r.call)
             r1 == RetainIf(ungranted, r, "DENY_RBAC")
             r2 == RetainIf(violates, r1, "DENY_ABAC")
             q == [r2 EXCEPT !.grant = grant]
  <1>1. Goto(s, q, "drift")
    BY DEF Authorize
  <1>2. /\ "drift" \in (Undone \ {"judge", "put"}) \cup {"emit"} /\ at[s] \in Undone
        /\ at[s] # "idle" /\ "DENY_RBAC" \in Events /\ "DENY_ABAC" \in Events
    BY DEF Undone, AtDrift, AtProof, AtScore, AtSchema, Events
  <1>3. engine \in 1..engine /\ Kept(r, r)
    BY <1>2, CallKept DEF Kept
  <1>4. ungranted \in BOOLEAN /\ violates \in BOOLEAN
    BY DEF Violates
  <1> HIDE DEF ungranted, violates
  <1>5. Kept(r, r1)
    BY <1>2, <1>3, <1>4, RetainedKept
  <1> HIDE DEF grant, r1
  <1>6. Kept(r1, r2)
    <2>1. Kept(r1, r1)
      BY <1>5 DEF Kept
    <2> QED  BY <1>2, <1>3, <1>4, <2>1, RetainedKept
  <1> HIDE DEF r2
  <1>7. Kept(r2, q)
    BY <1>6 DEF Kept, ReqFields
  <1> HIDE DEF q
  <1>8. Kept(req[s], q)
    BY <1>5, <1>6, <1>7 DEF Kept
  <1> QED  BY <1>1, <1>2, <1>8, TrailKept

LEMMA TrailAdmission ==
  ASSUME RecordInv, NEW s \in Sessions, Start(s) \/ Replay(s)
  PROVE  Pumps' /\ OwnRows' /\ CallsRecorded'
  <1>1. at[s] \in {"start", "replay"} /\ UNCHANGED <<mode, engine, requests, ledger>>
    BY DEF Start, Replay, ClientPump, shared
  <1>2. /\ at[s] \in Undone /\ at[s] # "idle"
        /\ "replay" \in (Undone \ {"judge", "put"}) \cup {"emit"}
        /\ "emit" \in (Undone \ {"judge", "put"}) \cup {"emit"} /\ "DENY_REPLAY" \in Events
    BY <1>1 DEF Undone, AtDrift, AtProof, AtScore, AtSchema, Events
  <1>3. Kept(req[s], req[s]) /\ engine \in 1..engine
    BY <1>2, CallKept
  <1>4. CASE Start(s)
    <2>1. CASE Goto(s, req[s], "replay")
      BY <1>1, <1>2, <1>3, <2>1, TrailKept
    <2>2. CASE Authorize(s, req[s])
      BY <1>1, <1>3, <2>2, TrailAuthorize
    <2> QED  BY <1>4, <2>1, <2>2 DEF Start
  <1>5. CASE Replay(s)
    <2>1. PICK failed \in BOOLEAN :
            LET r == RetainIf(failed \/ req[s].call.nonce # "fresh", req[s], "DENY_REPLAY")
            IN  IF mode = "enforce" /\ r.terminal # Undecided
                  THEN Goto(s, r, "emit") ELSE Authorize(s, r)
      BY <1>5 DEF Replay
    <2> DEFINE objects == failed \/ req[s].call.nonce # "fresh"
               q == RetainIf(objects, req[s], "DENY_REPLAY")
    <2>2. \/ Goto(s, q, "emit") /\ q.terminal # Undecided
          \/ Authorize(s, q)
      BY <2>1
    <2>3. objects \in BOOLEAN
      OBVIOUS
    <2> HIDE DEF objects
    <2>4. Kept(req[s], q)
      BY <1>2, <1>3, <2>3, RetainedKept
    <2> HIDE DEF q
    <2> QED  BY <1>1, <1>2, <2>2, <2>4, TrailKept, TrailAuthorize
  <1> QED  BY <1>4, <1>5

LEMMA TrailStages ==
  ASSUME RecordInv, NEW s \in Sessions, Drift(s) \/ Proof(s) \/ Approval(s)
  PROVE  Pumps' /\ OwnRows' /\ CallsRecorded'
  <1> DEFINE Before == (Undone \ {"judge", "put"}) \cup {"emit"}
  <1>1. at[s] \in {"drift", "proof", "approval"} /\ UNCHANGED <<mode, engine, requests, ledger>>
    BY DEF Drift, Proof, Approval, ClientPump, shared
  <1>2. /\ at[s] \in Undone /\ at[s] # "idle"
        /\ {"proof", "schema"} \subseteq Before /\ "emit" \in Before
        /\ \A c : Redemption(c) \in Before /\ Redemption(c) # "emit"
        /\ {"DENY_DRIFT", "DENY_STEP_UP", "DENY_APPROVAL_MISMATCH"} \subseteq Events
    BY <1>1 DEF Undone, AtDrift, AtProof, AtScore, AtSchema, Events, Redemption
  <1>3. Kept(req[s], req[s])
    BY <1>2, CallKept
  <1>4. CASE Drift(s)
    <2> DEFINE stage == IF mode = "enforce" /\ req[s].call.proof # None
                          THEN "proof" ELSE Redemption(req[s].call)
    <2>1. PICK failed \in BOOLEAN :
            Goto(s, RetainIf(failed \/ req[s].call.tool \in blocked, req[s], "DENY_DRIFT"), stage)
      BY <1>4 DEF Drift
    <2> DEFINE objects == failed \/ req[s].call.tool \in blocked
    <2>2. objects \in BOOLEAN /\ stage \in Before /\ stage # "emit"
      BY <1>2
    <2>3. Goto(s, RetainIf(objects, req[s], "DENY_DRIFT"), stage)
      BY <2>1
    <2> HIDE DEF objects, stage
    <2> QED  BY <1>1, <1>2, <2>2, <2>3, TrailObjected
  <1>5. CASE Proof(s)
    <2> DEFINE q == [req[s] EXCEPT !.verified = TRUE]
               stage == Redemption(req[s].call)
    <2>1. CASE Goto(s, Retain(req[s], "DENY_STEP_UP"), "emit")
      <3>1. Goto(s, RetainIf(TRUE, req[s], "DENY_STEP_UP"), "emit")
        BY <2>1 DEF RetainIf
      <3> QED  BY <1>1, <1>2, <3>1, TrailObjected
    <2>2. CASE Goto(s, q, stage)
      <3>1. Kept(req[s], q) /\ stage \in Before /\ stage # "emit"
        BY <1>2, <1>3 DEF Kept, ReqFields
      <3> HIDE DEF q, stage
      <3> QED  BY <1>1, <1>2, <2>2, <3>1, TrailKept
    <2> QED  BY <1>5, <2>1, <2>2 DEF Proof
  <1>6. CASE Approval(s)
    <2>1. PICK failed \in BOOLEAN :
            Goto(s, RetainIf(failed \/ req[s].call.approval # "good", req[s],
                             "DENY_APPROVAL_MISMATCH"), "schema")
      BY <1>6 DEF Approval
    <2> DEFINE objects == failed \/ req[s].call.approval # "good"
    <2>2. objects \in BOOLEAN
      OBVIOUS
    <2>3. Goto(s, RetainIf(objects, req[s], "DENY_APPROVAL_MISMATCH"), "schema")
      BY <2>1
    <2> HIDE DEF objects
    <2> QED  BY <1>1, <1>2, <2>2, <2>3, TrailObjected
  <1> QED  BY <1>4, <1>5, <1>6


LEMMA TrailAssess ==
  ASSUME RecordInv, NEW s \in Sessions, Assess(s)
  PROVE  Counters' /\ Pumps' /\ OwnRows' /\ CallsRecorded'
  <1> DEFINE bumped == frequency[req[s].call.tool] + 1
  <1>1. /\ at[s] = "score" /\ UNCHANGED <<mode, engine, requests, ledger, denials, drifts, decay>>
        /\ at[s] \in Undone /\ at[s] # "idle"
    BY DEF Assess, ClientPump, Undone, AtDrift, AtProof, AtScore
  <1>2. frequency' \in {[frequency EXCEPT ![req[s].call.tool] = bumped], frequency}
    BY DEF Assess
  <1>3. Counters'
    BY <1>1, <1>2 DEF RecordInv, Counters
  <1>4. PICK failed \in BOOLEAN :
          LET score == IF failed THEN 100 ELSE ScoreOf(Policy, req[s].call, bumped)
              threshold == threshold_outcome(score)
              r == RetainIf(ViolatesRisk(req[s].grant, score), req[s], "DENY_ABAC")
              cleared == threshold = "CHALLENGE" /\ r.verified
          IN  Goto(s, RetainIf(threshold # "ALLOW" /\ ~cleared, r, threshold), "schema")
    BY DEF Assess
  <1> DEFINE score == IF failed THEN 100 ELSE ScoreOf(Policy, req[s].call, bumped)
             threshold == threshold_outcome(score)
             violates == ViolatesRisk(req[s].grant, score)
             r == RetainIf(violates, req[s], "DENY_ABAC")
             objects == threshold # "ALLOW" /\ ~(threshold = "CHALLENGE" /\ r.verified)
             q == RetainIf(objects, r, threshold)
  <1>5. Goto(s, q, "schema")
    BY <1>4
  <1>6. /\ Kept(req[s], req[s]) /\ req[s].call \in Request /\ engine \in 1..engine
        /\ Policy \in IdentityPolicy
    BY <1>1, CallKept
  <1>7. threshold \in Events
    <2>1. Outcomes \subseteq Events
      BY DEF Outcomes, Events
    <2>2. CASE failed
      <3>1. 100 \in 0..100 /\ score = 100
        BY <2>2
      <3> QED  BY <2>1, <3>1, Bands
    <2>3. CASE ~failed
      <3>1. bumped \in Nat /\ Counters
        BY <1>6 DEF RecordInv, Counters, Request
      <3> HIDE DEF bumped
      <3> QED  BY <1>6, <2>1, <2>3, <3>1, ScoreCovers
    <2> QED  BY <2>2, <2>3
  <1>8. violates \in BOOLEAN /\ "DENY_ABAC" \in Events
    BY DEF ViolatesRisk, Events
  <1>9. objects \in BOOLEAN
    OBVIOUS
  <1> HIDE DEF threshold, violates
  <1>10. Kept(req[s], r)
    BY <1>6, <1>8, RetainedKept
  <1> HIDE DEF r, objects
  <1>11. Kept(req[s], q)
    <2>1. Kept(r, r)
      BY <1>10 DEF Kept
    <2>2. Kept(r, q)
      BY <1>6, <1>7, <1>9, <2>1, RetainedKept
    <2> QED  BY <1>10, <2>2 DEF Kept
  <1> HIDE DEF q
  <1>12. "schema" \in (Undone \ {"judge", "put"}) \cup {"emit"} /\ "schema" # "emit"
    BY DEF Undone, AtDrift, AtProof, AtScore, AtSchema
  <1> QED  BY <1>1, <1>3, <1>5, <1>11, <1>12, TrailKept

LEMMA TrailValidate ==
  ASSUME RecordInv, NEW s \in Sessions, at[s] \in AtSchema,
         NEW list \in {NoList} \cup DOMAIN Lists, Validate(s, list),
         UNCHANGED <<mode, engine, requests, ledger>>
  PROVE  Pumps' /\ OwnRows' /\ CallsRecorded'
  <1> DEFINE r == [req[s] EXCEPT !.list = list]
             objects == ~Validates(req[s].call, list)
             r1 == RetainIf(objects, r, "DENY_VALIDATION")
             q == RetainIf(TRUE, r1, "ALLOW")
  <1>1. Goto(s, q, "emit")
    BY DEF Validate, RetainIf
  <1>2. at[s] \in Undone /\ at[s] # "idle" /\ {"DENY_VALIDATION", "ALLOW"} \subseteq Events
        /\ "emit" \in (Undone \ {"judge", "put"}) \cup {"emit"}
    BY DEF Undone, AtDrift, AtProof, AtScore, AtSchema, Events
  <1>3. Kept(req[s], req[s]) /\ engine \in 1..engine
    BY <1>2, CallKept
  <1>4. Kept(r, r) /\ r.list = list /\ r.id = req[s].id /\ r.call = req[s].call
    BY <1>3 DEF Kept, ReqFields
  <1>5. objects \in BOOLEAN
    OBVIOUS
  <1> HIDE DEF r, objects
  <1>6. Kept(r, r1)
    BY <1>2, <1>3, <1>4, <1>5, RetainedKept
  <1> HIDE DEF r1
  <1>7. Kept(r1, q) /\ q.terminal # Undecided
    <2>1. Kept(r1, r1)
      BY <1>6 DEF Kept
    <2> QED  BY <1>2, <1>3, <2>1, RetainedKept
  <1> HIDE DEF q
  <1>8. /\ DOMAIN q = ReqFields /\ q.id = req[s].id /\ q.call = req[s].call
        /\ q.list \in {NoList} \cup DOMAIN Lists /\ Verdict(q.terminal)
    BY <1>4, <1>6, <1>7 DEF Kept
  <1> QED  BY <1>1, <1>2, <1>7, <1>8, TrailGoes

(* The schema of a call: read, fetched or not to be had.                   *)
LEMMA TrailSchema ==
  ASSUME RecordInv, NEW s \in Sessions,
         \/ ReadCache(s) \/ Fetched(s) \/ PutFetched(s) \/ FetchTimesOut(s) \/ FetchFails(s)
  PROVE  Pumps' /\ OwnRows' /\ CallsRecorded'
  <1>1. UNCHANGED <<mode, engine, requests, ledger>> /\ at[s] \in AtSchema
    BY DEF ReadCache, Fetched, PutFetched, FetchTimesOut, FetchFails, NotedOrNot, ClientPump,
           shared, AtSchema
  <1>2. at[s] # "idle" /\ at[s] \in Undone
    BY <1>1 DEF Undone, AtDrift, AtProof, AtScore, AtSchema
  <1>3. Recorded(req[s], at[s], ledger, engine, requests, mode)
    BY <1>2, CallKept
  <1>4. CASE ReadCache(s)
    <2>1. CASE Validate(s, cache)
      BY <1>1, <2>1, TrailValidate DEF RecordInv, Baselines
    <2>2. CASE at' = [at EXCEPT ![s] = "fetch"] /\ UNCHANGED req
      <3>1. "fetch" \in Stages /\ "fetch" \in Undone /\ req' = [req EXCEPT ![s] = req[s]]
        BY <2>2 DEF Stages, Undone, AtDrift, AtProof, AtScore, AtSchema, RecordInv, Pumps
      <3>2. Recorded(req[s], "fetch", ledger, engine, requests, mode)
        BY <1>2, <1>3, <3>1 DEF Recorded
      <3> QED  BY <1>1, <1>2, <2>2, <3>1, <3>2, TrailMoves
    <2> QED  BY <1>4, <2>1, <2>2 DEF ReadCache
  <1>5. CASE Fetched(s)
    <2> DEFINE q == [req[s] EXCEPT !.list = upstream]
    <2>1. /\ req' = [req EXCEPT ![s] = q] /\ at' = [at EXCEPT ![s] = "judge"]
          /\ "judge" \in Stages /\ "judge" \in Undone /\ upstream \in DOMAIN Lists
      BY <1>5 DEF Fetched, Stages, Undone, AtDrift, AtProof, AtScore, AtSchema, RecordInv, Baselines
    <2>2. /\ DOMAIN q = ReqFields /\ q.list = upstream
          /\ q.id = req[s].id /\ q.call = req[s].call /\ q.terminal = req[s].terminal
      BY <1>3 DEF Recorded, ReqFields
    <2> HIDE DEF q
    <2>3. Recorded(q, "judge", ledger, engine, requests, mode)
      BY <1>2, <1>3, <2>1, <2>2 DEF Recorded, RowOf
    <2> QED  BY <1>1, <1>2, <2>1, <2>2, <2>3, TrailMoves
  <1>6. CASE PutFetched(s)
    <2>1. Validate(s, req[s].list) /\ req[s].list \in {NoList} \cup DOMAIN Lists
      BY <1>3, <1>6 DEF PutFetched, Recorded
    <2> QED  BY <1>1, <2>1, TrailValidate
  <1>7. CASE FetchTimesOut(s) \/ FetchFails(s)
    <2>1. Validate(s, NoList)
      BY <1>7 DEF FetchTimesOut, FetchFails
    <2> QED  BY <1>1, <2>1, TrailValidate
  <1> QED  BY <1>4, <1>5, <1>6, <1>7

(* A drift check or an approval of a tool.                                 *)
LEMMA TrailReopened ==
  ASSUME RecordInv, UNCHANGED <<mode, engine, requests, ledger>>, req' = Reopened,
         \/ UNCHANGED at
         \/ \E s \in Sessions : at[s] = "judge" /\ at' = [at EXCEPT ![s] = "put"]
  PROVE  Pumps' /\ OwnRows' /\ CallsRecorded'
  <1>1. Pumps' /\ \A s \in Sessions : at'[s] = at[s] \/ (at[s] = "judge" /\ at'[s] = "put")
    BY DEF RecordInv, Pumps, Reopened, Stages
  <1>2. ASSUME NEW s \in Sessions, at'[s] # "idle"
        PROVE  /\ at[s] # "idle" /\ req'[s].id = req[s].id
               /\ Recorded(req'[s], at'[s], ledger, engine, requests, mode)
    <2>1. at[s] # "idle"
      BY <1>1, <1>2
    <2>2. Recorded(req[s], at[s], ledger, engine, requests, mode)
      BY <2>1, CallKept
    <2>3. Recorded(req[s], at'[s], ledger, engine, requests, mode)
      <3>1. {"judge", "put"} \subseteq Undone
        BY DEF Undone, AtDrift, AtProof, AtScore, AtSchema
      <3> QED  BY <1>1, <2>2, <3>1 DEF Recorded
    <2>4. req'[s] = req[s] \/ req'[s] = [req[s] EXCEPT !.open = TRUE]
      BY DEF Reopened
    <2>5. /\ DOMAIN req'[s] = ReqFields /\ req'[s].id = req[s].id /\ req'[s].call = req[s].call
          /\ req'[s].list = req[s].list /\ req'[s].terminal = req[s].terminal
      BY <2>2, <2>4 DEF Recorded, ReqFields
    <2> QED  BY <2>1, <2>3, <2>5 DEF Recorded, RowOf
  <1>3. \A s \in Sessions : at'[s] = "idle" => req'[s].id = 0
    BY <1>1 DEF RecordInv, OwnRows, Reopened
  <1>4. OwnRows'
    BY <1>2, <1>3 DEF RecordInv, OwnRows
  <1>5. CallsRecorded'
    BY <1>2 DEF CallsRecorded
  <1> QED  BY <1>1, <1>4, <1>5

LEMMA CheckedTypes ==
  ASSUME RecordInv, NEW i \in DOMAIN Lists, Checked(Lists[i])
  PROVE  /\ baseline' \in [Tools -> [approved : Schemas \cup {None}, observed : Schemas \cup {None}]]
         /\ blocked' \subseteq Tools
  <1>1. \A t \in DOMAIN Lists[i] : Lists[i][t] \in Schemas
    BY DEF Schemas
  <1>2. blocked' \subseteq Tools
    BY DEF Checked
  <1>3. baseline \in [Tools -> [approved : Schemas \cup {None}, observed : Schemas \cup {None}]]
    BY DEF RecordInv, Baselines
  <1> HIDE DEF Schemas
  <1>4. ASSUME NEW t \in Tools
        PROVE  (IF Drifted(Lists[i], t)
                  THEN [baseline[t] EXCEPT !.observed = Lists[i][t]]
                  ELSE IF t \in DOMAIN Lists[i]
                         THEN [approved |-> Lists[i][t], observed |-> None] ELSE baseline[t])
               \in [approved : Schemas \cup {None}, observed : Schemas \cup {None}]
    <2>1. baseline[t] \in [approved : Schemas \cup {None}, observed : Schemas \cup {None}]
      BY <1>3
    <2>2. t \in DOMAIN Lists[i] => Lists[i][t] \in Schemas
      BY <1>1
    <2> QED  BY <2>1, <2>2 DEF Drifted
  <1> QED  BY <1>2, <1>4 DEF Checked


(* The audit writer: it leaves another row of this call or none at all,    *)
(* and what follows depends on which.                                      *)
LEMMA TrailRow ==
  ASSUME RecordInv, NEW s \in Sessions, at[s] = "write", UNCHANGED <<mode, engine, requests>>,
         ledger' \in {ledger, ledger \cup {Row(s)}},
         NEW stage \in Closing, Stage(s, stage),
         stage \in {"register", "forward"} => Row(s) \in ledger',
         stage = "register" =>
           mode = "enforce" /\ Event(s) \in {"CHALLENGE", "HUMAN_APPROVAL_REQUIRED"},
         stage = "forward" => mode = "observe" \/ Event(s) = "ALLOW",
         stage = "denied" => /\ mode = "enforce" /\ Event(s) # "ALLOW"
                             /\ Row(s) \in ledger' \/ Denies(Event(s)),
         stage = "unavailable" => mode = "observe" \/ ~Denies(Event(s))
  PROVE  Pumps' /\ OwnRows' /\ CallsRecorded'
  <1> DEFINE row == Row(s)
  <1>1. Recorded(req[s], "write", ledger, engine, requests, mode) /\ at[s] # "idle"
    BY CallKept
  <1>2. /\ Event(s) \in Events /\ Event(s) = req[s].terminal.event
        /\ req[s].terminal.version \in 1..engine
    BY <1>1 DEF Recorded, Event, Undone, AtDrift, AtProof, AtScore, AtSchema
  <1>3. /\ row.id = req[s].id /\ row.event = Event(s) /\ row.version = engine
        /\ row \in [id : 1..requests, call : Calls, mode : {mode},
                    event : Events, version : DOMAIN Policies]
    BY <1>1, <1>2 DEF Row, Recorded, RecordInv, Settings
  <1> HIDE DEF row
  <1>4. Pumps' /\ req' = req /\ at' = [at EXCEPT ![s] = stage]
    BY DEF RecordInv, Pumps, Stage, Closing, Stages
  <1>5. \A t \in Sessions : IF t = s THEN at'[t] = stage ELSE at'[t] = at[t]
    BY <1>4 DEF RecordInv, Pumps
  <1>6. OwnRows'
    <2>1. stage # "idle"
      BY DEF Closing
    <2>2. \A t \in Sessions : at'[t] = "idle" <=> at[t] = "idle"
      BY <1>1, <1>5, <2>1
    <2>3. ledger' \subseteq [id : 1..requests, call : Calls, mode : {mode},
                            event : Events, version : DOMAIN Policies]
      BY <1>3 DEF RecordInv, OwnRows, row
    <2> QED  BY <1>4, <2>2, <2>3 DEF RecordInv, OwnRows
  <1>7. ASSUME NEW t \in Sessions, at'[t] # "idle"
        PROVE  Recorded(req'[t], at'[t], ledger', engine', requests', mode')
    <2>1. CASE t = s
      <3>1. stage \notin Undone \cup {"emit", "judge", "put"}
        BY DEF Closing, Undone, AtDrift, AtProof, AtScore, AtSchema
      <3>2. \A r \in ledger' : r.id = req[s].id =>
              r = row \/ (r.event = Event(s) /\ r.version >= req[s].terminal.version)
        BY <1>1, <1>2, <1>3 DEF Recorded, row
      <3>3. row \in ledger' => RowOf(req[s], ledger')
        BY <1>3 DEF RowOf
      <3>4. row.version >= req[s].terminal.version
        BY <1>2, <1>3, Engines DEF RecordInv, Settings
      <3> QED  BY <1>1, <1>2, <1>3, <1>4, <1>5, <2>1, <3>1, <3>2, <3>3, <3>4
                  DEF Recorded, row
    <2>2. CASE t # s
      <3>1. at[t] # "idle" /\ req[t].id # req[s].id
        BY <1>1, <1>5, <1>7, <2>2 DEF RecordInv, OwnRows
      <3>2. Recorded(req[t], at[t], ledger, engine, requests, mode)
        BY <3>1, CallKept
      <3>3. \A r \in ledger' : r.id = req[t].id => r \in ledger
        BY <1>3, <3>1 DEF row
      <3>4. ledger \subseteq ledger' /\ (RowOf(req[t], ledger') <=> RowOf(req[t], ledger))
        BY <3>3 DEF RowOf
      <3> QED  BY <1>4, <1>5, <2>2, <3>2, <3>3, <3>4 DEF Recorded
    <2> QED  BY <2>1, <2>2
  <1> QED  BY <1>4, <1>6, <1>7 DEF CallsRecorded

LEMMA TrailRecord ==
  ASSUME RecordInv, NEW s \in Sessions,
         \/ Emit(s) \/ Write(s) \/ WriteRepeats(s) \/ WriteFails(s) \/ Register(s)
         \/ Conclude(s)
  PROVE  Counters' /\ Pumps' /\ OwnRows' /\ CallsRecorded'
  <1>1. UNCHANGED <<mode, engine, requests, frequency, drifts, decay>>
    BY DEF Emit, Write, WriteRepeats, WriteFails, Register, Conclude, ClientPump, shared
  <1>2. ASSUME UNCHANGED denials  PROVE Counters'
    BY <1>1, <1>2 DEF RecordInv, Counters
  <1>3. CASE Emit(s)
    <2>1. /\ at[s] = "emit" /\ Stage(s, "write") /\ UNCHANGED ledger
          /\ denials' \in {denials, denials + 1, denials + 0}
      BY <1>3 DEF Emit
    <2>2. Counters'
      BY <1>1, <2>1 DEF RecordInv, Counters
    <2>3. Recorded(req[s], "write", ledger, engine, requests, mode)
      BY <2>1, CallKept DEF Recorded, Undone, AtDrift, AtProof, AtScore, AtSchema
    <2>4. /\ req' = [req EXCEPT ![s] = req[s]] /\ at' = [at EXCEPT ![s] = "write"]
          /\ "write" \in Stages
      BY <2>1 DEF Stage, RecordInv, Pumps, Stages
    <2> QED  BY <1>1, <2>1, <2>2, <2>3, <2>4, TrailMoves
  <1>4. CASE Write(s)
    <2> DEFINE stage == IF Registers(s) THEN "register" ELSE Outcome(s)
    <2>1. /\ at[s] = "write" /\ Stage(s, stage) /\ UNCHANGED denials
          /\ ledger' = ledger \cup {Row(s)}
      BY <1>4 DEF Write, shared
    <2>2. /\ stage \in Closing
          /\ stage = "register" =>
               mode = "enforce" /\ Event(s) \in {"CHALLENGE", "HUMAN_APPROVAL_REQUIRED"}
          /\ stage = "forward" => mode = "observe" \/ Event(s) = "ALLOW"
          /\ stage = "denied" => mode = "enforce" /\ Event(s) # "ALLOW"
          /\ stage # "unavailable"
      BY DEF Closing, Registers, Outcome, RecordInv, Settings
    <2> HIDE DEF stage
    <2> QED  BY <1>1, <1>2, <2>1, <2>2, TrailRow
  <1>5. CASE WriteFails(s)
    <2> DEFINE stage == IF mode = "enforce" /\ Denies(Event(s)) THEN "denied" ELSE "unavailable"
    <2>1. /\ at[s] = "write" /\ Stage(s, stage) /\ UNCHANGED denials
          /\ ledger' \in {ledger, ledger \cup {Row(s)}}
      BY <1>5 DEF WriteFails, shared
    <2>2. /\ stage \in Closing /\ stage \notin {"register", "forward"}
          /\ stage = "denied" => mode = "enforce" /\ Event(s) # "ALLOW" /\ Denies(Event(s))
          /\ stage = "unavailable" => mode = "observe" \/ ~Denies(Event(s))
      BY DEF Closing, Denies, RecordInv, Settings
    <2> HIDE DEF stage
    <2> QED  BY <1>1, <1>2, <2>1, <2>2, TrailRow
  <1>6. CASE Register(s)
    <2>1. PICK failed \in BOOLEAN : Stage(s, IF failed THEN "unavailable" ELSE Outcome(s))
      BY <1>6 DEF Register
    <2> DEFINE stage == IF failed THEN "unavailable" ELSE Outcome(s)
    <2>2. at[s] = "register" /\ UNCHANGED <<denials, ledger>>
      BY <1>6 DEF Register, shared
    <2>3. Recorded(req[s], "register", ledger, engine, requests, mode)
      BY <2>2, CallKept
    <2>4. stage \in {"denied", "unavailable"}
      BY <2>3 DEF Recorded, Outcome, Event
    <2>5. Recorded(req[s], stage, ledger, engine, requests, mode)
      BY <2>3, <2>4 DEF Recorded, Denies, Undone, AtDrift, AtProof, AtScore, AtSchema
    <2>6. /\ req' = [req EXCEPT ![s] = req[s]] /\ at' = [at EXCEPT ![s] = stage]
          /\ stage \in Stages /\ stage # "idle"
      BY <2>1, <2>4 DEF Stage, RecordInv, Pumps, Stages
    <2> HIDE DEF stage
    <2> QED  BY <1>1, <1>2, <2>2, <2>5, <2>6, TrailMoves
  <1>7. CASE Conclude(s)
    <2>1. /\ at[s] # "idle" /\ "idle" \in Stages /\ UNCHANGED <<denials, ledger>>
          /\ req' = [req EXCEPT ![s] = NoRequest] /\ at' = [at EXCEPT ![s] = "idle"]
          /\ NoRequest.id = 0
      BY <1>7 DEF Conclude, shared, Stages, NoRequest
    <2> QED  BY <1>1, <1>2, <2>1, TrailMoves
  <1>8. CASE WriteRepeats(s)
    <2>1. /\ at[s] = "write" /\ Stage(s, "write") /\ UNCHANGED denials
          /\ ledger' = ledger \cup {Row(s)}
      BY <1>8 DEF WriteRepeats, shared, Stage, RecordInv, Pumps
    <2>2. "write" \in Closing
      BY DEF Closing
    <2> QED  BY <1>1, <1>2, <2>1, <2>2, TrailRow
  <1> QED  BY <1>3, <1>4, <1>5, <1>6, <1>7, <1>8

(* A new call has a number no other call and no row has.                   *)
LEMMA TrailReceive ==
  ASSUME RecordInv, NEW s \in Sessions, NEW c \in Calls, Receive(s, c)
  PROVE  Pumps' /\ OwnRows' /\ CallsRecorded'
  <1> DEFINE q(open, foreseen, alone, since) ==
               [id |-> requests + 1, call |-> c, terminal |-> Undecided, grant |-> {},
                verified |-> FALSE, list |-> NoList, from |-> engine, open |-> open,
                foreseen |-> foreseen, alone |-> alone, since |-> since]
  <1>1. UNCHANGED <<mode, engine, ledger>> /\ requests' = requests + 1 /\ requests \in Nat
    BY BoundAssumption DEF Receive, shared, RecordInv, Bounded
  <1>2. PICK foreseen, alone, since :
          Goto(s, q(c.tool \notin blocked, foreseen, alone, since), "start")
    BY DEF Receive
  <1> DEFINE r == q(c.tool \notin blocked, foreseen, alone, since)
  <1>3. /\ DOMAIN r = ReqFields /\ r.id = requests + 1 /\ r.call = c
        /\ r.terminal = Undecided /\ r.list = NoList
    BY DEF ReqFields
  <1>4. Goto(s, r, "start")
    BY <1>2
  <1> HIDE DEF r
  <1>5. req' = [req EXCEPT ![s] = r] /\ at' = [at EXCEPT ![s] = "start"]
    BY <1>3, <1>4 DEF Goto
  <1>6. /\ Pumps'
        /\ \A t \in Sessions : /\ t # s => at'[t] = at[t] /\ req'[t] = req[t]
                               /\ t = s => at'[t] = "start" /\ req'[t] = r
    BY <1>5 DEF RecordInv, Pumps, Stages
  <1>7. \A t \in Sessions : at[t] # "idle" =>
          /\ Recorded(req[t], at[t], ledger, engine, requests, mode)
          /\ req[t].id \in 1..requests /\ req[t].id # r.id
    BY <1>1, <1>3, CallKept DEF Recorded
  <1>8. \A row \in ledger : row.id \in 1..requests /\ row.id # r.id
    BY <1>1, <1>3 DEF RecordInv, OwnRows
  <1>9. OwnRows'
    <2>1. ledger' \subseteq [id : 1..requests', call : Calls, mode : {mode'},
                            event : Events, version : DOMAIN Policies]
      BY <1>1, <1>8 DEF RecordInv, OwnRows
    <2> QED  BY <1>6, <1>7, <2>1 DEF RecordInv, OwnRows
  <1>10. ASSUME NEW t \in Sessions, at'[t] # "idle"
         PROVE  Recorded(req'[t], at'[t], ledger', engine', requests', mode')
    <2>1. CASE t = s
      <3>1. ~RowOf(r, ledger) /\ "start" \in Undone /\ r.id \in 1..requests'
        BY <1>1, <1>3, <1>8 DEF RowOf, Undone
      <3> QED  BY <1>1, <1>3, <1>6, <2>1, <3>1 DEF Recorded, RowOf
    <2>2. CASE t # s
      <3>1. Recorded(req[t], at[t], ledger, engine, requests, mode)
            /\ req[t].id \in 1..requests'
        BY <1>1, <1>6, <1>7, <1>10, <2>2
      <3> QED  BY <1>1, <1>6, <2>2, <3>1 DEF Recorded
    <2> QED  BY <2>1, <2>2
  <1> QED  BY <1>6, <1>9, <1>10 DEF CallsRecorded


LEMMA RecordStep ==
  RecordInv /\ [Next]_vars => RecordInv'
  <1> SUFFICES ASSUME RecordInv, [Next]_vars  PROVE RecordInv'
    OBVIOUS
  <1> USE DEF RecordInv
  <1> DEFINE Trail == Pumps /\ OwnRows /\ CallsRecorded
  <1>a. ASSUME UNCHANGED <<mode, engine>>  PROVE Settings'
    BY <1>a DEF Settings
  <1>b. ASSUME UNCHANGED <<frequency, denials, decay>>,
               drifts' = drifts \/ \E list : drifts' = Noted(list)
        PROVE  Counters'
    <2>1. drifts' \in [Tools -> Nat]
      BY <1>b, NotedCounts DEF Counters
    <2> QED  BY <1>b, <2>1 DEF Counters
  <1>c. ASSUME UNCHANGED <<upstream, cache, baseline, blocked>>  PROVE Baselines'
    BY <1>c DEF Baselines
  <1>d. ASSUME UNCHANGED listing  PROVE Listings'
    BY <1>d DEF Listings
  <1>e. ASSUME UNCHANGED requests, UNCHANGED disturbances \/ Disturb  PROVE Bounded'
    BY <1>e, BoundAssumption DEF Bounded, Disturb
  <1>f. ASSUME UNCHANGED <<mode, engine, ledger, at, req, requests>>  PROVE Trail'
    BY <1>f DEF Pumps, OwnRows, CallsRecorded
  <1>g. \A failed : Raises(failed) => UNCHANGED disturbances \/ Disturb
    BY DEF Raises
  <1> HIDE DEF Trail
  <1>1. ASSUME NEW s \in Sessions, NEW c \in Calls, Receive(s, c)  PROVE RecordInv'
    <2>1. /\ UNCHANGED <<mode, engine, frequency, denials, drifts, decay, upstream, cache, baseline,
                         blocked, listing, disturbances>>
          /\ requests' = requests + 1 /\ requests < MaxRequests
      BY <1>1 DEF Receive, shared
    <2>2. Bounded'
      BY <2>1, BoundAssumption DEF Bounded
    <2> QED  BY <1>1, <1>a, <1>b, <1>c, <1>d, <2>1, <2>2, TrailReceive
  <1>2. ASSUME NEW s \in Sessions, Initialize(s) \/ RequestList(s)  PROVE RecordInv'
    <2>1. /\ UNCHANGED <<mode, engine, frequency, denials, drifts, decay, upstream, baseline,
                         blocked, disturbances, ledger, at, req>>
          /\ requests' = requests + 1 /\ requests < MaxRequests
          /\ cache' \in {cache, NoList}
          /\ listing' \in {listing, [listing EXCEPT ![s].at = "sent"]}
      BY <1>2 DEF Initialize, RequestList, shared
    <2>2. Bounded'
      BY <2>1, BoundAssumption DEF Bounded
    <2>3. Baselines' /\ Listings'
      BY <2>1 DEF Baselines, Listings
    <2>4. Pumps'
      BY <2>1 DEF Pumps
    <2>5. requests \in Nat /\ 1..requests \subseteq 1..requests'
      BY <2>1, BoundAssumption DEF Bounded
    <2>6. OwnRows'
      BY <2>1, <2>5 DEF OwnRows
    <2>7. CallsRecorded'
      BY <2>1, <2>5 DEF CallsRecorded, Recorded
    <2> QED  BY <1>a, <1>b, <2>1, <2>2, <2>3, <2>4, <2>6, <2>7
  <1>3. ASSUME NEW s \in Sessions, Start(s) \/ Replay(s) \/ Drift(s) \/ Proof(s) \/ Approval(s)
        PROVE  RecordInv'
    <2>1. UNCHANGED <<mode, engine, frequency, denials, drifts, decay, upstream, cache, baseline,
                      blocked, listing, requests>>
      BY <1>3 DEF Start, Replay, Drift, Proof, Approval, ClientPump, shared
    <2>2. UNCHANGED disturbances \/ Disturb
      BY <1>3, <1>g DEF Start, Replay, Drift, Proof, Approval
    <2> QED  BY <1>3, <1>a, <1>b, <1>c, <1>d, <1>e, <2>1, <2>2, TrailAdmission, TrailStages
  <1>4. ASSUME NEW s \in Sessions, Assess(s)  PROVE RecordInv'
    <2>1. UNCHANGED <<mode, engine, upstream, cache, baseline, blocked, listing, requests>>
      BY <1>4 DEF Assess, ClientPump
    <2>2. UNCHANGED disturbances \/ Disturb
      BY <1>4, <1>g DEF Assess
    <2> QED  BY <1>4, <1>a, <1>c, <1>d, <1>e, <2>1, <2>2, TrailAssess
  <1>5. ASSUME NEW s \in Sessions,
               \/ ReadCache(s) \/ Fetched(s) \/ PutFetched(s) \/ FetchTimesOut(s) \/ FetchFails(s)
        PROVE  RecordInv'
    <2>1. UNCHANGED <<mode, engine, frequency, denials, decay, upstream, baseline,
                      blocked, listing, requests>>
      BY <1>5 DEF ReadCache, Fetched, PutFetched, FetchTimesOut, FetchFails, NotedOrNot,
                  ClientPump, shared
    <2>5. drifts' = drifts \/ \E list : drifts' = Noted(list)
      BY <1>5 DEF ReadCache, Fetched, PutFetched, FetchTimesOut, FetchFails, NotedOrNot, shared
    <2>2. UNCHANGED disturbances \/ Disturb
      BY <1>5, <1>g DEF ReadCache, Fetched, PutFetched, FetchTimesOut, FetchFails
    <2>3. cache' = cache \/ cache' \in DOMAIN Lists
      <3>1. CASE PutFetched(s)
        <4>1. at[s] = "put" /\ cache' = req[s].list
          BY <3>1 DEF PutFetched
        <4> QED  BY <4>1, CallKept DEF Recorded
      <3>2. CASE ReadCache(s) \/ Fetched(s) \/ FetchTimesOut(s) \/ FetchFails(s)
        BY <3>2 DEF ReadCache, Fetched, FetchTimesOut, FetchFails, NotedOrNot, shared
      <3> QED  BY <1>5, <3>1, <3>2
    <2>4. Baselines'
      BY <2>1, <2>3 DEF Baselines
    <2> QED  BY <1>5, <1>a, <1>b, <1>d, <1>e, <2>1, <2>2, <2>4, <2>5, TrailSchema
  <1>6. ASSUME NEW s \in Sessions, JudgeFetched(s)  PROVE RecordInv'
    <2>1. /\ UNCHANGED <<mode, engine, frequency, denials, decay, upstream, cache, listing,
                         requests, disturbances, ledger>>
          /\ drifts' = Noted(Lists[req[s].list])
          /\ at[s] = "judge" /\ at' = [at EXCEPT ![s] = "put"]
          /\ Checked(Lists[req[s].list]) /\ req' = Reopened
      BY <1>6 DEF JudgeFetched, Checked, ClientPump
    <2>2. req[s].list \in DOMAIN Lists
      BY <2>1, CallKept DEF Recorded
    <2>3. Baselines'
      BY <2>1, <2>2, CheckedTypes DEF Baselines
    <2>4. Trail'
      BY <2>1, TrailReopened DEF Trail
    <2> QED  BY <1>a, <1>b, <1>d, <1>e, <2>1, <2>3, <2>4 DEF Trail
  <1>7. ASSUME NEW s \in Sessions,
               \/ Emit(s) \/ Write(s) \/ WriteRepeats(s) \/ WriteFails(s) \/ Register(s)
               \/ Conclude(s)
        PROVE  RecordInv'
    <2>1. UNCHANGED <<mode, engine, upstream, cache, baseline, blocked, listing, requests>>
      BY <1>7 DEF Emit, Write, WriteRepeats, WriteFails, Register, Conclude, ClientPump, shared
    <2>2. UNCHANGED disturbances \/ Disturb
      BY <1>7, <1>g DEF Emit, Write, WriteRepeats, WriteFails, Register, Conclude
    <2> QED  BY <1>7, <1>a, <1>c, <1>d, <1>e, <2>1, <2>2, TrailRecord
  <1>8. ASSUME NEW s \in Sessions, AnswerList(s) \/ PutList(s) \/ ServeList(s) \/ ListFails(s)
        PROVE  RecordInv'
    <2>1. /\ UNCHANGED <<mode, engine, frequency, denials, decay, upstream, baseline, blocked,
                         requests, ledger, at, req>>
          /\ UNCHANGED disturbances \/ Disturb
      BY <1>8 DEF AnswerList, PutList, ServeList, ListFails, NotedOrNot, UpstreamPump, shared
    <2>6. drifts' = drifts \/ \E list : drifts' = Noted(list)
      BY <1>8 DEF AnswerList, PutList, ServeList, ListFails, NotedOrNot, shared
    <2>2. cache' = cache \/ (listing[s].at = "put" /\ cache' = listing[s].list)
      BY <1>8 DEF AnswerList, PutList, ServeList, ListFails, NotedOrNot, shared
    <2>3. Baselines'
      BY <2>1, <2>2 DEF Baselines, Listings
    <2>4. listing' \in {[listing EXCEPT ![s] = [at |-> "judge", list |-> upstream]],
                       [listing EXCEPT ![s].at = "record"], [listing EXCEPT ![s] = NoListing]}
      BY <1>8 DEF AnswerList, PutList, ServeList, ListFails, Listing
    <2>5. Listings'
      BY <2>4 DEF Baselines, Listings, NoListing
    <2> QED  BY <1>a, <1>b, <1>e, <1>f, <2>1, <2>3, <2>5, <2>6 DEF Trail
  <1>9. ASSUME NEW s \in Sessions, JudgeList(s)  PROVE RecordInv'
    <2>1. /\ UNCHANGED <<mode, engine, frequency, denials, decay, upstream, cache,
                         requests, disturbances, ledger, at>>
          /\ drifts' = Noted(Lists[listing[s].list])
          /\ listing[s].at = "judge" /\ listing' = [listing EXCEPT ![s].at = "put"]
          /\ Checked(Lists[listing[s].list]) /\ req' = Reopened
      BY <1>9 DEF JudgeList, Checked, Listing
    <2>2. listing[s].list \in DOMAIN Lists
      BY <2>1 DEF Listings
    <2>3. Baselines'
      BY <2>1, <2>2, CheckedTypes DEF Baselines
    <2>4. Listings'
      BY <2>1 DEF Listings
    <2>5. Trail'
      BY <2>1, TrailReopened DEF Trail
    <2> QED  BY <1>a, <1>b, <1>e, <2>1, <2>3, <2>4, <2>5 DEF Trail
  <1>10. ASSUME ActivatePolicy  PROVE RecordInv'
    <2>1. /\ UNCHANGED <<mode, frequency, denials, drifts, decay, upstream, cache, baseline, blocked,
                         listing, requests, ledger, at, req>>
          /\ Disturb /\ engine' = engine + 1 /\ engine < Len(Policies)
      BY <1>10 DEF ActivatePolicy, World
    <2>2. engine \in Nat /\ Settings' /\ 1..engine \subseteq 1..engine'
      BY <2>1, Engines DEF Settings
    <2>3. Trail'
      BY <2>1, <2>2 DEF Trail, Pumps, OwnRows, CallsRecorded, Recorded
    <2> QED  BY <1>b, <1>c, <1>d, <1>e, <2>1, <2>2, <2>3 DEF Trail
  <1>11. ASSUME \/ UpstreamChanges \/ Expire \/ \E t \in Tools : ApproveCall(t)
         PROVE  RecordInv'
    <2>1. /\ UNCHANGED <<mode, engine, baseline, blocked, listing, requests, ledger, at, req>>
          /\ Disturb
      BY <1>11 DEF UpstreamChanges, Expire, ApproveCall, World
    <2>2. Counters'
      <3>1. CASE UpstreamChanges
        BY <1>b, <3>1 DEF UpstreamChanges
      <3>2. CASE Expire
        BY <3>2 DEF Expire, Counters
      <3>3. CASE \E t \in Tools : ApproveCall(t)
        BY <3>3, SettingsAssumption DEF ApproveCall, apply_decay, Counters
      <3> QED  BY <1>11, <3>1, <3>2, <3>3
    <2>3. \/ upstream' = upstream
          \/ upstream < Len(Lists) /\ upstream' = upstream + 1
      BY <1>11 DEF UpstreamChanges, Expire, ApproveCall
    <2>4. cache' \in {cache, NoList}
      BY <1>11 DEF UpstreamChanges, Expire, ApproveCall
    <2>5. Baselines'
      BY <2>1, <2>3, <2>4, DataAssumption DEF Baselines
    <2> QED  BY <1>a, <1>d, <1>e, <1>f, <2>1, <2>2, <2>5 DEF Trail
  <1>12. ASSUME NEW t \in Tools, ApproveTool(t)  PROVE RecordInv'
    <2>1. /\ UNCHANGED <<mode, engine, frequency, denials, drifts, decay, upstream, cache, listing,
                         requests, ledger, at>>
          /\ Disturb /\ req' = Reopened
          /\ blocked' = blocked \ {t}
          /\ baseline' = [baseline EXCEPT ![t] =
                            [approved |-> baseline[t].observed, observed |-> None]]
      BY <1>12 DEF ApproveTool, World
    <2>2. Baselines'
      BY <2>1 DEF Baselines
    <2>3. Trail'
      BY <2>1, TrailReopened DEF Trail
    <2> QED  BY <1>a, <1>b, <1>d, <1>e, <2>1, <2>2, <2>3 DEF Trail
  <1>13. ASSUME UNCHANGED vars  PROVE RecordInv'
    BY <1>13, <1>a, <1>b, <1>c, <1>d, <1>e, <1>f DEF vars, shared, Trail
  <1> QED  BY <1>1, <1>2, <1>3, <1>4, <1>5, <1>6, <1>7, <1>8, <1>9, <1>10, <1>11, <1>12, <1>13
           DEF Next, ClientSends, ClientStep, UpstreamStep

(* No call is under way and no row is written when a gateway starts.       *)
LEMMA RecordInit == Init => RecordInv
  <1> SUFFICES ASSUME Init  PROVE RecordInv
    OBVIOUS
  <1>1. engine \in DOMAIN Policies /\ 1 \in DOMAIN Lists /\ NoList \notin DOMAIN Lists
    BY Engines, DataAssumption DEF Init, NoList
  <1>2. Settings /\ Counters /\ Pumps /\ \A s \in Sessions : at[s] = "idle"
    BY <1>1 DEF Init, Settings, Counters, Pumps, Stages
  <1>3. \A t \in DOMAIN Lists[1] : Lists[1][t] \in Schemas
    BY <1>1 DEF Schemas
  <1>4. Baselines
    BY <1>1, <1>3 DEF Init, Baselines
  <1>5. Listings /\ Bounded /\ ledger = {} /\ \A s \in Sessions : req[s].id = 0
    BY BoundAssumption DEF Init, Listings, NoListing, NoRequest, Bounded
  <1>6. OwnRows /\ CallsRecorded
    BY <1>2, <1>5 DEF OwnRows, CallsRecorded
  <1> QED  BY <1>2, <1>4, <1>5, <1>6 DEF RecordInv

(* DecisionRecorded, "no record, no action": whichever await of a session  *)
(* fails and whatever the other sessions do, no call goes upstream before  *)
(* a row of its decision is committed, and no answer says other than every *)
(* row of that decision does, however often the writer recorded it.        *)
THEOREM CallsAudited == Spec => []DecisionRecorded
  <1>1. Init => RecordInv
    BY RecordInit
  <1>2. RecordInv => DecisionRecorded
    <2> SUFFICES ASSUME RecordInv  PROVE DecisionRecorded
      OBVIOUS
    <2>1. ASSUME NEW s \in Sessions, at[s] # "idle"
          PROVE  /\ Recorded(req[s], at[s], ledger, engine, requests, mode)
                 /\ req[s].id \in 1..requests
                 /\ req[s].terminal = Undecided \/ Event(s) \in Events
      BY <2>1, CallKept DEF Recorded, Event
    <2>2. TypeOK
      <3>1. 1..requests \subseteq 1..MaxRequests
        BY BoundAssumption DEF RecordInv, Bounded
      <3>2. ledger \subseteq [id : 1..MaxRequests, call : Calls, mode : {mode},
                              event : Events, version : DOMAIN Policies]
        BY <3>1 DEF RecordInv, OwnRows
      <3> QED  BY <2>1, <3>2
                  DEF TypeOK, RecordInv, Settings, Counters, Pumps, Baselines, Bounded
    <2>3. ASSUME NEW s \in Sessions
          PROVE  \A row \in Rows(s) :
                   row.event = Event(s) /\ row.version >= req[s].terminal.version
      <3>1. CASE at[s] = "idle"
        BY <3>1 DEF RecordInv, OwnRows, Rows
      <3>2. CASE at[s] # "idle"
        BY <2>1, <3>2 DEF Recorded, Rows, Event
      <3> QED  BY <3>1, <3>2
    <2>4. ASSUME NEW s \in Sessions
          PROVE  /\ at[s] = "forward" => Rows(s) # {} /\ (mode = "observe" \/ Event(s) = "ALLOW")
                 /\ at[s] = "denied" => /\ mode = "enforce" /\ Event(s) # "ALLOW"
                                        /\ Rows(s) # {} \/ Denies(Event(s))
                 /\ at[s] = "unavailable" => mode = "observe" \/ ~Denies(Event(s))
      BY <2>1 DEF Recorded, RowOf, Rows, Event
    <2> QED  BY <2>2, <2>3, <2>4 DEF DecisionRecorded
  <1> QED  BY <1>1, <1>2, RecordStep, PTL DEF Spec

-----------------------------------------------------------------------------
(* The dry run.  The first of its seven stages that raises an event gives  *)
(* the event it predicts.                                                  *)
Predicts(stages, event) ==
  /\ DOMAIN stages = 1..7 /\ stages[7] = {"ALLOW"}
  /\ \A i \in 1..7 : \A e :
       (\A j \in 1..(i - 1) : stages[j] = {}) /\ stages[i] = {e} => event = e

LEMMA Explains ==
  ASSUME NEW policy, NEW c
  PROVE  Predicts(Objections(policy, c, TRUE), explain_call(policy, c, TRUE))
  <1> DEFINE stages == Objections(policy, c, TRUE)
             first == CHOOSE i \in DOMAIN stages :
                        stages[i] # {} /\ \A j \in 1..(i - 1) : stages[j] = {}
  <1>1. DOMAIN stages = 1..7 /\ stages[7] = {"ALLOW"}
    BY DEF Objections
  <1>2. explain_call(policy, c, TRUE) = CHOOSE event \in stages[first] : TRUE
    BY DEF explain_call
  <1> HIDE DEF stages
  <1>3. ASSUME NEW i \in 1..7, NEW e, stages[i] = {e}, \A j \in 1..(i - 1) : stages[j] = {}
        PROVE  explain_call(policy, c, TRUE) = e
    <2>1. first \in 1..7 /\ stages[first] # {} /\ \A j \in 1..(first - 1) : stages[j] = {}
      BY <1>1, <1>3
    <2> HIDE DEF first
    <2>2. first = i
      BY <1>3, <2>1
    <2> QED  BY <1>2, <1>3, <2>2
  <1> QED  BY <1>1, <1>3 DEF Predicts, stages

(* What a call keeps from one end of the pipeline to the other.            *)
Carried(r, q) ==
  /\ DOMAIN q = ReqFields /\ q.id = r.id /\ q.call = r.call
  /\ q.alone = r.alone /\ q.foreseen = r.foreseen /\ q.since = r.since

LEMMA RetainedCarries ==
  ASSUME NEW r, DOMAIN r = ReqFields, NEW event, NEW objects \in BOOLEAN
  PROVE  LET q == RetainIf(objects, r, event)
         IN  /\ Carried(r, q) /\ q.grant = r.grant /\ q.verified = r.verified
             /\ objects /\ r.terminal = Undecided =>
                  q.terminal = [event |-> event, version |-> engine]
             /\ ~objects \/ r.terminal # Undecided => q.terminal = r.terminal
  <1>1. CASE objects /\ r.terminal = Undecided
    <2> DEFINE t == [event |-> event, version |-> engine]
               q == [r EXCEPT !.terminal = t]
    <2>1. RetainIf(objects, r, event) = q
      BY <1>1 DEF RetainIf, Retain
    <2> HIDE DEF t
    <2>2. Carried(r, q) /\ q.grant = r.grant /\ q.verified = r.verified /\ q.terminal = t
      BY DEF Carried, ReqFields
    <2> QED  BY <1>1, <2>1, <2>2 DEF t
  <1>2. CASE ~(objects /\ r.terminal = Undecided)
    <2>1. RetainIf(objects, r, event) = r
      BY <1>2 DEF RetainIf, Retain
    <2> QED  BY <1>2, <2>1 DEF Carried
  <1> QED  BY <1>1, <1>2

(* The request of one session changes, the others stay.                    *)
CallsCarried ==
  \A t \in Sessions :
    /\ at[t] # "idle" /\ at'[t] # "idle" => Carried(req[t], req'[t])
    /\ at[t] = "idle" => at'[t] = "idle"

LEMMA OneCarried ==
  ASSUME RecordInv, NEW s \in Sessions, at[s] # "idle", NEW q, Carried(req[s], q), NEW stage,
         req' = [req EXCEPT ![s] = q], at' = [at EXCEPT ![s] = stage]
  PROVE  CallsCarried
  <1>1. \A t \in Sessions : at[t] # "idle" => DOMAIN req[t] = ReqFields
    BY CallKept DEF Recorded
  <1>2. \A t \in Sessions :
          /\ t # s => at'[t] = at[t] /\ req'[t] = req[t]
          /\ t = s => req'[t] = q
    BY DEF RecordInv, Pumps
  <1> QED  BY <1>1, <1>2 DEF CallsCarried, Carried

LEMMA GoesCarried ==
  ASSUME RecordInv, NEW s \in Sessions, at[s] # "idle", NEW q, NEW stage,
         Carried(req[s], q), Goto(s, q, stage)
  PROVE  CallsCarried
  <1> DEFINE next == IF mode = "enforce" /\ q.terminal # Undecided THEN "emit" ELSE stage
  <1>1. req' = [req EXCEPT ![s] = q] /\ at' = [at EXCEPT ![s] = next]
    BY DEF Goto
  <1> HIDE DEF next
  <1> QED  BY <1>1, OneCarried

LEMMA ObjectedCarried ==
  ASSUME RecordInv, NEW s \in Sessions, at[s] # "idle", NEW objects \in BOOLEAN, NEW event,
         NEW stage, Goto(s, RetainIf(objects, req[s], event), stage)
  PROVE  CallsCarried
  <1> DEFINE q == RetainIf(objects, req[s], event)
  <1>1. Carried(req[s], q) /\ Goto(s, q, stage)
    BY CallKept, RetainedCarries DEF Recorded
  <1> HIDE DEF q
  <1> QED  BY <1>1, GoesCarried

LEMMA AuthorizeCarried ==
  ASSUME RecordInv, NEW s \in Sessions, at[s] # "idle", NEW r, Carried(req[s], r),
         Authorize(s, r)
  PROVE  CallsCarried
  <1> DEFINE grant == matching_grant(Policy, r.call.tool)
             ungranted == grant = {}
             violates == Violates(grant, r.call)
             r1 == RetainIf(ungranted, r, "DENY_RBAC")
             r2 == RetainIf(violates, r1, "DENY_ABAC")
             q == [r2 EXCEPT !.grant = grant]
  <1>1. Goto(s, q, "drift")
    BY DEF Authorize
  <1>2. ungranted \in BOOLEAN /\ violates \in BOOLEAN /\ DOMAIN r = ReqFields
    BY DEF Violates, Carried
  <1> HIDE DEF ungranted, violates
  <1>3. Carried(r, r1)
    BY <1>2, RetainedCarries
  <1> HIDE DEF r1
  <1>4. Carried(r1, r2)
    <2>1. DOMAIN r1 = ReqFields
      BY <1>3 DEF Carried
    <2> QED  BY <1>2, <2>1, RetainedCarries
  <1> HIDE DEF r2, grant
  <1>5. Carried(r2, q)
    BY <1>4 DEF Carried, ReqFields
  <1> HIDE DEF q
  <1>6. Carried(req[s], q)
    BY <1>3, <1>4, <1>5 DEF Carried
  <1> QED  BY <1>1, <1>6, GoesCarried

LEMMA ValidateCarried ==
  ASSUME RecordInv, NEW s \in Sessions, at[s] # "idle", NEW list, Validate(s, list)
  PROVE  CallsCarried
  <1> DEFINE r == [req[s] EXCEPT !.list = list]
             objects == ~Validates(req[s].call, list)
             r1 == RetainIf(objects, r, "DENY_VALIDATION")
             q == RetainIf(TRUE, r1, "ALLOW")
  <1>1. Goto(s, q, "emit")
    BY DEF Validate, RetainIf
  <1>2. Carried(req[s], r) /\ objects \in BOOLEAN
    BY CallKept DEF Recorded, Carried, ReqFields
  <1> HIDE DEF r, objects
  <1>3. Carried(r, r1)
    BY <1>2, RetainedCarries, ZenonT(30) DEF Carried
  <1> HIDE DEF r1
  <1>4. Carried(r1, q)
    <2>1. DOMAIN r1 = ReqFields /\ TRUE \in BOOLEAN
      BY <1>3 DEF Carried
    <2> QED  BY <2>1, RetainedCarries
  <1> HIDE DEF q
  <1>5. Carried(req[s], q)
    BY <1>2, <1>3, <1>4 DEF Carried
  <1> QED  BY <1>1, <1>5, GoesCarried

LEMMA ReopenedCarries ==
  ASSUME RecordInv, req' = Reopened, \A t \in Sessions : at[t] = "idle" <=> at'[t] = "idle"
  PROVE  CallsCarried
  <1> SUFFICES ASSUME NEW t \in Sessions, at[t] # "idle"  PROVE Carried(req[t], req'[t])
    BY DEF CallsCarried
  <1>1. DOMAIN req[t] = ReqFields
    BY CallKept DEF Recorded
  <1>2. req'[t] \in {req[t], [req[t] EXCEPT !.open = TRUE]}
    BY DEF Reopened
  <1> QED  BY <1>1, <1>2 DEF Carried, ReqFields

(* No step but that of a new call gives a session another one.             *)
LEMMA StepCarries ==
  ASSUME RecordInv, [Next]_vars
  PROVE  CallsCarried \/ \E s \in Sessions, c \in Calls : Receive(s, c)
  <1>a. ASSUME UNCHANGED <<at, req>>  PROVE CallsCarried
    BY <1>a, CallKept DEF CallsCarried, Carried, Recorded
  <1>1. ASSUME NEW s \in Sessions, ClientSends(s)
        PROVE  CallsCarried \/ \E c \in Calls : Receive(s, c)
    BY <1>1, <1>a DEF ClientSends, Initialize, RequestList
  <1>2. ASSUME NEW s \in Sessions, ClientStep(s) \/ FetchFails(s) \/ WriteFails(s)
        PROVE  CallsCarried
    <2>1. CASE Start(s)
      <3>1. at[s] # "idle" /\ Carried(req[s], req[s])
        BY <2>1, CallKept DEF Start, Recorded, Carried
      <3> QED  BY <2>1, <3>1, AuthorizeCarried, GoesCarried DEF Start
    <2>2. CASE Replay(s)
      <3>1. PICK failed \in BOOLEAN :
              LET r == RetainIf(failed \/ req[s].call.nonce # "fresh", req[s], "DENY_REPLAY")
              IN  IF mode = "enforce" /\ r.terminal # Undecided
                    THEN Goto(s, r, "emit")
                    ELSE Authorize(s, r)
        BY <2>2 DEF Replay
      <3> DEFINE objects == failed \/ req[s].call.nonce # "fresh"
                 r == RetainIf(objects, req[s], "DENY_REPLAY")
      <3>2. at[s] # "idle" /\ DOMAIN req[s] = ReqFields /\ objects \in BOOLEAN
        BY <2>2, CallKept DEF Replay, Recorded
      <3>3. Goto(s, r, "emit") \/ Authorize(s, r)
        BY <3>1
      <3> HIDE DEF objects
      <3>4. Carried(req[s], r)
        BY <3>2, RetainedCarries
      <3> HIDE DEF r
      <3> QED  BY <3>2, <3>3, <3>4, AuthorizeCarried, GoesCarried
    <2>3. CASE Drift(s)
      <3>1. PICK failed \in BOOLEAN :
              Goto(s, RetainIf(failed \/ req[s].call.tool \in blocked, req[s], "DENY_DRIFT"),
               IF mode = "enforce" /\ req[s].call.proof # None
                 THEN "proof" ELSE Redemption(req[s].call))
        BY <2>3 DEF Drift
      <3>2. at[s] # "idle" /\ (failed \/ req[s].call.tool \in blocked) \in BOOLEAN
        BY <2>3 DEF Drift
      <3> QED  BY <3>1, <3>2, ObjectedCarried
    <2>4. CASE Proof(s)
      <3>1. at[s] # "idle" /\ DOMAIN req[s] = ReqFields
        BY <2>4, CallKept DEF Proof, Recorded
      <3>2. CASE Goto(s, Retain(req[s], "DENY_STEP_UP"), "emit")
        <4>1. Goto(s, RetainIf(TRUE, req[s], "DENY_STEP_UP"), "emit")
          BY <3>2 DEF RetainIf
        <4> QED  BY <3>1, <4>1, ObjectedCarried
      <3>3. CASE Goto(s, [req[s] EXCEPT !.verified = TRUE], Redemption(req[s].call))
        <4> DEFINE q == [req[s] EXCEPT !.verified = TRUE]
        <4>1. Carried(req[s], q)
          BY <3>1 DEF Carried, ReqFields
        <4>2. Goto(s, q, Redemption(req[s].call))
          BY <3>3
        <4> HIDE DEF q
        <4> QED  BY <3>1, <4>1, <4>2, GoesCarried
      <3> QED  BY <2>4, <3>2, <3>3 DEF Proof
    <2>5. CASE Approval(s)
      <3>1. PICK failed \in BOOLEAN :
              Goto(s, RetainIf(failed \/ req[s].call.approval # "good", req[s],
                               "DENY_APPROVAL_MISMATCH"), "schema")
        BY <2>5 DEF Approval
      <3>2. at[s] # "idle" /\ (failed \/ req[s].call.approval # "good") \in BOOLEAN
        BY <2>5 DEF Approval
      <3> QED  BY <3>1, <3>2, ObjectedCarried
    <2>6. CASE Assess(s)
      <3>1. PICK failed \in BOOLEAN :
              LET score == IF failed THEN 100
                             ELSE ScoreOf(Policy, req[s].call, frequency[req[s].call.tool] + 1)
                  threshold == threshold_outcome(score)
                  r == RetainIf(ViolatesRisk(req[s].grant, score), req[s], "DENY_ABAC")
                  cleared == threshold = "CHALLENGE" /\ r.verified
              IN  Goto(s, RetainIf(threshold # "ALLOW" /\ ~cleared, r, threshold), "schema")
        BY <2>6 DEF Assess
      <3> DEFINE score == IF failed THEN 100
                            ELSE ScoreOf(Policy, req[s].call, frequency[req[s].call.tool] + 1)
                 threshold == threshold_outcome(score)
                 violates == ViolatesRisk(req[s].grant, score)
                 r == RetainIf(violates, req[s], "DENY_ABAC")
                 objects == threshold # "ALLOW" /\ ~(threshold = "CHALLENGE" /\ r.verified)
                 q == RetainIf(objects, r, threshold)
      <3>2. at[s] # "idle" /\ DOMAIN req[s] = ReqFields /\ Goto(s, q, "schema")
        BY <2>6, <3>1, CallKept DEF Assess, Recorded
      <3>3. violates \in BOOLEAN /\ objects \in BOOLEAN
        BY DEF ViolatesRisk
      <3> HIDE DEF violates, threshold
      <3>4. Carried(req[s], r)
        BY <3>2, <3>3, RetainedCarries
      <3> HIDE DEF r, objects
      <3>5. Carried(r, q)
        <4>1. DOMAIN r = ReqFields
          BY <3>4 DEF Carried
        <4> QED  BY <3>3, <4>1, RetainedCarries
      <3> HIDE DEF q
      <3>6. Carried(req[s], q)
        BY <3>4, <3>5 DEF Carried
      <3> QED  BY <3>2, <3>6, GoesCarried
    <2>7. CASE ReadCache(s)
      <3>1. at[s] # "idle"
        BY <2>7 DEF ReadCache
      <3>2. CASE at' = [at EXCEPT ![s] = "fetch"] /\ UNCHANGED req
        <4>1. \A t \in Sessions : at[t] = "idle" => at'[t] = "idle"
          BY <3>1, <3>2 DEF RecordInv, Pumps
        <4> QED  BY <3>2, <4>1, CallKept DEF CallsCarried, Carried, Recorded
      <3> QED  BY <2>7, <3>1, <3>2, ValidateCarried DEF ReadCache
    <2>8. CASE JudgeFetched(s)
      <3>1. req' = Reopened /\ at[s] # "idle" /\ at' = [at EXCEPT ![s] = "put"]
        BY <2>8 DEF JudgeFetched, Checked
      <3>2. \A t \in Sessions : at[t] = "idle" <=> at'[t] = "idle"
        BY <3>1 DEF RecordInv, Pumps
      <3> QED  BY <3>1, <3>2, ReopenedCarries
    <2>9. CASE PutFetched(s) \/ FetchTimesOut(s) \/ FetchFails(s)
      <3>1. at[s] # "idle" /\ \E list : Validate(s, list)
        BY <2>9 DEF PutFetched, FetchTimesOut, FetchFails
      <3> QED  BY <3>1, ValidateCarried
    <2>12. CASE WriteRepeats(s)
      BY <2>12, <1>a DEF WriteRepeats
    <2>10. CASE Emit(s) \/ Write(s) \/ WriteFails(s) \/ Register(s)
      <3>1. at[s] # "idle" /\ UNCHANGED req /\ \E stage : at' = [at EXCEPT ![s] = stage]
        BY <2>10 DEF Emit, Write, WriteFails, Register, Stage
      <3>2. \A t \in Sessions : at[t] = "idle" => at'[t] = "idle"
        BY <3>1 DEF RecordInv, Pumps
      <3> QED  BY <3>1, <3>2, CallKept DEF CallsCarried, Carried, Recorded
    <2>11. CASE Conclude(s)
      <3>1. at' = [at EXCEPT ![s] = "idle"] /\ req' = [req EXCEPT ![s] = NoRequest]
        BY <2>11 DEF Conclude
      <3>2. \A t \in Sessions :
              /\ t = s => at'[t] = "idle"
              /\ t # s => at'[t] = at[t] /\ req'[t] = req[t]
        BY <3>1 DEF RecordInv, Pumps
      <3> QED  BY <3>2, CallKept DEF CallsCarried, Carried, Recorded
    <2> QED  BY <1>2, <2>1, <2>2, <2>3, <2>4, <2>5, <2>6, <2>7, <2>8, <2>9, <2>10, <2>11, <2>12
             DEF ClientStep
  <1>3. ASSUME NEW s \in Sessions, UpstreamStep(s) \/ ListFails(s)  PROVE CallsCarried
    <2>1. CASE AnswerList(s) \/ PutList(s) \/ ServeList(s) \/ ListFails(s)
      BY <2>1, <1>a DEF AnswerList, PutList, ServeList, ListFails, UpstreamPump
    <2>2. CASE JudgeList(s)
      BY <2>2, ReopenedCarries DEF JudgeList, Checked
    <2>3. CASE Fetched(s)
      <3> DEFINE q == [req[s] EXCEPT !.list = upstream]
      <3>1. at[s] # "idle" /\ req' = [req EXCEPT ![s] = q] /\ at' = [at EXCEPT ![s] = "judge"]
        BY <2>3 DEF Fetched
      <3>2. Carried(req[s], q)
        BY <3>1, CallKept DEF Recorded, Carried, ReqFields
      <3> HIDE DEF q
      <3> QED  BY <3>1, <3>2, OneCarried
    <2> QED  BY <1>3, <2>1, <2>2, <2>3 DEF UpstreamStep
  <1>4. CASE ActivatePolicy \/ UpstreamChanges \/ Expire \/ \E t \in Tools : ApproveCall(t)
    BY <1>4, <1>a DEF ActivatePolicy, UpstreamChanges, Expire, ApproveCall, World
  <1>5. CASE \E t \in Tools : ApproveTool(t)
    BY <1>5, ReopenedCarries DEF ApproveTool, World
  <1>6. CASE UNCHANGED vars
    BY <1>6, <1>a DEF vars
  <1> QED  BY <1>1, <1>2, <1>3, <1>4, <1>5, <1>6 DEF Next

(* Requests and disturbances are only counted up.                          *)
LEMMA CountedUp ==
  ASSUME RecordInv, [Next]_vars
  PROVE  /\ requests \in Nat /\ disturbances \in Nat
         /\ requests' \in {requests, requests + 1}
         /\ disturbances' \in {disturbances, disturbances + 1}
  <1>1. requests \in Nat /\ disturbances \in Nat
    BY DEF RecordInv, Bounded
  <1>2. ASSUME NEW s \in Sessions, ClientSends(s) \/ ClientStep(s) \/ UpstreamStep(s)
        PROVE  /\ requests' \in {requests, requests + 1}
               /\ disturbances' \in {disturbances, disturbances + 1}
    BY <1>2 DEF ClientSends, ClientStep, UpstreamStep, Receive, Initialize, RequestList,
         Start, Replay, Drift, Proof, Approval, Assess, ReadCache, JudgeFetched, PutFetched,
         FetchTimesOut, Emit, Write, WriteRepeats, Register, Conclude, AnswerList, JudgeList,
         PutList,
         ServeList, Fetched, ClientPump, UpstreamPump, Raises, Disturb
  <1>3. ASSUME NEW s \in Sessions, FetchFails(s) \/ WriteFails(s) \/ ListFails(s)
        PROVE  requests' = requests /\ disturbances' = disturbances + 1
    BY <1>3 DEF FetchFails, WriteFails, ListFails, Disturb, ClientPump, UpstreamPump
  <1>4. ASSUME \/ ActivatePolicy \/ UpstreamChanges \/ Expire
               \/ \E t \in Tools : ApproveTool(t) \/ ApproveCall(t)
        PROVE  requests' = requests /\ disturbances' = disturbances + 1
    BY <1>4 DEF ActivatePolicy, UpstreamChanges, Expire, ApproveTool, ApproveCall, World, Disturb
  <1>5. CASE UNCHANGED vars
    BY <1>1, <1>5 DEF vars, shared
  <1> QED  BY <1>1, <1>2, <1>3, <1>4, <1>5 DEF Next

(* The stages of the dry run that a call has passed where the pipeline     *)
(* takes it up, and the stages after the last of them.                     *)
Passed == [start |-> 0, drift |-> 2, score |-> 3]
Late == {"emit", "write", "register", "forward", "denied", "unavailable"}

(* A call agrees with the prediction up to a stage of the dry run: it has  *)
(* its event, or no stage so far has raised one.                           *)
Agrees(r, stages, n) ==
  /\ r.terminal # Undecided => r.terminal.event = r.foreseen
  /\ r.terminal = Undecided => \A j \in 1..n : stages[j] = {}

(* What is known at a stage a of a call that is alone and undisturbed,     *)
(* under policy p, given what the dry run would now raise.                 *)
Foretold(r, a, p, stages) ==
  /\ r.call.nonce = None /\ r.call.proof = None /\ r.call.approval = None
  /\ p.signed = FALSE /\ r.verified = FALSE
  /\ a \in DOMAIN Passed =>
       Predicts(stages, r.foreseen) /\ Agrees(r, stages, Passed[a])
  /\ a \in {"drift", "score"} => r.grant = matching_grant(p, r.call.tool)
  /\ Agrees(r, stages, 0)
  /\ a = "schema" /\ r.terminal = Undecided =>
       r.foreseen = IF stages[6] = {} THEN "ALLOW" ELSE "DENY_VALIDATION"
  /\ a \in Late => r.terminal # Undecided
  /\ a \in DOMAIN Passed \cup {"schema"} \cup Late

Undisturbed(s) ==
  /\ at[s] # "idle" /\ req[s].alone = TRUE /\ req[s].foreseen # None
  /\ requests = req[s].id /\ disturbances = req[s].since

AlonePumps(s) ==
  /\ \A o \in Sessions \ {s} : at[o] = "idle"
  /\ \A o \in Sessions : listing[o] = NoListing
  /\ cache # NoList

PredictInv ==
  \A s \in Sessions :
    at[s] # "idle" =>
      /\ req[s].since \in 0..disturbances
      /\ Undisturbed(s) =>
           /\ AlonePumps(s)
           /\ Foretold(req[s], at[s], Policy, Objections(Policy, req[s].call, TRUE))

-----------------------------------------------------------------------------
(* The seven stages of the dry run.                                        *)
LEMMA SevenStages ==
  ASSUME NEW p, NEW c
  PROVE  LET stages == Objections(p, c, TRUE)
             grant == matching_grant(p, c.tool)
             score == ScoreOf(p, c, frequency[c.tool] + 1)
             threshold == threshold_outcome(score)
         IN  /\ stages[1] = Raised(grant = {}, "DENY_RBAC")
             /\ stages[2] = Raised(Violates(grant, c), "DENY_ABAC")
             /\ stages[3] = Raised(c.tool \in blocked, "DENY_DRIFT")
             /\ stages[4] = Raised(ViolatesRisk(grant, score), "DENY_ABAC")
             /\ stages[5] = Raised(threshold # "ALLOW", threshold)
             /\ stages[6] = Raised(~Validates(c, cache), "DENY_VALIDATION")
             /\ stages[7] = {"ALLOW"}
  <1> DEFINE threshold == threshold_outcome(ScoreOf(p, c, frequency[c.tool] + 1))
  <1>1. {threshold} \ {"ALLOW"} = Raised(threshold # "ALLOW", threshold)
    <2> HIDE DEF threshold
    <2> QED  BY DEF Raised
  <1>2. Raised(TRUE /\ ~Validates(c, cache), "DENY_VALIDATION")
          = Raised(~Validates(c, cache), "DENY_VALIDATION")
    BY DEF Raised
  <1> QED  BY <1>1, <1>2 DEF Objections

(* A stage that raises what the dry run predicts for it.                   *)
LEMMA Advances ==
  ASSUME NEW r, DOMAIN r = ReqFields, NEW stages, Predicts(stages, r.foreseen),
         NEW k \in 1..7, NEW event, event # None, NEW objects \in BOOLEAN,
         stages[k] = Raised(objects, event), Agrees(r, stages, k - 1)
  PROVE  LET q == RetainIf(objects, r, event)
         IN  /\ Carried(r, q) /\ q.grant = r.grant /\ q.verified = r.verified
             /\ Agrees(q, stages, k) /\ (objects => q.terminal # Undecided)
  <1> DEFINE q == RetainIf(objects, r, event)
             t == [event |-> event, version |-> engine]
  <1>1. /\ Carried(r, q) /\ q.grant = r.grant /\ q.verified = r.verified
        /\ objects /\ r.terminal = Undecided => q.terminal = t
        /\ ~objects \/ r.terminal # Undecided => q.terminal = r.terminal
    BY RetainedCarries
  <1>2. t.event = event /\ t # Undecided
    BY DEF Undecided
  <1> HIDE DEF q, t
  <1>3. q.foreseen = r.foreseen
    BY <1>1 DEF Carried
  <1>4. CASE objects /\ r.terminal = Undecided
    <2>1. r.foreseen = event
      BY <1>4 DEF Predicts, Agrees, Raised
    <2> QED  BY <1>1, <1>2, <1>3, <1>4, <2>1 DEF Agrees, q
  <1>5. CASE ~objects \/ r.terminal # Undecided
    <2>1. ~objects => stages[k] = {}
      BY DEF Raised
    <2>2. \A j \in 1..k : j = k \/ j \in 1..(k - 1)
      OBVIOUS
    <2>3. Agrees(q, stages, k)
      BY <1>1, <1>3, <1>5, <2>1, <2>2 DEF Agrees
    <2> QED  BY <1>1, <1>5, <2>3 DEF q
  <1> QED  BY <1>4, <1>5

(* Goto: the call is where the pipeline left it, or at its end.            *)
LEMMA ForetoldGoes ==
  ASSUME RecordInv, NEW s \in Sessions, NEW q, NEW stage, NEW p, NEW stages,
         Goto(s, q, stage), Foretold(q, stage, p, stages)
  PROVE  Foretold(req'[s], at'[s], p, stages)
  <1>1. req'[s] = q /\ (at'[s] = stage \/ (at'[s] = "emit" /\ q.terminal # Undecided))
    BY DEF Goto, RecordInv, Pumps
  <1>2. q.terminal # Undecided => Foretold(q, "emit", p, stages)
    BY DEF Foretold, Passed, Late
  <1> QED  BY <1>1, <1>2

(* RBAC and the early conditions are the first two stages of the dry run.  *)
LEMMA StartForetold ==
  ASSUME RecordInv, NEW s \in Sessions, Start(s),
         Foretold(req[s], at[s], Policy, Objections(Policy, req[s].call, TRUE))
  PROVE  Foretold(req'[s], at'[s], Policy, Objections(Policy, req[s].call, TRUE))
  <1> DEFINE r == req[s]
             stages == Objections(Policy, r.call, TRUE)
             grant == matching_grant(Policy, r.call.tool)
             ungranted == grant = {}
             violates == Violates(grant, r.call)
             r1 == RetainIf(ungranted, r, "DENY_RBAC")
             r2 == RetainIf(violates, r1, "DENY_ABAC")
             q == [r2 EXCEPT !.grant = grant]
  <1>1. /\ at[s] = "start" /\ Foretold(r, "start", Policy, stages) /\ DOMAIN r = ReqFields
        /\ Policy.signed = FALSE /\ r.call.nonce = None
    BY CallKept DEF Start, Recorded, Foretold
  <1>2. Goto(s, q, "drift")
    BY <1>1 DEF Start, Authorize
  <1>3. /\ stages[1] = Raised(ungranted, "DENY_RBAC")
        /\ stages[2] = Raised(violates, "DENY_ABAC")
        /\ ungranted \in BOOLEAN /\ violates \in BOOLEAN
    BY SevenStages DEF Violates
  <1>4. "DENY_RBAC" # None /\ "DENY_ABAC" # None
    BY DEF None
  <1> HIDE DEF r, stages, grant, ungranted, violates
  <1>5. Predicts(stages, r.foreseen) /\ Agrees(r, stages, 0)
    BY <1>1 DEF Foretold, Passed
  <1>6. Carried(r, r1) /\ r1.verified = r.verified /\ Agrees(r1, stages, 1)
    <2>1. 1 \in 1..7 /\ 1 - 1 = 0
      OBVIOUS
    <2> QED  BY <1>1, <1>3, <1>4, <1>5, <2>1, Advances
  <1> HIDE DEF r1
  <1>7. Carried(r1, r2) /\ r2.verified = r1.verified /\ Agrees(r2, stages, 2)
    <2>1. /\ 2 \in 1..7 /\ 2 - 1 = 1 /\ DOMAIN r1 = ReqFields
          /\ Predicts(stages, r1.foreseen)
      BY <1>5, <1>6 DEF Carried
    <2> QED  BY <1>3, <1>4, <1>6, <2>1, Advances
  <1> HIDE DEF r2
  <1>8. /\ q.call = r.call /\ q.foreseen = r.foreseen /\ q.verified = r.verified
        /\ q.grant = grant /\ q.terminal = r2.terminal /\ r2.foreseen = r.foreseen
    BY <1>6, <1>7 DEF Carried, ReqFields
  <1> HIDE DEF q
  <1>9. Agrees(q, stages, 2) /\ Agrees(q, stages, 0)
    BY <1>7, <1>8 DEF Agrees
  <1>10. Foretold(q, "drift", Policy, stages)
    BY <1>1, <1>5, <1>8, <1>9 DEF Foretold, Passed, Late, grant
  <1> QED  BY <1>2, <1>10, ForetoldGoes DEF stages, r

(* Of an undisturbed call, is_blocked is the third.                        *)
LEMMA DriftForetold ==
  ASSUME RecordInv, NEW s \in Sessions, Drift(s), UNCHANGED disturbances,
         Foretold(req[s], at[s], Policy, Objections(Policy, req[s].call, TRUE))
  PROVE  Foretold(req'[s], at'[s], Policy, Objections(Policy, req[s].call, TRUE))
  <1> DEFINE r == req[s]
             stages == Objections(Policy, r.call, TRUE)
             objects == r.call.tool \in blocked
             q == RetainIf(objects, r, "DENY_DRIFT")
  <1>1. at[s] = "drift" /\ Foretold(r, "drift", Policy, stages) /\ DOMAIN r = ReqFields
    BY CallKept DEF Drift, Recorded
  <1>2. disturbances \in Nat
    BY DEF RecordInv, Bounded
  <1>3. Goto(s, q, "score")
    <2>1. r.call.proof = None /\ r.call.approval = None
      BY <1>1 DEF Foretold
    <2>2. Redemption(r.call) = "score"
      BY <2>1 DEF Redemption
    <2>3. PICK failed \in BOOLEAN :
            /\ Raises(failed)
            /\ Goto(s, RetainIf(failed \/ r.call.tool \in blocked, r, "DENY_DRIFT"),
                    IF mode = "enforce" /\ r.call.proof # None
                      THEN "proof" ELSE Redemption(r.call))
      BY DEF Drift
    <2>4. failed = FALSE
      BY <1>2, <2>3 DEF Raises, Disturb
    <2>5. (failed \/ r.call.tool \in blocked) = objects
      BY <2>4
    <2> QED  BY <2>1, <2>2, <2>3, <2>5
  <1>4. /\ stages[3] = Raised(objects, "DENY_DRIFT")
        /\ objects \in BOOLEAN /\ "DENY_DRIFT" # None
    <2>1. stages[3] = Raised(objects, "DENY_DRIFT")
      BY SevenStages DEF Raised
    <2> HIDE DEF stages
    <2> QED  BY <2>1 DEF None
  <1> HIDE DEF r, stages, objects
  <1>5. Predicts(stages, r.foreseen) /\ Agrees(r, stages, 2)
    BY <1>1 DEF Foretold, Passed
  <1>6. /\ Carried(r, q) /\ q.grant = r.grant /\ q.verified = r.verified
        /\ Agrees(q, stages, 3)
    <2>1. 3 \in 1..7 /\ 3 - 1 = 2
      OBVIOUS
    <2> QED  BY <1>1, <1>4, <1>5, <2>1, Advances
  <1> HIDE DEF q
  <1>7. Agrees(q, stages, 0)
    BY <1>6 DEF Agrees
  <1>8. Foretold(q, "score", Policy, stages)
    BY <1>1, <1>5, <1>6, <1>7 DEF Foretold, Passed, Late, Carried
  <1> QED  BY <1>3, <1>8, ForetoldGoes DEF stages, r

(* The deferred conditions and the bands, on the score that the dry run    *)
(* computed without counting the call.                                     *)
LEMMA AssessForetold ==
  ASSUME RecordInv, NEW s \in Sessions, Assess(s), UNCHANGED disturbances,
         Foretold(req[s], at[s], Policy, Objections(Policy, req[s].call, TRUE)),
         NEW after, after[6] = Objections(Policy, req[s].call, TRUE)[6]
  PROVE  Foretold(req'[s], at'[s], Policy, after)
  <1> DEFINE r == req[s]
             stages == Objections(Policy, r.call, TRUE)
             score == ScoreOf(Policy, r.call, frequency[r.call.tool] + 1)
             threshold == threshold_outcome(score)
             violates == ViolatesRisk(r.grant, score)
             r1 == RetainIf(violates, r, "DENY_ABAC")
             objects == threshold # "ALLOW" /\ ~(threshold = "CHALLENGE" /\ r1.verified)
             risky == threshold # "ALLOW"
             q == RetainIf(risky, r1, threshold)
  <1>1. /\ at[s] = "score" /\ Foretold(r, "score", Policy, stages) /\ DOMAIN r = ReqFields
        /\ r.call \in Request /\ Policy \in IdentityPolicy
    BY CallKept DEF Assess, Recorded
  <1>2. Goto(s, RetainIf(objects, r1, threshold), "schema")
    <2>1. disturbances \in Nat
      BY DEF RecordInv, Bounded
    <2>2. PICK failed \in BOOLEAN :
            /\ Raises(failed)
            /\ LET sc == IF failed THEN 100 ELSE score
                   th == threshold_outcome(sc)
                   rr == RetainIf(ViolatesRisk(r.grant, sc), r, "DENY_ABAC")
                   cleared == th = "CHALLENGE" /\ rr.verified
               IN  Goto(s, RetainIf(th # "ALLOW" /\ ~cleared, rr, th), "schema")
      BY DEF Assess
    <2>3. failed = FALSE
      BY <2>1, <2>2 DEF Raises, Disturb
    <2> QED  BY <2>2, <2>3
  <1>3. /\ stages[4] = Raised(violates, "DENY_ABAC")
        /\ stages[5] = Raised(risky, threshold)
        /\ stages[6] \in {{}, {"DENY_VALIDATION"}}
        /\ violates \in BOOLEAN /\ risky \in BOOLEAN /\ "DENY_ABAC" # None
    <2>1. r.grant = matching_grant(Policy, r.call.tool)
      BY <1>1 DEF Foretold
    <2>2. stages[4] = Raised(ViolatesRisk(matching_grant(Policy, r.call.tool), score),
                             "DENY_ABAC")
      BY SevenStages DEF Raised
    <2>4. stages[5] = Raised(threshold # "ALLOW", threshold)
      BY SevenStages DEF Raised
    <2>5. stages[6] = Raised(~Validates(r.call, cache), "DENY_VALIDATION")
      BY SevenStages DEF Raised
    <2>3. violates \in BOOLEAN /\ risky \in BOOLEAN
      BY DEF ViolatesRisk
    <2> HIDE DEF r, stages, score, threshold
    <2> QED  BY <2>1, <2>2, <2>3, <2>4, <2>5 DEF Raised, None
  <1>4. threshold # None
    <2>1. frequency[r.call.tool] + 1 \in Nat /\ Counters
      BY <1>1 DEF RecordInv, Counters, Request
    <2> QED  BY <1>1, <2>1, ScoreCovers DEF Outcomes, None
  <1> HIDE DEF r, stages, score, threshold, violates
  <1>5. Predicts(stages, r.foreseen) /\ Agrees(r, stages, 3) /\ r.verified = FALSE
    BY <1>1 DEF Foretold, Passed
  <1>6. /\ Carried(r, r1) /\ r1.verified = r.verified /\ Agrees(r1, stages, 4)
    <2>1. 4 \in 1..7 /\ 4 - 1 = 3
      OBVIOUS
    <2> QED  BY <1>1, <1>3, <1>5, <2>1, Advances
  <1> HIDE DEF r1
  <1>7. Goto(s, q, "schema")
    <2>1. objects = risky
      BY <1>5, <1>6
    <2> QED  BY <1>2, <2>1
  <1> HIDE DEF risky
  <1>8. Carried(r1, q) /\ q.verified = r1.verified /\ Agrees(q, stages, 5)
    <2>1. /\ 5 \in 1..7 /\ 5 - 1 = 4 /\ DOMAIN r1 = ReqFields
          /\ Predicts(stages, r1.foreseen)
      BY <1>5, <1>6 DEF Carried
    <2> QED  BY <1>3, <1>4, <1>6, <2>1, Advances
  <1> HIDE DEF q
  <1>9. /\ q.call = r.call /\ q.foreseen = r.foreseen /\ q.verified = FALSE
        /\ Agrees(q, after, 0)
    BY <1>5, <1>6, <1>8 DEF Carried, Agrees
  <1>10. q.terminal = Undecided =>
           q.foreseen = IF after[6] = {} THEN "ALLOW" ELSE "DENY_VALIDATION"
    <2> SUFFICES ASSUME q.terminal = Undecided
                 PROVE  q.foreseen = IF after[6] = {} THEN "ALLOW" ELSE "DENY_VALIDATION"
      OBVIOUS
    <2>1. after[6] = stages[6] /\ \A j \in 1..5 : stages[j] = {}
      BY <1>8 DEF Agrees, stages, r
    <2>2. CASE stages[6] = {}
      <3>1. \A j \in 1..(7 - 1) : stages[j] = {}
        BY <2>1, <2>2
      <3>2. stages[7] = {"ALLOW"} /\ 7 \in 1..7
        BY <1>5 DEF Predicts
      <3> QED  BY <1>5, <1>9, <2>1, <2>2, <3>1, <3>2 DEF Predicts
    <2>3. CASE stages[6] = {"DENY_VALIDATION"}
      <3>1. \A j \in 1..(6 - 1) : stages[j] = {}
        BY <2>1
      <3>2. 6 \in 1..7 /\ stages[6] # {}
        BY <2>3
      <3> QED  BY <1>5, <1>9, <2>1, <2>3, <3>1, <3>2 DEF Predicts
    <2> QED  BY <1>3, <2>2, <2>3
  <1>11. Foretold(q, "schema", Policy, after)
    BY <1>1, <1>9, <1>10 DEF Foretold, Passed, Late
  <1> QED  BY <1>7, <1>11, ForetoldGoes

(* The schema is cached, and validation is the last stage of both.         *)
LEMMA SchemaForetold ==
  ASSUME RecordInv, NEW s \in Sessions, ReadCache(s), UNCHANGED disturbances,
         cache # NoList,
         Foretold(req[s], at[s], Policy, Objections(Policy, req[s].call, TRUE))
  PROVE  Foretold(req'[s], at'[s], Policy, Objections(Policy, req[s].call, TRUE))
  <1> DEFINE stages == Objections(Policy, req[s].call, TRUE)
             r == [req[s] EXCEPT !.list = cache]
             objects == ~Validates(req[s].call, cache)
             r1 == RetainIf(objects, r, "DENY_VALIDATION")
             q == Retain(r1, "ALLOW")
  <1>1. at[s] = "schema" /\ Foretold(req[s], "schema", Policy, stages)
        /\ DOMAIN req[s] = ReqFields
    BY CallKept DEF ReadCache, Recorded
  <1>2. Goto(s, q, "emit")
    <2>1. disturbances \in Nat
      BY DEF RecordInv, Bounded
    <2>2. Validate(s, cache)
      BY <2>1 DEF ReadCache, Raises, Disturb
    <2> QED  BY <2>2 DEF Validate, RetainIf
  <1>3. /\ DOMAIN r = ReqFields /\ r.call = req[s].call /\ r.foreseen = req[s].foreseen
        /\ r.verified = req[s].verified /\ r.terminal = req[s].terminal
    BY <1>1 DEF ReqFields
  <1>4. /\ stages[6] = Raised(objects, "DENY_VALIDATION")
        /\ objects \in BOOLEAN
    BY SevenStages
  <1> HIDE DEF stages, r, objects
  <1>5. /\ Carried(r, r1) /\ r1.verified = r.verified
        /\ objects /\ r.terminal = Undecided =>
             r1.terminal = [event |-> "DENY_VALIDATION", version |-> engine]
        /\ ~objects \/ r.terminal # Undecided => r1.terminal = r.terminal
    BY <1>3, <1>4, RetainedCarries
  <1> HIDE DEF r1
  <1>6. /\ Carried(r1, q) /\ q.verified = r1.verified
        /\ r1.terminal = Undecided => q.terminal = [event |-> "ALLOW", version |-> engine]
        /\ r1.terminal # Undecided => q.terminal = r1.terminal
    <2> DEFINE t == [event |-> "ALLOW", version |-> engine]
               allowed == [r1 EXCEPT !.terminal = t]
    <2>1. DOMAIN r1 = ReqFields
      BY <1>5 DEF Carried
    <2> HIDE DEF t
    <2>2. Carried(r1, allowed) /\ allowed.verified = r1.verified /\ allowed.terminal = t
      BY <2>1 DEF Carried, ReqFields
    <2>3. r1.terminal = Undecided => q = allowed
      BY DEF Retain, t
    <2>4. r1.terminal # Undecided => q = r1
      BY DEF Retain
    <2> HIDE DEF q, allowed
    <2> QED  BY <2>1, <2>2, <2>3, <2>4 DEF Carried, t
  <1> HIDE DEF q
  <1>7. /\ q.call = req[s].call /\ q.foreseen = req[s].foreseen
        /\ q.verified = req[s].verified
    BY <1>3, <1>5, <1>6 DEF Carried
  <1>8. q.terminal # Undecided /\ q.terminal.event = req[s].foreseen
    <2>1. Undecided.event = None /\ "ALLOW" # None /\ "DENY_VALIDATION" # None
      BY DEF Undecided, None
    <2>2. CASE req[s].terminal # Undecided
      BY <1>1, <1>3, <1>5, <1>6, <2>2 DEF Foretold, Agrees
    <2>3. CASE req[s].terminal = Undecided
      <3>1. req[s].foreseen = IF objects THEN "DENY_VALIDATION" ELSE "ALLOW"
        BY <1>1, <1>4, <2>3 DEF Foretold, Raised
      <3>2. CASE objects
        BY <1>3, <1>5, <1>6, <2>1, <2>3, <3>1, <3>2
      <3>3. CASE ~objects
        BY <1>3, <1>5, <1>6, <2>1, <2>3, <3>1, <3>3
      <3> QED  BY <3>2, <3>3
    <2> QED  BY <2>2, <2>3
  <1>9. Foretold(q, "emit", Policy, stages)
    BY <1>1, <1>7, <1>8 DEF Foretold, Agrees, Passed, Late
  <1> QED  BY <1>2, <1>9, ForetoldGoes DEF stages

(* While nothing shared changes, the dry run does not.                     *)
LEMMA SameObjections ==
  ASSUME NEW s \in Sessions, UNCHANGED shared, req'[s].call = req[s].call
  PROVE  UNCHANGED <<Policy, Objections(Policy, req[s].call, TRUE)>>
  <1>1. UNCHANGED <<engine, baseline, blocked, cache, frequency, denials, drifts, decay>>
    BY DEF shared
  <1> QED  BY <1>1 DEF Policy, Objections, ScoreOf, Context, Validates

LEMMA SameValidation ==
  ASSUME NEW s \in Sessions, UNCHANGED <<engine, cache>>, req'[s].call = req[s].call
  PROVE  /\ UNCHANGED Policy
         /\ Objections(Policy, req[s].call, TRUE)[6]' = Objections(Policy, req[s].call, TRUE)[6]
  BY DEF Policy, Objections, Validates

(* A call that is undisturbed after a step was so before it.               *)
LEMMA WasUndisturbed ==
  ASSUME RecordInv, [Next]_vars, NEW s \in Sessions, at[s] # "idle",
         Carried(req[s], req'[s]), req[s].since \in 0..disturbances
  PROVE  /\ req'[s].since \in 0..disturbances'
         /\ Undisturbed(s)' => Undisturbed(s) /\ UNCHANGED <<requests, disturbances>>
  <1>1. req[s].id \in 1..requests
    BY CallKept DEF Recorded
  <1>2. /\ req'[s].id = req[s].id /\ req'[s].since = req[s].since
        /\ req'[s].alone = req[s].alone /\ req'[s].foreseen = req[s].foreseen
    BY DEF Carried
  <1> QED  BY <1>1, <1>2, CountedUp DEF Undisturbed

(* A new call: the dry run is what it foresees.                            *)
LEMMA ReceiveForetold ==
  ASSUME RecordInv, PredictInv, NEW s \in Sessions, NEW c \in Calls, Receive(s, c)
  PROVE  PredictInv'
  <1> DEFINE r == [id |-> requests + 1, call |-> c, terminal |-> Undecided,
              grant |-> {},
              verified |-> FALSE, list |-> NoList, from |-> engine,
              open |-> c.tool \notin blocked,
              foreseen |-> IF Explicable(c) THEN explain_call(Policy, c, TRUE) ELSE None,
              alone |-> /\ \A o \in Sessions \ {s} : at[o] = "idle"
                        /\ \A o \in Sessions : listing[o] = NoListing,
              since |-> disturbances]
  <1>1. /\ Goto(s, r, "start") /\ requests' = requests + 1
        /\ UNCHANGED shared /\ UNCHANGED <<listing, disturbances>>
    BY DEF Receive
  <1>2. /\ r.id = requests + 1 /\ r.call = c /\ r.terminal = Undecided
        /\ r.verified = FALSE /\ r.since = disturbances
        /\ r.foreseen = IF Explicable(c) THEN explain_call(Policy, c, TRUE) ELSE None
        /\ r.alone = TRUE => /\ \A o \in Sessions \ {s} : at[o] = "idle"
                             /\ \A o \in Sessions : listing[o] = NoListing
    OBVIOUS
  <1> HIDE DEF r
  <1>3. /\ req'[s] = r /\ at'[s] = "start"
        /\ \A t \in Sessions \ {s} : at'[t] = at[t] /\ req'[t] = req[t]
    BY <1>1, <1>2 DEF Goto, RecordInv, Pumps
  <1>4. requests \in Nat /\ disturbances \in Nat
    BY DEF RecordInv, Bounded
  <1>5. ASSUME NEW t \in Sessions, t # s, at'[t] # "idle"
        PROVE  req'[t].since \in 0..disturbances' /\ ~Undisturbed(t)'
    <2>1. at[t] # "idle" /\ req'[t] = req[t]
      BY <1>3, <1>5
    <2>2. req[t].id \in 1..requests /\ req[t].since \in 0..disturbances
      BY <2>1, CallKept DEF Recorded, PredictInv
    <2> QED  BY <1>1, <1>4, <2>1, <2>2 DEF Undisturbed
  <1>6. ASSUME Undisturbed(s)'
        PROVE  /\ AlonePumps(s)'
               /\ Foretold(req[s], at[s], Policy, Objections(Policy, req[s].call, TRUE))'
    <2>1. r.alone = TRUE /\ r.foreseen # None
      BY <1>3, <1>6 DEF Undisturbed
    <2>2. Explicable(c) /\ r.foreseen = explain_call(Policy, c, TRUE)
      BY <1>2, <2>1
    <2>3. AlonePumps(s)'
      BY <1>1, <1>2, <1>3, <2>1, <2>2 DEF AlonePumps, Explicable, shared
    <2>4. Policy \in IdentityPolicy
      BY Engines DEF RecordInv, Settings, Policy
    <2>5. /\ c.nonce = None /\ c.proof = None /\ c.approval = None
          /\ Policy.signed = FALSE
      BY <2>2, <2>4 DEF Explicable, IdentityPolicy
    <2>6. Predicts(Objections(Policy, c, TRUE), r.foreseen)
      BY <2>2, Explains
    <2>7. ASSUME NEW stages, NEW p, Predicts(stages, r.foreseen), p.signed = FALSE
          PROVE  Foretold(r, "start", p, stages)
      <3>1. Agrees(r, stages, 0)
        BY <1>2 DEF Agrees
      <3>2. Passed["start"] = 0 /\ "start" \in DOMAIN Passed
        BY DEF Passed
      <3> QED  BY <1>2, <2>5, <2>7, <3>1, <3>2 DEF Foretold, Late
    <2>8. Foretold(r, "start", Policy, Objections(Policy, c, TRUE))
      BY <2>5, <2>6, <2>7
    <2>9. UNCHANGED Policy /\ Objections(Policy, req[s].call, TRUE)' = Objections(Policy, c, TRUE)
      <3>1. UNCHANGED <<engine, baseline, blocked, cache, frequency, denials, drifts, decay>>
            /\ req'[s].call = c
        BY <1>1, <1>2, <1>3 DEF shared
      <3> QED  BY <3>1 DEF Policy, Objections, ScoreOf, Context, Validates
    <2> QED  BY <1>3, <2>3, <2>8, <2>9
  <1>7. req'[s].since \in 0..disturbances'
    BY <1>1, <1>2, <1>3, <1>4
  <1> QED  BY <1>5, <1>6, <1>7 DEF PredictInv

(* The other pumps are idle, so each step that neither disturbs nor is a   *)
(* new request is one of the call itself.                                  *)
LEMMA CallForetold ==
  ASSUME RecordInv, [Next]_vars, NEW s \in Sessions, CallsCarried, at'[s] # "idle",
         UNCHANGED <<requests, disturbances>>, Undisturbed(s), AlonePumps(s),
         Foretold(req[s], at[s], Policy, Objections(Policy, req[s].call, TRUE))
  PROVE  /\ AlonePumps(s)'
         /\ Foretold(req[s], at[s], Policy, Objections(Policy, req[s].call, TRUE))'
  <1>1. requests \in Nat /\ disturbances \in Nat /\ at[s] # "idle" /\ DOMAIN req[s] = ReqFields
    BY CallKept DEF RecordInv, Bounded, Undisturbed, Recorded
  <1>2. /\ at[s] \in {"start", "drift", "score", "schema"} \cup Late
        /\ \A t \in Sessions \ {s} : at[t] = "idle"
        /\ \A t \in Sessions : listing[t].at = "idle"
    BY DEF Foretold, Passed, AlonePumps, NoListing
  <1>3. /\ \A t \in Sessions \ {s} : at'[t] = "idle"
        /\ req'[s].call = req[s].call
    BY <1>1, <1>2 DEF CallsCarried, Carried
  <1>4. ASSUME UNCHANGED <<engine, cache, listing>>,
               ASSUME NEW after, after[6] = Objections(Policy, req[s].call, TRUE)[6],
                      UNCHANGED shared => after = Objections(Policy, req[s].call, TRUE)
               PROVE  Foretold(req'[s], at'[s], Policy, after)
        PROVE  /\ AlonePumps(s)'
               /\ Foretold(req[s], at[s], Policy, Objections(Policy, req[s].call, TRUE))'
    <2>1. AlonePumps(s)'
      BY <1>3, <1>4 DEF AlonePumps
    <2>2. UNCHANGED Policy
          /\ Objections(Policy, req[s].call, TRUE)'[6] = Objections(Policy, req[s].call, TRUE)[6]
      BY <1>3, <1>4, SameValidation
    <2>3. UNCHANGED shared =>
            Objections(Policy, req[s].call, TRUE)' = Objections(Policy, req[s].call, TRUE)
      BY <1>3, SameObjections
    <2> QED  BY <1>4, <2>1, <2>2, <2>3
  <1>5. CASE Start(s)
    BY <1>4, <1>5, StartForetold DEF Start, ClientPump, shared
  <1>6. CASE Drift(s)
    BY <1>4, <1>6, DriftForetold DEF Drift, ClientPump, shared
  <1>7. CASE Assess(s)
    BY <1>4, <1>7, AssessForetold DEF Assess, ClientPump
  <1>8. CASE ReadCache(s)
    BY <1>4, <1>8, SchemaForetold DEF ReadCache, ClientPump, shared, AlonePumps
  <1>9. CASE Emit(s) \/ Write(s) \/ Register(s)
    <2>1. /\ UNCHANGED <<engine, cache, listing, req>>
          /\ at[s] \in Late /\ at'[s] \in Late
      BY <1>9 DEF Emit, Write, Register, Stage, Outcome, ClientPump, shared, RecordInv, Pumps, Late
    <2>2. ASSUME NEW after  PROVE Foretold(req[s], at'[s], Policy, after)
      BY <2>1 DEF Foretold, Agrees, Passed, Late
    <2> QED  BY <1>4, <2>1, <2>2
  <1>10. CASE Conclude(s)
    BY <1>1, <1>10 DEF Conclude, RecordInv, Pumps
  <1>11. CASE WriteRepeats(s) \/ UNCHANGED vars
    <2>1. UNCHANGED shared /\ UNCHANGED <<engine, cache, listing, at, req>>
      BY <1>11 DEF WriteRepeats, ClientPump, vars, shared
    <2> QED  BY <1>4, <2>1
  <1>12. ASSUME NEW t \in Sessions, ClientStep(t)
         PROVE  Start(s) \/ Drift(s) \/ Assess(s) \/ ReadCache(s) \/ Emit(s) \/ Write(s)
                \/ WriteRepeats(s) \/ Register(s) \/ Conclude(s)
    <2>1. at[t] # "idle"
      BY <1>12 DEF ClientStep, Start, Replay, Drift, Proof, Approval, Assess, ReadCache,
           JudgeFetched, PutFetched, FetchTimesOut, Emit, Write, WriteRepeats, Register, Conclude
    <2>2. t = s
      BY <1>2, <2>1
    <2> QED  BY <1>2, <1>12, <2>2 DEF ClientStep, Replay, Proof, Approval, JudgeFetched,
             PutFetched, FetchTimesOut, Late
  <1>13. ASSUME NEW t \in Sessions, UpstreamStep(t)  PROVE FALSE
    <2>1. at[t] # "fetch"
      BY <1>2 DEF Late
    <2> QED  BY <1>2, <1>13, <2>1
             DEF UpstreamStep, AnswerList, JudgeList, PutList, ServeList, Fetched
  <1>14. ASSUME NEW t \in Sessions, ClientSends(t)  PROVE FALSE
    <2>1. CASE \E c \in Calls : Receive(t, c)
      <3>1. requests' = requests + 1
        BY <2>1 DEF Receive
      <3> QED  BY <1>1, <3>1
    <2>2. CASE Initialize(t) \/ RequestList(t)
      <3>1. requests' = requests + 1
        BY <2>2 DEF Initialize, RequestList
      <3> QED  BY <1>1, <3>1
    <2> QED  BY <1>14, <2>1, <2>2 DEF ClientSends
  <1>15. ASSUME NEW t \in Sessions, FetchFails(t) \/ WriteFails(t) \/ ListFails(t)  PROVE FALSE
    BY <1>1, <1>15 DEF FetchFails, WriteFails, ListFails, Disturb
  <1>16. ASSUME \/ ActivatePolicy \/ UpstreamChanges \/ Expire
                \/ \E t \in Tools : ApproveTool(t) \/ ApproveCall(t)
         PROVE  FALSE
    BY <1>1, <1>16
       DEF ActivatePolicy, UpstreamChanges, Expire, ApproveTool, ApproveCall, World, Disturb
  <1> QED  BY <1>5, <1>6, <1>7, <1>8, <1>9, <1>10, <1>11, <1>12, <1>13, <1>14, <1>15, <1>16
           DEF Next

LEMMA PredictStep ==
  RecordInv /\ PredictInv /\ [Next]_vars => PredictInv'
  <1> SUFFICES ASSUME RecordInv, PredictInv, [Next]_vars  PROVE PredictInv'
    OBVIOUS
  <1>1. CASE \E s \in Sessions, c \in Calls : Receive(s, c)
    BY <1>1, ReceiveForetold
  <1>2. CASE CallsCarried
    <2> SUFFICES ASSUME NEW s \in Sessions, at'[s] # "idle"
                 PROVE  /\ req'[s].since \in 0..disturbances'
                        /\ Undisturbed(s)' =>
                             /\ AlonePumps(s)'
                             /\ Foretold(req[s], at[s], Policy,
                                         Objections(Policy, req[s].call, TRUE))'
      BY DEF PredictInv
    <2>1. at[s] # "idle" /\ Carried(req[s], req'[s]) /\ req[s].since \in 0..disturbances
      BY <1>2 DEF CallsCarried, PredictInv
    <2>2. /\ req'[s].since \in 0..disturbances'
          /\ Undisturbed(s)' => Undisturbed(s) /\ UNCHANGED <<requests, disturbances>>
      BY <2>1, WasUndisturbed
    <2>3. ASSUME Undisturbed(s)'
          PROVE  /\ AlonePumps(s)'
                 /\ Foretold(req[s], at[s], Policy, Objections(Policy, req[s].call, TRUE))'
      <3>1. /\ Undisturbed(s) /\ UNCHANGED <<requests, disturbances>> /\ AlonePumps(s)
            /\ Foretold(req[s], at[s], Policy, Objections(Policy, req[s].call, TRUE))
        BY <2>1, <2>2, <2>3 DEF PredictInv
      <3> QED  BY <1>2, <3>1, CallForetold
    <2> QED  BY <2>2, <2>3
  <1> QED  BY <1>1, <1>2, StepCarries

(* ExplainAgrees, the promise of the Decision Explanation API: for every   *)
(* policy, list and call, an undisturbed call gets the decision that       *)
(* explain_call of decision_explainer.py predicted, in either mode.        *)
THEOREM ExplanationsHold == Spec => []ExplainAgrees
  <1>1. Init => RecordInv /\ PredictInv
    <2>1. Init => PredictInv
      BY DEF Init, PredictInv
    <2> QED  BY <2>1, RecordInit
  <1>2. RecordInv /\ PredictInv => ExplainAgrees
    <2> SUFFICES ASSUME RecordInv, PredictInv, NEW s \in Sessions,
                        at[s] = "emit", req[s].foreseen # None, req[s].alone,
                        requests = req[s].id, disturbances = req[s].since
                 PROVE  Event(s) = req[s].foreseen
      BY DEF ExplainAgrees
    <2>1. Undisturbed(s)
      BY DEF Undisturbed
    <2>2. Foretold(req[s], "emit", Policy, Objections(Policy, req[s].call, TRUE))
      BY <2>1 DEF PredictInv
    <2> QED  BY <2>2 DEF Foretold, Agrees, Late, Event
  <1> QED  BY <1>1, <1>2, RecordStep, PredictStep, PTL DEF Spec

-----------------------------------------------------------------------------
(* The review of a policy.                                                 *)
(* The score explain_call would see now, and what each objection that has  *)
(* been recorded would find now, under policy p, blocked tools b.          *)
Now(c) == ScoreOf(Policy, c, frequency[c.tool] + 1)

Stands(p, c, event, b, score) ==
  LET grant == matching_grant(p, c.tool)
  IN  /\ event = "DENY_RBAC" => grant = {}
      /\ event = "DENY_ABAC" => Violates(grant, c) \/ ViolatesRisk(grant, score)
      /\ event = "DENY_DRIFT" => c.tool \in b
      /\ event \in {"CHALLENGE", "DENY_RISK"} => score >= 40

(* What is known of a call at a stage a, while nothing disturbed.          *)
Held(r, a, p, b, score, list) ==
  /\ Stands(p, r.call, r.terminal.event, b, score)
  /\ a \in {"drift", "proof", "approval", "score"} => r.grant = matching_grant(p, r.call.tool)
  /\ a = "judge" => r.list = list

(* A drift that the upstream's list shows, and goes on to show.            *)
Drifting(t) == Drifted(Lists[upstream], t)

(* While nothing from outside disturbed, no objection on record would be   *)
(* met more leniently now.                                                 *)
Standing ==
  /\ decay = [t \in Tools |-> 0]
  /\ \A t \in Tools : t \in blocked \/ baseline[t].observed # None => Drifting(t)
  /\ \A t \in Tools : baseline[t].observed # None => baseline[t].observed = Lists[upstream][t]
  /\ \A s \in Sessions : listing[s].at = "judge" => listing[s].list = upstream
  /\ \A s \in Sessions : at[s] # "idle" =>
       Held(req[s], at[s], Policy, blocked, Now(req[s].call), upstream)
  /\ \A row \in ledger : Stands(Policy, row.call, row.event, blocked, Now(row.call))

StandingInv == disturbances = 0 => Standing

(* What a step that does not disturb leaves of the state it is scored on.  *)
Hardens ==
  /\ UNCHANGED <<engine, upstream, decay>>
  /\ \A t \in Tools : frequency[t] <= frequency'[t]
  /\ denials <= denials' /\ blocked \subseteq blocked'
  /\ \A t \in Tools : drifts[t] <= drifts'[t]
  /\ \A t \in Tools : baseline[t].observed # None => baseline'[t].observed # None
  /\ \A t \in Tools :
       baseline[t].approved \in Suspicious => baseline'[t].approved \in Suspicious

-----------------------------------------------------------------------------
(* More calls, denials and drifts, a drift under review or a baseline that *)
(* turned suspicious only add to a score.                                  *)
LEMMA ScoreGrows ==
  ASSUME NEW x \in RiskContext, NEW y \in RiskContext, NEW approvals \in Nat,
         x.tier = y.tier, x.protected = y.protected, x.offHours = y.offHours,
         x.drifts <= y.drifts, x.suspicious => y.suspicious,
         x.calls <= y.calls, x.denials <= y.denials, x.inReview => y.inReview
  PROVE  Score(x, approvals) <= Score(y, approvals)
  <1>1. Static(x) <= Static(y)
    <2> DEFINE own == TierContribution[x.tier] + Factor(x.protected, 30) + Factor(x.offHours, 25)
    <2>1. Static(x) = own + ToolRecord(x) /\ Static(y) = own + ToolRecord(y)
      BY DEF Static
    <2>2. /\ Factor(x.drifts >= HistoryThreshold, 15) <= Factor(y.drifts >= HistoryThreshold, 15)
          /\ Factor(x.drifts >= HistoryThreshold, 15) \in {0, 15}
          /\ Factor(y.drifts >= HistoryThreshold, 15) \in {0, 15}
      BY SettingsAssumption DEF RiskContext, Factor
    <2>3. /\ Factor(x.suspicious, 20) <= Factor(y.suspicious, 20)
          /\ Factor(x.suspicious, 20) \in {0, 20}
          /\ Factor(y.suspicious, 20) \in {0, 20}
      BY DEF RiskContext, Factor
    <2>4. /\ ToolRecord(x) <= ToolRecord(y)
          /\ ToolRecord(x) \in {0, 15, 20, 35} /\ ToolRecord(y) \in {0, 15, 20, 35}
      BY <2>2, <2>3 DEF ToolRecord
    <2>5. own \in Nat
      <3>1. TierContribution[x.tier] \in Nat
        BY DEF TierContribution, RiskContext, Tiers
      <3> QED  BY <3>1 DEF Factor
    <2> HIDE DEF own
    <2> QED  BY <2>1, <2>4, <2>5
  <1>2. Static(x) \in Nat /\ Static(y) \in Nat /\ Behavioral(x) \in Nat /\ Behavioral(y) \in Nat
    BY FactorTypes
  <1>3. Behavioral(x) <= Behavioral(y)
    <2>1. /\ Factor(x.calls > FreqThreshold, 20) <= Factor(y.calls > FreqThreshold, 20)
          /\ Factor(x.calls > FreqThreshold, 20) \in {0, 20}
          /\ Factor(y.calls > FreqThreshold, 20) \in {0, 20}
      BY SettingsAssumption DEF RiskContext, Factor
    <2>2. /\ Factor(x.denials > DenialThreshold, 25) <= Factor(y.denials > DenialThreshold, 25)
          /\ Factor(x.denials > DenialThreshold, 25) \in {0, 25}
          /\ Factor(y.denials > DenialThreshold, 25) \in {0, 25}
      BY SettingsAssumption DEF RiskContext, Factor
    <2>3. /\ Factor(x.inReview, 15) <= Factor(y.inReview, 15)
          /\ Factor(x.inReview, 15) \in {0, 15}
          /\ Factor(y.inReview, 15) \in {0, 15}
      BY DEF RiskContext, Factor
    <2> QED  BY <2>1, <2>2, <2>3 DEF Behavioral
  <1> DEFINE offset == IF approvals > DecayMax THEN DecayMax ELSE approvals
  <1>4. offset \in Nat
    BY SettingsAssumption
  <1>5. /\ Score(x, approvals) = combine(Static(x), Behavioral(x), offset)
        /\ Score(y, approvals) = combine(Static(y), Behavioral(y), offset)
    BY DEF Score
  <1> HIDE DEF offset
  <1>6. ASSUME NEW j \in Nat, NEW k \in Nat, NEW m \in Nat, NEW n \in Nat, j <= k, m <= n
        PROVE  combine(j, m, offset) <= combine(k, n, offset)
    BY <1>4, <1>6 DEF combine, Discounted
  <1> QED  BY <1>1, <1>2, <1>3, <1>5, <1>6

(* The score of a call that is replayed is one of 0..100.                  *)
LEMMA NowBounds ==
  ASSUME RecordInv, NEW p \in IdentityPolicy, NEW c \in Request
  PROVE  ScoreOf(p, c, frequency[c.tool] + 1) \in 0..100
  <1> DEFINE ctx == Context(p, c, frequency[c.tool] + 1)
  <1>1. ctx \in RiskContext /\ decay[c.tool] \in Nat
    BY DEF Context, RiskContext, IdentityPolicy, Request, RecordInv, Counters
  <1> HIDE DEF ctx
  <1>2. Score(ctx, decay[c.tool]) \in 0..100
    BY <1>1, ScoreBounds
  <1> QED  BY <1>2 DEF ScoreOf, ctx

(* A step that does not disturb lowers no score.                           *)
LEMMA NowGrows ==
  ASSUME RecordInv, RecordInv', Hardens, NEW c \in Request
  PROVE  Now(c) \in Nat /\ Now(c)' \in Nat /\ Now(c) <= Now(c)' /\ UNCHANGED Policy
  <1> DEFINE p == Policies[engine]
             x == [tier |-> p.tier[c.tool], protected |-> c.protected, offHours |-> c.late,
                   calls |-> frequency[c.tool] + 1, inReview |-> baseline[c.tool].observed # None,
                   denials |-> denials, drifts |-> drifts[c.tool],
                   suspicious |-> baseline[c.tool].approved \in Suspicious]
             y == [tier |-> p.tier[c.tool], protected |-> c.protected, offHours |-> c.late,
                   calls |-> frequency'[c.tool] + 1, inReview |-> baseline'[c.tool].observed # None,
                   denials |-> denials', drifts |-> drifts'[c.tool],
                   suspicious |-> baseline'[c.tool].approved \in Suspicious]
  <1>1. engine' = engine /\ decay' = decay /\ UNCHANGED Policy
    BY DEF Hardens, Policy
  <1>2. Now(c) = Score(x, decay[c.tool]) /\ Now(c)' = Score(y, decay[c.tool])
    BY <1>1 DEF Now, ScoreOf, Context, Policy
  <1>3. p \in IdentityPolicy /\ c.tool \in Tools /\ p.tier[c.tool] \in Tiers
    BY Engines DEF RecordInv, Settings, IdentityPolicy, Request
  <1>4. /\ frequency[c.tool] \in Nat /\ frequency'[c.tool] \in Nat /\ denials \in Nat
        /\ denials' \in Nat /\ decay[c.tool] \in Nat
        /\ frequency[c.tool] <= frequency'[c.tool] /\ denials <= denials'
        /\ drifts[c.tool] \in Nat /\ drifts'[c.tool] \in Nat
        /\ drifts[c.tool] <= drifts'[c.tool]
        /\ baseline[c.tool].observed # None => baseline'[c.tool].observed # None
        /\ baseline[c.tool].approved \in Suspicious => baseline'[c.tool].approved \in Suspicious
    BY <1>3 DEF RecordInv, Counters, Hardens
  <1>5. x \in RiskContext /\ y \in RiskContext
    BY <1>3, <1>4 DEF RiskContext, Request
  <1>6. /\ x.tier = y.tier /\ x.protected = y.protected /\ x.offHours = y.offHours
        /\ x.drifts <= y.drifts
        /\ x.calls <= y.calls /\ x.denials <= y.denials
    BY <1>4
  <1>9. (x.inReview => y.inReview) /\ (x.suspicious => y.suspicious)
    BY <1>4, Zenon
  <1> HIDE DEF x, y
  <1>7. Score(x, decay[c.tool]) <= Score(y, decay[c.tool])
    BY <1>4, <1>5, <1>6, <1>9, ScoreGrows
  <1>8. Score(x, decay[c.tool]) \in 0..100 /\ Score(y, decay[c.tool]) \in 0..100
    BY <1>4, <1>5, ScoreBounds
  <1> QED  BY <1>1, <1>2, <1>7, <1>8

(* So an objection that stands goes on to stand.                           *)
LEMMA StandsLater ==
  ASSUME NEW p \in IdentityPolicy, NEW c \in Request, NEW event, NEW b, NEW d, NEW m \in Nat,
         NEW n \in Nat, Stands(p, c, event, b, m), b \subseteq d, m <= n
  PROVE  Stands(p, c, event, d, n)
  <1> DEFINE grant == matching_grant(p, c.tool)
  <1>1. \A g \in grant : g.limit \in 0..101
    <2>1. p.grants \in Seq(ServerGrant)
      BY DEF IdentityPolicy
    <2>2. \A i \in DOMAIN p.grants : p.grants[i] \in ServerGrant
      BY <2>1
    <2>3. \A g \in grant : g \in ServerGrant
      BY <2>2 DEF matching_grant, Range
    <2> HIDE DEF grant
    <2> QED  BY <2>3 DEF ServerGrant
  <1> HIDE DEF grant
  <1>2. ViolatesRisk(grant, m) => ViolatesRisk(grant, n)
    BY <1>1 DEF ViolatesRisk
  <1>3. /\ event = "DENY_RBAC" => grant = {}
        /\ event = "DENY_ABAC" => Violates(grant, c) \/ ViolatesRisk(grant, n)
        /\ event = "DENY_DRIFT" => c.tool \in d
        /\ event \in {"CHALLENGE", "DENY_RISK"} => n >= 40
    BY <1>2 DEF Stands, grant
  <1> QED  BY <1>3 DEF Stands, grant

(* Everything that was known while nothing disturbed is still known.       *)
LEMMA HeldLater ==
  ASSUME RecordInv, RecordInv', Hardens
  PROVE  /\ \A c \in Request : \A event :
              Stands(Policy, c, event, blocked, Now(c))
              => Stands(Policy', c, event, blocked', Now(c)')
         /\ \A r, a : r.call \in Request /\ Held(r, a, Policy, blocked, Now(r.call), upstream)
              => Held(r, a, Policy', blocked', Now(r.call)', upstream')
  <1>1. Policy \in IdentityPolicy /\ Policy' = Policy /\ upstream' = upstream
        /\ blocked \subseteq blocked'
    BY Engines DEF RecordInv, Settings, Hardens, Policy
  <1>2. ASSUME NEW c \in Request, NEW event, Stands(Policy, c, event, blocked, Now(c))
        PROVE  Stands(Policy', c, event, blocked', Now(c)')
    <2>1. Now(c) \in Nat /\ Now(c)' \in Nat /\ Now(c) <= Now(c)'
      BY NowGrows
    <2> QED  BY <1>1, <1>2, <2>1, StandsLater
  <1>3. ASSUME NEW r, NEW a, r.call \in Request,
               Held(r, a, Policy, blocked, Now(r.call), upstream)
        PROVE  Held(r, a, Policy', blocked', Now(r.call)', upstream')
    <2>1. Stands(Policy, r.call, r.terminal.event, blocked, Now(r.call))
      BY <1>3 DEF Held
    <2>2. Stands(Policy', r.call, r.terminal.event, blocked', Now(r.call)')
      BY <1>2, <1>3, <2>1
    <2> QED  BY <1>1, <1>3, <2>2 DEF Held
  <1> QED  BY <1>2, <1>3

-----------------------------------------------------------------------------
(* An event that no replay repeats stands by itself.                       *)
Repeated == {"DENY_RBAC", "DENY_ABAC", "DENY_DRIFT", "DENY_RISK", "CHALLENGE"}

LEMMA Aside ==
  ASSUME NEW p, NEW c, NEW event, event \notin Repeated, NEW b, NEW score
  PROVE  Stands(p, c, event, b, score)
  BY DEF Stands, Repeated

(* Retaining an objection that stands keeps what is known of a call.       *)
LEMMA RetainedStands ==
  ASSUME NEW r, DOMAIN r = ReqFields, NEW event, NEW objects \in BOOLEAN, NEW b, NEW score,
         Stands(Policy, r.call, r.terminal.event, b, score),
         objects => Stands(Policy, r.call, event, b, score)
  PROVE  LET q == RetainIf(objects, r, event)
         IN  /\ DOMAIN q = ReqFields /\ q.call = r.call /\ q.grant = r.grant
             /\ q.verified = r.verified
             /\ Stands(Policy, q.call, q.terminal.event, b, score)
  <1> DEFINE q == RetainIf(objects, r, event)
             t == [event |-> event, version |-> engine]
  <1>1. /\ Carried(r, q) /\ q.grant = r.grant /\ q.verified = r.verified
        /\ objects /\ r.terminal = Undecided => q.terminal = t
        /\ ~objects \/ r.terminal # Undecided => q.terminal = r.terminal
    BY RetainedCarries
  <1>2. t.event = event
    OBVIOUS
  <1> HIDE DEF q, t
  <1>3. Stands(Policy, q.call, q.terminal.event, b, score)
    <2>1. CASE objects /\ r.terminal = Undecided
      BY <1>1, <1>2, <2>1 DEF Carried
    <2>2. CASE ~objects \/ r.terminal # Undecided
      BY <1>1, <2>2 DEF Carried
    <2> QED  BY <2>1, <2>2
  <1> QED  BY <1>1, <1>3 DEF Carried, q

(* What is known of a call that is under way while nothing disturbed.      *)
LEMMA StandingCall ==
  ASSUME RecordInv, Standing, NEW s \in Sessions, at[s] # "idle"
  PROVE  /\ DOMAIN req[s] = ReqFields /\ req[s].call \in Request /\ Policy \in IdentityPolicy
         /\ Held(req[s], at[s], Policy, blocked, Now(req[s].call), upstream)
         /\ Stands(Policy, req[s].call, req[s].terminal.event, blocked, Now(req[s].call))
         /\ Now(req[s].call) \in 0..100
  <1>1. /\ DOMAIN req[s] = ReqFields /\ req[s].call \in Request
        /\ Policy \in IdentityPolicy
    BY CallKept DEF Recorded
  <1>2. Held(req[s], at[s], Policy, blocked, Now(req[s].call), upstream)
    BY DEF Standing
  <1> QED  BY <1>1, <1>2, NowBounds DEF Held, Now

(* A step of one call, on a state that can only score harder.              *)
LEMMA StandingMoves ==
  ASSUME RecordInv, RecordInv', Standing, Hardens, NEW s \in Sessions, NEW q, NEW stage,
         req' = [req EXCEPT ![s] = q], at' = [at EXCEPT ![s] = stage],
         UNCHANGED <<baseline, blocked, listing, ledger>>,
         stage # "idle" => /\ q.call \in Request
                           /\ Held(q, stage, Policy, blocked, Now(q.call), upstream)
  PROVE  Standing'
  <1>1. UNCHANGED <<upstream, decay>>
    BY DEF Hardens
  <1>2. \A t \in Tools :
          /\ t \in blocked' \/ baseline'[t].observed # None => Drifting(t)'
          /\ baseline'[t].observed # None => baseline'[t].observed = Lists[upstream'][t]
    BY <1>1 DEF Standing, Drifting, Drifted
  <1>3. ASSUME NEW t \in Sessions, at'[t] # "idle"
        PROVE  Held(req'[t], at'[t], Policy', blocked', Now(req[t].call)', upstream')
    <2>1. CASE t = s
      <3>1. req'[t] = q /\ at'[t] = stage
        BY <2>1 DEF RecordInv, Pumps
      <3>2. q.call \in Request /\ Held(q, stage, Policy, blocked, Now(q.call), upstream)
        BY <1>3, <3>1
      <3>3. Held(q, stage, Policy', blocked', Now(q.call)', upstream')
        <4>1. PICK c \in Request : c = q.call
          BY <3>2
        <4> QED  BY <3>2, HeldLater
      <3> QED  BY <3>1, <3>3
    <2>2. CASE t # s
      <3>1. req'[t] = req[t] /\ at'[t] = at[t] /\ at[t] # "idle"
        BY <1>3, <2>2 DEF RecordInv, Pumps
      <3>2. Held(req[t], at[t], Policy, blocked, Now(req[t].call), upstream) /\ req[t].call \in Request
        BY <3>1, StandingCall
      <3> QED  BY <3>1, <3>2, HeldLater
    <2> QED  BY <2>1, <2>2
  <1>4. \A row \in ledger' : Stands(Policy', row.call, row.event, blocked', Now(row.call)')
    <2>1. ASSUME NEW row \in ledger
          PROVE  row.call \in Request
      BY CallsAssumption DEF RecordInv, OwnRows
    <2> QED  BY <2>1, HeldLater DEF Standing
  <1> QED  BY <1>1, <1>2, <1>3, <1>4 DEF Standing

(* A step in which one call moves and nothing else does but counters.      *)
Steady ==
  /\ RecordInv /\ RecordInv' /\ Standing /\ Hardens
  /\ UNCHANGED <<baseline, blocked, listing, ledger>>

LEMMA StandingGoes ==
  ASSUME Steady, NEW s \in Sessions, NEW q, NEW stage, stage # "idle", Goto(s, q, stage),
         q.call \in Request, Held(q, stage, Policy, blocked, Now(q.call), upstream)
  PROVE  Standing'
  <1> DEFINE next == IF mode = "enforce" /\ q.terminal # Undecided THEN "emit" ELSE stage
  <1>1. req' = [req EXCEPT ![s] = q] /\ at' = [at EXCEPT ![s] = next]
    BY DEF Goto
  <1>2. Held(q, next, Policy, blocked, Now(q.call), upstream)
    BY DEF Held
  <1> HIDE DEF next
  <1> QED  BY <1>1, <1>2, StandingMoves DEF Steady

LEMMA StandingObjected ==
  ASSUME Steady, NEW s \in Sessions, at[s] # "idle", NEW objects \in BOOLEAN, NEW event,
         NEW stage, stage # "idle", Goto(s, RetainIf(objects, req[s], event), stage),
         objects => Stands(Policy, req[s].call, event, blocked, Now(req[s].call)),
         stage \in {"drift", "proof", "approval", "score"} =>
           at[s] \in {"drift", "proof", "approval", "score"},
         stage # "judge"
  PROVE  Standing'
  <1> DEFINE q == RetainIf(objects, req[s], event)
  <1>1. /\ DOMAIN req[s] = ReqFields /\ req[s].call \in Request
        /\ Held(req[s], at[s], Policy, blocked, Now(req[s].call), upstream)
        /\ Stands(Policy, req[s].call, req[s].terminal.event, blocked, Now(req[s].call))
    BY StandingCall DEF Steady
  <1>2. /\ q.call = req[s].call /\ q.grant = req[s].grant
        /\ Stands(Policy, q.call, q.terminal.event, blocked, Now(req[s].call))
    <2> DEFINE r == req[s]
               score == Now(r.call)
    <2>1. /\ DOMAIN r = ReqFields /\ q = RetainIf(objects, r, event)
          /\ Stands(Policy, r.call, r.terminal.event, blocked, score)
          /\ objects => Stands(Policy, r.call, event, blocked, score)
      BY <1>1
    <2> HIDE DEF q, score
    <2>2. /\ q.call = r.call /\ q.grant = r.grant
          /\ Stands(Policy, q.call, q.terminal.event, blocked, score)
      <3> HIDE DEF r
      <3> QED  BY <2>1, RetainedStands
    <2> QED  BY <2>2 DEF score
  <1>3. Goto(s, q, stage)
    OBVIOUS
  <1> HIDE DEF q
  <1>4. Held(q, stage, Policy, blocked, Now(q.call), upstream)
    BY <1>1, <1>2 DEF Held
  <1> QED  BY <1>1, <1>2, <1>3, <1>4, StandingGoes

(* RBAC and the early conditions would object again: they read nothing but *)
(* the policy and the call.                                                *)
LEMMA StandingAuthorize ==
  ASSUME Steady, NEW s \in Sessions, at[s] # "idle", NEW r, DOMAIN r = ReqFields,
         r.call = req[s].call, Authorize(s, r),
         Stands(Policy, r.call, r.terminal.event, blocked, Now(r.call))
  PROVE  Standing'
  <1> DEFINE grant == matching_grant(Policy, r.call.tool)
             ungranted == grant = {}
             violates == Violates(grant, r.call)
             r1 == RetainIf(ungranted, r, "DENY_RBAC")
             r2 == RetainIf(violates, r1, "DENY_ABAC")
             q == [r2 EXCEPT !.grant = grant]
             score == Now(r.call)
  <1>1. Goto(s, q, "drift") /\ r.call \in Request
    BY StandingCall DEF Authorize, Steady
  <1>2. ungranted \in BOOLEAN /\ violates \in BOOLEAN
    BY DEF Violates
  <1>3. /\ ungranted => Stands(Policy, r.call, "DENY_RBAC", blocked, score)
        /\ violates => Stands(Policy, r.call, "DENY_ABAC", blocked, score)
    BY DEF Stands
  <1> HIDE DEF grant, ungranted, violates, score
  <1>4. /\ DOMAIN r1 = ReqFields /\ r1.call = r.call
        /\ Stands(Policy, r1.call, r1.terminal.event, blocked, score)
    BY <1>2, <1>3, RetainedStands DEF score
  <1> HIDE DEF r1
  <1>5. /\ DOMAIN r2 = ReqFields /\ r2.call = r1.call
        /\ Stands(Policy, r2.call, r2.terminal.event, blocked, score)
    BY <1>2, <1>3, <1>4, RetainedStands
  <1> HIDE DEF r2
  <1>6. q.call = r.call /\ q.grant = grant /\ q.terminal = r2.terminal
    BY <1>4, <1>5 DEF ReqFields
  <1> HIDE DEF q
  <1>7. Held(q, "drift", Policy, blocked, Now(q.call), upstream)
    BY <1>4, <1>5, <1>6 DEF Held, grant, score
  <1> QED  BY <1>1, <1>6, <1>7, StandingGoes

(* The stages in front of the risk engine.                                 *)
LEMMA StandingAdmission ==
  ASSUME Steady, UNCHANGED disturbances, NEW s \in Sessions,
         Start(s) \/ Replay(s) \/ Drift(s) \/ Proof(s) \/ Approval(s)
  PROVE  Standing'
  <1>1. disturbances \in Nat /\ at[s] # "idle"
    BY DEF Steady, RecordInv, Bounded, Start, Replay, Drift, Proof, Approval
  <1>2. /\ DOMAIN req[s] = ReqFields /\ req[s].call \in Request
        /\ Held(req[s], at[s], Policy, blocked, Now(req[s].call), upstream)
        /\ Stands(Policy, req[s].call, req[s].terminal.event, blocked, Now(req[s].call))
    BY <1>1, StandingCall DEF Steady
  <1>3. \A failed \in BOOLEAN : Raises(failed) => failed = FALSE
    BY <1>1 DEF Raises, Disturb
  <1>4. CASE Start(s)
    <2>1. CASE Authorize(s, req[s])
      BY <1>1, <1>2, <2>1, StandingAuthorize
    <2>2. CASE Goto(s, req[s], "replay")
      <3>1. Held(req[s], "replay", Policy, blocked, Now(req[s].call), upstream)
        BY <1>2 DEF Held
      <3> QED  BY <1>2, <2>2, <3>1, StandingGoes
    <2> QED  BY <1>4, <2>1, <2>2 DEF Start
  <1>5. CASE Replay(s)
    <2> DEFINE objects == req[s].call.nonce # "fresh"
               r == RetainIf(objects, req[s], "DENY_REPLAY")
    <2>1. Goto(s, r, "emit") \/ Authorize(s, r)
      <3>1. PICK failed \in BOOLEAN :
              /\ Raises(failed)
              /\ LET p == RetainIf(failed \/ req[s].call.nonce # "fresh", req[s], "DENY_REPLAY")
                 IN  IF mode = "enforce" /\ p.terminal # Undecided
                       THEN Goto(s, p, "emit")
                       ELSE Authorize(s, p)
        BY <1>5 DEF Replay
      <3>2. failed = FALSE
        BY <1>3, <3>1
      <3>3. (failed \/ req[s].call.nonce # "fresh") = objects
        BY <3>2
      <3> QED  BY <3>1, <3>3
    <2>2. objects \in BOOLEAN
      OBVIOUS
    <2> HIDE DEF objects
    <2>3. Stands(Policy, req[s].call, "DENY_REPLAY", blocked, Now(req[s].call))
      BY Aside DEF Repeated
    <2>4. /\ DOMAIN r = ReqFields /\ r.call = req[s].call
          /\ Stands(Policy, r.call, r.terminal.event, blocked, Now(req[s].call))
      <3> DEFINE p == req[s]
                 score == Now(p.call)
      <3>1. /\ DOMAIN p = ReqFields /\ r = RetainIf(objects, p, "DENY_REPLAY")
            /\ Stands(Policy, p.call, p.terminal.event, blocked, score)
            /\ objects => Stands(Policy, p.call, "DENY_REPLAY", blocked, score)
        BY <1>2, <2>3
      <3> HIDE DEF r, score
      <3>2. /\ DOMAIN r = ReqFields /\ r.call = p.call
            /\ Stands(Policy, r.call, r.terminal.event, blocked, score)
        <4> HIDE DEF p
        <4> QED  BY <2>2, <3>1, RetainedStands
      <3> QED  BY <3>2 DEF score
    <2> HIDE DEF r
    <2>5. CASE Goto(s, r, "emit")
      <3>1. Held(r, "emit", Policy, blocked, Now(r.call), upstream)
        BY <2>4 DEF Held
      <3> QED  BY <1>2, <2>4, <2>5, <3>1, StandingGoes
    <2>6. CASE Authorize(s, r)
      BY <1>1, <2>4, <2>6, StandingAuthorize
    <2> QED  BY <2>1, <2>5, <2>6
  <1>6. CASE Drift(s)
    <2> DEFINE objects == req[s].call.tool \in blocked
               stage == IF mode = "enforce" /\ req[s].call.proof # None
                          THEN "proof" ELSE Redemption(req[s].call)
    <2>1. Goto(s, RetainIf(objects, req[s], "DENY_DRIFT"), stage)
      <3>1. PICK failed \in BOOLEAN :
              /\ Raises(failed)
              /\ Goto(s, RetainIf(failed \/ req[s].call.tool \in blocked, req[s], "DENY_DRIFT"),
                      stage)
        BY <1>6 DEF Drift
      <3>2. failed = FALSE
        BY <1>3, <3>1
      <3>3. (failed \/ req[s].call.tool \in blocked) = objects
        BY <3>2
      <3> QED  BY <3>1, <3>3
    <2>2. objects \in BOOLEAN /\ stage \in {"proof", "approval", "score"} /\ at[s] = "drift"
      BY <1>6 DEF Drift, Redemption
    <2>3. objects => Stands(Policy, req[s].call, "DENY_DRIFT", blocked, Now(req[s].call))
      BY DEF Stands
    <2> HIDE DEF objects, stage
    <2> QED  BY <1>1, <2>1, <2>2, <2>3, StandingObjected
  <1>7. CASE Proof(s)
    <2>1. Stands(Policy, req[s].call, "DENY_STEP_UP", blocked, Now(req[s].call))
      BY Aside DEF Repeated
    <2>2. CASE Goto(s, Retain(req[s], "DENY_STEP_UP"), "emit")
      <3>1. Goto(s, RetainIf(TRUE, req[s], "DENY_STEP_UP"), "emit")
        BY <2>2 DEF RetainIf
      <3> QED  BY <1>1, <2>1, <3>1, StandingObjected
    <2>3. CASE Goto(s, [req[s] EXCEPT !.verified = TRUE], Redemption(req[s].call))
      <3> DEFINE q == [req[s] EXCEPT !.verified = TRUE]
      <3>1. q.call = req[s].call /\ q.grant = req[s].grant /\ q.terminal = req[s].terminal
        BY <1>2 DEF ReqFields
      <3>2. Goto(s, q, Redemption(req[s].call))
        BY <2>3
      <3> HIDE DEF q
      <3>3. at[s] = "proof" /\ Redemption(req[s].call) \in {"approval", "score"}
        BY <1>7 DEF Proof, Redemption
      <3>4. Held(q, Redemption(req[s].call), Policy, blocked, Now(q.call), upstream)
        BY <1>2, <3>1, <3>3 DEF Held
      <3> QED  BY <1>2, <3>1, <3>2, <3>3, <3>4, StandingGoes
    <2> QED  BY <1>7, <2>2, <2>3 DEF Proof
  <1>8. CASE Approval(s)
    <2>1. PICK failed \in BOOLEAN :
            Goto(s, RetainIf(failed \/ req[s].call.approval # "good", req[s],
                             "DENY_APPROVAL_MISMATCH"), "schema")
      BY <1>8 DEF Approval
    <2>2. Stands(Policy, req[s].call, "DENY_APPROVAL_MISMATCH", blocked, Now(req[s].call))
      BY Aside DEF Repeated
    <2> DEFINE objects == failed \/ req[s].call.approval # "good"
    <2>3. objects \in BOOLEAN
      OBVIOUS
    <2> HIDE DEF objects
    <2>4. Goto(s, RetainIf(objects, req[s], "DENY_APPROVAL_MISMATCH"), "schema")
      BY <2>1 DEF objects
    <2> QED  BY <1>1, <2>2, <2>3, <2>4, StandingObjected
  <1> QED  BY <1>4, <1>5, <1>6, <1>7, <1>8

(* A step of the pumps, on a state that can only score harder.             *)
LEMMA StandingLater ==
  ASSUME RecordInv, RecordInv', Standing, Hardens,
         \A t \in Tools :
           /\ t \in blocked' \/ baseline'[t].observed # None => Drifting(t)'
           /\ baseline'[t].observed # None => baseline'[t].observed = Lists[upstream][t],
         \A s \in Sessions : listing'[s].at = "judge" => listing'[s].list = upstream,
         \A s \in Sessions : at'[s] # "idle" =>
           /\ req'[s].call \in Request
           /\ Held(req'[s], at'[s], Policy, blocked, Now(req'[s].call), upstream),
         \A row \in ledger' :
           row.call \in Request /\ Stands(Policy, row.call, row.event, blocked, Now(row.call))
  PROVE  Standing'
  <1>1. UNCHANGED <<upstream, decay>>
    BY DEF Hardens
  <1>2. ASSUME NEW s \in Sessions, at'[s] # "idle"
        PROVE  Held(req'[s], at'[s], Policy', blocked', Now(req[s].call)', upstream')
    <2>1. PICK q : q = req'[s]
      OBVIOUS
    <2>2. q.call \in Request /\ Held(q, at'[s], Policy, blocked, Now(q.call), upstream)
      BY <1>2, <2>1
    <2>3. Held(q, at'[s], Policy', blocked', Now(q.call)', upstream')
      <3>1. PICK c \in Request : c = q.call
        BY <2>2
      <3> QED  BY <2>2, HeldLater
    <2> QED  BY <2>1, <2>3
  <1>3. \A row \in ledger' : Stands(Policy', row.call, row.event, blocked', Now(row.call)')
    BY HeldLater
  <1> QED  BY <1>1, <1>2, <1>3 DEF Standing

(* What stays as it is, for StandingLater.                                 *)
LEMMA StandingNow ==
  ASSUME RecordInv, Standing
  PROVE  /\ \A s \in Sessions : at[s] # "idle" =>
              /\ DOMAIN req[s] = ReqFields /\ req[s].call \in Request
              /\ Held(req[s], at[s], Policy, blocked, Now(req[s].call), upstream)
         /\ \A row \in ledger :
              /\ row.call \in Request
              /\ Stands(Policy, row.call, row.event, blocked, Now(row.call))
  <1>1. \A row \in ledger : row.call \in Request
    BY CallsAssumption DEF RecordInv, OwnRows
  <1> QED  BY <1>1, StandingCall DEF Standing

-----------------------------------------------------------------------------
(* The risk engine: the score it acts on is the one of a replay now.       *)
LEMMA StandingAssess ==
  ASSUME Steady, UNCHANGED disturbances, NEW s \in Sessions, Assess(s)
  PROVE  Standing'
  <1> DEFINE score == Now(req[s].call)
             threshold == threshold_outcome(score)
             violates == ViolatesRisk(req[s].grant, score)
             r == RetainIf(violates, req[s], "DENY_ABAC")
             objects == threshold # "ALLOW" /\ ~(threshold = "CHALLENGE" /\ r.verified)
             q == RetainIf(objects, r, threshold)
  <1>1. at[s] = "score" /\ disturbances \in Nat
    BY DEF Assess, Steady, RecordInv, Bounded
  <1>2. /\ DOMAIN req[s] = ReqFields /\ req[s].call \in Request /\ score \in 0..100
        /\ Held(req[s], "score", Policy, blocked, score, upstream)
        /\ Stands(Policy, req[s].call, req[s].terminal.event, blocked, score)
    BY <1>1, StandingCall DEF Steady
  <1>3. Goto(s, q, "schema")
    <2>1. PICK failed \in BOOLEAN, bumped \in {frequency[req[s].call.tool] + 1} :
            /\ Raises(failed)
            /\ LET sc == IF failed THEN 100 ELSE ScoreOf(Policy, req[s].call, bumped)
                   th == threshold_outcome(sc)
                   p == RetainIf(ViolatesRisk(req[s].grant, sc), req[s], "DENY_ABAC")
                   cleared == th = "CHALLENGE" /\ p.verified
               IN  Goto(s, RetainIf(th # "ALLOW" /\ ~cleared, p, th), "schema")
      BY DEF Assess
    <2>2. failed = FALSE
      BY <1>1, <2>1 DEF Raises, Disturb
    <2>3. ScoreOf(Policy, req[s].call, bumped) = score
      BY <2>1 DEF Now
    <2> HIDE DEF score
    <2> QED  BY <2>1, <2>2, <2>3
  <1>4. req[s].grant = matching_grant(Policy, req[s].call.tool)
    BY <1>2 DEF Held
  <1>5. violates \in BOOLEAN /\ (violates => Stands(Policy, req[s].call, "DENY_ABAC", blocked, score))
    BY <1>4 DEF Stands, ViolatesRisk
  <1>6. threshold # "ALLOW" => Stands(Policy, req[s].call, threshold, blocked, score)
    <2>1. threshold \in Outcomes /\ (threshold = "ALLOW" <=> score < 40)
      BY <1>2, Bands
    <2> HIDE DEF score, threshold
    <2> QED  BY <1>2, <2>1 DEF Stands, Outcomes
  <1> HIDE DEF score, violates, threshold
  <1>7. /\ DOMAIN r = ReqFields /\ r.call = req[s].call /\ r.grant = req[s].grant
        /\ Stands(Policy, r.call, r.terminal.event, blocked, score)
    <2> DEFINE p == req[s]
    <2>1. /\ DOMAIN p = ReqFields /\ r = RetainIf(violates, p, "DENY_ABAC")
          /\ Stands(Policy, p.call, p.terminal.event, blocked, score)
          /\ violates => Stands(Policy, p.call, "DENY_ABAC", blocked, score)
          /\ p = req[s]
      BY <1>2, <1>5
    <2> HIDE DEF p, r
    <2> QED  BY <1>5, <2>1, RetainedStands
  <1>8. objects \in BOOLEAN
    OBVIOUS
  <1>9. objects => Stands(Policy, r.call, threshold, blocked, score)
    BY <1>6, <1>7
  <1> HIDE DEF r, objects
  <1>10. q.call = r.call /\ Stands(Policy, q.call, q.terminal.event, blocked, score)
    BY <1>7, <1>8, <1>9, RetainedStands
  <1> HIDE DEF q
  <1>11. Held(q, "schema", Policy, blocked, Now(q.call), upstream) /\ q.call \in Request
    BY <1>2, <1>7, <1>10 DEF Held, score
  <1> QED  BY <1>3, <1>11, StandingGoes

(* A call whose arguments do not fit, or that is allowed, objects to       *)
(* nothing that a replay would.                                            *)
LEMMA StandingValidate ==
  ASSUME Steady, NEW s \in Sessions, at[s] # "idle", NEW list, Validate(s, list)
  PROVE  Standing'
  <1> DEFINE r == [req[s] EXCEPT !.list = list]
             objects == ~Validates(req[s].call, list)
             r1 == RetainIf(objects, r, "DENY_VALIDATION")
             q == RetainIf(TRUE, r1, "ALLOW")
             score == Now(r.call)
  <1>1. /\ DOMAIN req[s] = ReqFields /\ req[s].call \in Request
        /\ Stands(Policy, req[s].call, req[s].terminal.event, blocked, Now(req[s].call))
    BY StandingCall DEF Steady
  <1>2. Goto(s, q, "emit")
    BY DEF Validate, RetainIf
  <1>3. DOMAIN r = ReqFields /\ r.call = req[s].call /\ r.terminal = req[s].terminal
    BY <1>1 DEF ReqFields
  <1>4. objects \in BOOLEAN
    BY DEF Validates
  <1> HIDE DEF r, objects
  <1>5. Stands(Policy, r.call, r.terminal.event, blocked, score)
    BY <1>1, <1>3
  <1> HIDE DEF score
  <1>6. Stands(Policy, r.call, "DENY_VALIDATION", blocked, score)
    BY Aside DEF Repeated
  <1>7. /\ DOMAIN r1 = ReqFields /\ r1.call = r.call
        /\ Stands(Policy, r1.call, r1.terminal.event, blocked, score)
    BY <1>3, <1>4, <1>5, <1>6, RetainedStands
  <1> HIDE DEF r1
  <1>8. Stands(Policy, r1.call, "ALLOW", blocked, score)
    BY Aside DEF Repeated
  <1>9. q.call = r1.call /\ Stands(Policy, q.call, q.terminal.event, blocked, score)
    BY <1>7, <1>8, RetainedStands
  <1> HIDE DEF q
  <1>10. Held(q, "emit", Policy, blocked, Now(q.call), upstream) /\ q.call \in Request
    BY <1>1, <1>3, <1>7, <1>9 DEF Held, score
  <1> QED  BY <1>2, <1>10, StandingGoes

(* The call alone moves on, and is what it was.                            *)
LEMMA StandingStage ==
  ASSUME Steady, NEW s \in Sessions, at[s] # "idle", UNCHANGED req,
         NEW stage, stage \notin {"drift", "proof", "approval", "score", "judge"},
         at' = [at EXCEPT ![s] = stage]
  PROVE  Standing'
  <1>1. req' = [req EXCEPT ![s] = req[s]]
    BY DEF Steady, RecordInv, Pumps
  <1>2. /\ req[s].call \in Request
        /\ Held(req[s], stage, Policy, blocked, Now(req[s].call), upstream)
    BY StandingCall DEF Steady, Held
  <1> QED  BY <1>1, <1>2, StandingMoves DEF Steady

(* The stages behind it, up to the record.                                 *)
LEMMA StandingSchema ==
  ASSUME Steady, UNCHANGED disturbances, NEW s \in Sessions,
         \/ ReadCache(s) \/ Fetched(s) \/ PutFetched(s) \/ FetchTimesOut(s)
         \/ Emit(s) \/ Register(s) \/ Conclude(s)
  PROVE  Standing'
  <1>1. CASE ReadCache(s)
    <2>1. at[s] # "idle"
      BY <1>1 DEF ReadCache
    <2>2. Validate(s, cache) \/ (at' = [at EXCEPT ![s] = "fetch"] /\ UNCHANGED req)
      BY <1>1 DEF ReadCache
    <2> QED  BY <2>1, <2>2, StandingValidate, StandingStage
  <1>2. CASE Fetched(s)
    <2> DEFINE q == [req[s] EXCEPT !.list = upstream]
    <2>1. /\ at[s] # "idle" /\ at' = [at EXCEPT ![s] = "judge"]
          /\ req' = [req EXCEPT ![s] = q]
      BY <1>2 DEF Fetched
    <2>2. /\ DOMAIN req[s] = ReqFields /\ req[s].call \in Request
          /\ Stands(Policy, req[s].call, req[s].terminal.event, blocked, Now(req[s].call))
      BY <2>1, StandingCall DEF Steady
    <2>3. q.call = req[s].call /\ q.terminal = req[s].terminal /\ q.list = upstream
      BY <2>2 DEF ReqFields
    <2> HIDE DEF q
    <2>4. q.call \in Request /\ Held(q, "judge", Policy, blocked, Now(q.call), upstream)
      BY <2>2, <2>3 DEF Held
    <2> QED  BY <2>1, <2>4, StandingMoves DEF Steady
  <1>3. CASE PutFetched(s)
    BY <1>3, StandingValidate DEF PutFetched
  <1>4. CASE FetchTimesOut(s)
    BY <1>4, StandingValidate DEF FetchTimesOut
  <1>5. CASE Emit(s)
    BY <1>5, StandingStage DEF Emit, Stage
  <1>6. CASE Register(s)
    BY <1>6, StandingStage DEF Register, Stage, Outcome
  <1>7. CASE Conclude(s)
    BY <1>7, StandingMoves DEF Conclude, Steady
  <1> QED  BY <1>1, <1>2, <1>3, <1>4, <1>5, <1>6, <1>7

(* The row says what the call has retained.                                *)
LEMMA StandingWrite ==
  ASSUME RecordInv, RecordInv', Standing, Hardens, NEW s \in Sessions,
         Write(s) \/ WriteRepeats(s)
  PROVE  Standing'
  <1>1. /\ at[s] = "write" /\ ledger' = ledger \cup {Row(s)}
        /\ UNCHANGED <<baseline, blocked, listing, upstream, req>>
        /\ \A t \in Sessions : at'[t] # "idle" =>
             at[t] # "idle" /\ at'[t] \in {at[t], "register", "forward", "denied"}
    BY DEF Write, WriteRepeats, Stage, Outcome, ClientPump, shared, RecordInv, Pumps
  <1>2. \A t \in Sessions : at'[t] # "idle" =>
          /\ req'[t].call \in Request
          /\ Held(req'[t], at'[t], Policy, blocked, Now(req'[t].call), upstream)
    BY <1>1, StandingNow DEF Held
  <1>3. /\ Row(s).call = req[s].call /\ Row(s).event = req[s].terminal.event
        /\ req[s].call \in Request
        /\ Stands(Policy, req[s].call, req[s].terminal.event, blocked, Now(req[s].call))
    BY <1>1, StandingCall DEF Row, Event
  <1>4. \A row \in ledger' :
          row.call \in Request /\ Stands(Policy, row.call, row.event, blocked, Now(row.call))
    <2>1. ASSUME NEW row, row = Row(s)
          PROVE  /\ row.call \in Request
                 /\ Stands(Policy, row.call, row.event, blocked, Now(row.call))
      <3>1. row.call = req[s].call /\ row.event = req[s].terminal.event
        BY <1>3, <2>1
      <3> QED  BY <1>3, <3>1
    <2> QED  BY <1>1, <2>1, StandingNow
  <1>5. /\ \A t \in Tools :
             /\ t \in blocked' \/ baseline'[t].observed # None => Drifting(t)'
             /\ baseline'[t].observed # None => baseline'[t].observed = Lists[upstream][t]
        /\ \A t \in Sessions : listing'[t].at = "judge" => listing'[t].list = upstream
    BY <1>1 DEF Standing, Drifting, Drifted
  <1> QED  BY <1>2, <1>4, <1>5, StandingLater

(* A drift check of what the upstream serves: it finds every drift that    *)
(* was found before.                                                       *)
LEMMA CheckHardens ==
  ASSUME RecordInv, Standing, Checked(Lists[upstream]), UNCHANGED upstream
  PROVE  /\ blocked \subseteq blocked'
         /\ \A t \in Tools :
              /\ drifts[t] <= drifts'[t]
              /\ baseline[t].observed # None => baseline'[t].observed # None
              /\ baseline[t].approved \in Suspicious => baseline'[t].approved \in Suspicious
         /\ \A t \in Tools :
              /\ t \in blocked' \/ baseline'[t].observed # None => Drifting(t)'
              /\ baseline'[t].observed # None => baseline'[t].observed = Lists[upstream][t]
  <1>1. /\ baseline \in [Tools -> [approved : Schemas \cup {None},
                                   observed : Schemas \cup {None}]]
        /\ blocked \subseteq Tools
    BY DEF RecordInv, Baselines
  <1> SUFFICES ASSUME NEW t \in Tools
        PROVE  /\ t \in blocked => t \in blocked'
               /\ baseline[t].observed # None => baseline'[t].observed # None
               /\ baseline[t].approved \in Suspicious => baseline'[t].approved \in Suspicious
               /\ t \in blocked' \/ baseline'[t].observed # None => Drifting(t)'
               /\ baseline'[t].observed # None => baseline'[t].observed = Lists[upstream][t]
    <2>1. \A t \in Tools : drifts[t] <= drifts'[t]
      BY NotedCounts DEF Checked, RecordInv
    <2> QED  BY <1>1, <2>1
  <1> DEFINE list == Lists[upstream]
  <1>2. /\ t \in blocked \/ baseline[t].observed # None => Drifting(t)
        /\ baseline[t].observed # None => baseline[t].observed = list[t]
    BY DEF Standing
  <1>3. Drifting(t) <=> t \in DOMAIN list /\ baseline[t].approved \notin {None, list[t]}
    BY DEF Drifting, Drifted
  <1>4. Drifting(t)' <=> t \in DOMAIN list /\ baseline'[t].approved \notin {None, list[t]}
    BY DEF Drifting, Drifted
  <1>5. /\ baseline'[t] =
             (IF t \in DOMAIN list /\ baseline[t].approved \notin {None, list[t]}
                THEN [baseline[t] EXCEPT !.observed = list[t]]
                ELSE IF t \in DOMAIN list
                       THEN [approved |-> list[t], observed |-> None] ELSE baseline[t])
        /\ t \in blocked' <=>
             (IF t \in DOMAIN list
                THEN /\ t \in DOMAIN list /\ baseline[t].approved \notin {None, list[t]}
                     /\ \/ <<baseline[t].approved, list[t]>> \notin Harmless
                        \/ t \in blocked
                ELSE t \in blocked)
    BY DEF Checked, Drifted, Blocks
  <1> HIDE DEF list
  <1>6. CASE Drifting(t)
    <2>1. baseline'[t] = [baseline[t] EXCEPT !.observed = list[t]]
      BY <1>3, <1>5, <1>6
    <2>2. baseline'[t].approved = baseline[t].approved /\ baseline'[t].observed = list[t]
      BY <1>1, <2>1
    <2> QED  BY <1>2, <1>3, <1>4, <1>5, <1>6, <2>2 DEF list
  <1>7. CASE ~Drifting(t)
    <2>1. CASE t \in DOMAIN list
      <3>1. baseline'[t] = [approved |-> list[t], observed |-> None] /\ t \notin blocked'
        BY <1>3, <1>5, <1>7, <2>1
      <3>2. baseline[t].approved \in Suspicious => baseline'[t].approved \in Suspicious
        BY <1>3, <1>7, <2>1, <3>1, CallsAssumption
      <3> QED  BY <1>2, <1>7, <3>1, <3>2
    <2>2. CASE t \notin DOMAIN list
      <3>1. baseline'[t] = baseline[t] /\ (t \in blocked' <=> t \in blocked)
        BY <1>5, <2>2
      <3> QED  BY <1>2, <1>7, <3>1
    <2> QED  BY <2>1, <2>2
  <1> QED  BY <1>6, <1>7

LEMMA StandingChecked ==
  ASSUME RecordInv, RecordInv', Standing, Checked(Lists[upstream]),
         UNCHANGED <<engine, upstream, frequency, denials, decay, ledger>>,
         UNCHANGED at \/ \E s \in Sessions : at[s] = "judge" /\ at' = [at EXCEPT ![s] = "put"],
         UNCHANGED listing \/ \E s \in Sessions : listing' = [listing EXCEPT ![s].at = "put"]
  PROVE  Standing'
  <1>1. Hardens
    <2>1. \A t \in Tools : frequency[t] <= frequency'[t]
      BY DEF RecordInv, Counters
    <2>2. denials <= denials'
      BY DEF RecordInv, Counters
    <2> QED  BY <2>1, <2>2, CheckHardens DEF Hardens
  <1>2. \A s \in Sessions : listing'[s].at = "judge" => listing'[s].list = upstream
    BY DEF RecordInv, Listings, Standing
  <1>3. ASSUME NEW s \in Sessions, at'[s] # "idle"
        PROVE  /\ req'[s].call \in Request
               /\ Held(req'[s], at'[s], Policy, blocked, Now(req'[s].call), upstream)
    <2>1. at[s] # "idle" /\ at'[s] \in {at[s], "put"}
      BY <1>3 DEF RecordInv, Pumps
    <2>2. /\ DOMAIN req[s] = ReqFields /\ req[s].call \in Request
          /\ Held(req[s], at[s], Policy, blocked, Now(req[s].call), upstream)
      BY <2>1, StandingNow
    <2>3. req'[s] = req[s] \/ req'[s] = [req[s] EXCEPT !.open = TRUE]
      BY DEF Checked, Reopened
    <2>4. /\ req'[s].call = req[s].call /\ req'[s].terminal = req[s].terminal
          /\ req'[s].grant = req[s].grant /\ req'[s].list = req[s].list
      BY <2>2, <2>3 DEF ReqFields
    <2> QED  BY <2>1, <2>2, <2>4 DEF Held
  <1>4. \A row \in ledger' :
          row.call \in Request /\ Stands(Policy, row.call, row.event, blocked, Now(row.call))
    BY StandingNow
  <1> QED  BY <1>1, <1>2, <1>3, <1>4, CheckHardens, StandingLater

(* A new call has no objection yet.                                        *)
LEMMA StandingReceive ==
  ASSUME Steady, NEW s \in Sessions, NEW c \in Calls, Receive(s, c)
  PROVE  Standing'
  <1>1. PICK r : Goto(s, r, "start") /\ r.call = c /\ r.terminal = Undecided
    BY DEF Receive
  <1>2. Stands(Policy, r.call, r.terminal.event, blocked, Now(r.call))
    <2>1. r.terminal.event \notin Repeated
      BY <1>1 DEF Undecided, None, Repeated
    <2> QED  BY <2>1, Aside
  <1>3. Held(r, "start", Policy, blocked, Now(r.call), upstream) /\ r.call \in Request
    BY <1>1, <1>2, CallsAssumption DEF Held
  <1> QED  BY <1>1, <1>3, StandingGoes

(* The requests that are forwarded as they come, and the upstream pump     *)
(* between its drift checks.                                               *)
LEMMA StandingLists ==
  ASSUME RecordInv, RecordInv', Standing, NEW s \in Sessions,
         Initialize(s) \/ RequestList(s) \/ AnswerList(s) \/ PutList(s) \/ ServeList(s)
  PROVE  Standing'
  <1>1. /\ UNCHANGED <<engine, upstream, baseline, blocked, frequency, denials, drifts, decay, ledger,
                       at, req>>
        /\ \/ UNCHANGED listing
           \/ \E stage \in {"sent", "record"} : listing' = [listing EXCEPT ![s].at = stage]
           \/ listing' = [listing EXCEPT ![s] = [at |-> "judge", list |-> upstream]]
           \/ listing' = [listing EXCEPT ![s] = NoListing]
    BY DEF Initialize, RequestList, AnswerList, PutList, ServeList, Listing, UpstreamPump, shared
  <1>2. Hardens
    <2>1. /\ \A t \in Tools : frequency[t] \in Nat /\ drifts[t] \in Nat
          /\ denials \in Nat
      BY DEF RecordInv, Counters
    <2>2. /\ \A t \in Tools : frequency[t] <= frequency'[t] /\ drifts[t] <= drifts'[t]
          /\ denials <= denials'
      BY <1>1, <2>1
    <2> QED  BY <1>1, <2>2 DEF Hardens
  <1>3. \A t \in Sessions : listing'[t].at = "judge" => listing'[t].list = upstream
    BY <1>1 DEF RecordInv, Listings, Standing, NoListing
  <1>4. \A t \in Tools :
          /\ t \in blocked' \/ baseline'[t].observed # None => Drifting(t)'
          /\ baseline'[t].observed # None => baseline'[t].observed = Lists[upstream][t]
    BY <1>1 DEF Standing, Drifting, Drifted
  <1>5. /\ \A t \in Sessions : at'[t] # "idle" =>
             /\ req'[t].call \in Request
             /\ Held(req'[t], at'[t], Policy, blocked, Now(req'[t].call), upstream)
        /\ \A row \in ledger' :
             row.call \in Request /\ Stands(Policy, row.call, row.event, blocked, Now(row.call))
    BY <1>1, StandingNow
  <1> QED  BY <1>2, <1>3, <1>4, <1>5, StandingLater

(* Every step that does not disturb keeps every objection standing.        *)
LEMMA StandingStep ==
  RecordInv /\ RecordInv' /\ StandingInv /\ [Next]_vars => StandingInv'
  <1> SUFFICES ASSUME RecordInv, RecordInv', StandingInv, [Next]_vars, disturbances' = 0
               PROVE  Standing'
    BY DEF StandingInv
  <1>1. disturbances = 0 /\ UNCHANGED disturbances /\ Standing
    BY CountedUp DEF StandingInv
  <1>2. /\ \A t \in Tools : frequency[t] \in Nat /\ drifts[t] \in Nat
        /\ denials \in Nat
    BY DEF RecordInv, Counters
  <1>3. ASSUME UNCHANGED <<engine, upstream, baseline, blocked, drifts, decay, listing, ledger>>,
               \A t \in Tools : frequency[t] <= frequency'[t], denials <= denials'
        PROVE  Steady
    <2>1. \A t \in Tools : drifts[t] <= drifts'[t]
      BY <1>2, <1>3
    <2> QED  BY <1>1, <1>3, <2>1 DEF Steady, Hardens
  <1>4. ASSUME NEW s \in Sessions, NEW c \in Calls, Receive(s, c)  PROVE Standing'
    <2>1. UNCHANGED <<engine, upstream, baseline, blocked, drifts, decay, listing, ledger,
                      frequency, denials>>
      BY <1>4 DEF Receive, shared
    <2> QED  BY <1>2, <1>3, <1>4, <2>1, StandingReceive
  <1>5. ASSUME NEW s \in Sessions,
               Initialize(s) \/ RequestList(s) \/ AnswerList(s) \/ PutList(s) \/ ServeList(s)
        PROVE  Standing'
    BY <1>1, <1>5, StandingLists
  <1>6. ASSUME NEW s \in Sessions, Start(s) \/ Replay(s) \/ Drift(s) \/ Proof(s) \/ Approval(s)
        PROVE  Standing'
    <2>1. UNCHANGED <<engine, upstream, baseline, blocked, drifts, decay, listing, ledger,
                      frequency, denials>>
      BY <1>6 DEF Start, Replay, Drift, Proof, Approval, ClientPump, shared
    <2> QED  BY <1>1, <1>2, <1>3, <1>6, <2>1, StandingAdmission
  <1>7. ASSUME NEW s \in Sessions, Assess(s)  PROVE Standing'
    <2>1. UNCHANGED <<engine, upstream, baseline, blocked, drifts, decay, listing, ledger,
                      denials>>
      BY <1>7 DEF Assess, ClientPump
    <2>2. frequency' \in {[frequency EXCEPT ![req[s].call.tool] =
                             frequency[req[s].call.tool] + 1], frequency}
      BY <1>7 DEF Assess
    <2>3. \A t \in Tools : frequency[t] <= frequency'[t]
      BY <1>2, <2>2 DEF RecordInv, Counters
    <2> QED  BY <1>1, <1>2, <1>3, <1>7, <2>1, <2>3, StandingAssess
  <1>8. ASSUME NEW s \in Sessions, ReadCache(s) \/ Fetched(s) \/ PutFetched(s) \/ FetchTimesOut(s)
                                   \/ Register(s) \/ Conclude(s)
        PROVE  Standing'
    <2>1. UNCHANGED <<engine, upstream, baseline, blocked, drifts, decay, listing, ledger,
                      frequency, denials>>
      BY <1>8 DEF ReadCache, Fetched, PutFetched, FetchTimesOut, Register, Conclude,
                  ClientPump, shared
    <2> QED  BY <1>1, <1>2, <1>3, <1>8, <2>1, StandingSchema
  <1>9. ASSUME NEW s \in Sessions, Emit(s)  PROVE Standing'
    <2>1. /\ UNCHANGED <<engine, upstream, baseline, blocked, drifts, decay, listing, ledger,
                         frequency>>
          /\ denials' \in {denials, denials + 0, denials + 1}
      BY <1>9 DEF Emit, ClientPump
    <2> QED  BY <1>1, <1>2, <1>3, <1>9, <2>1, StandingSchema
  <1>10. ASSUME NEW s \in Sessions, Write(s) \/ WriteRepeats(s)  PROVE Standing'
    <2>1. UNCHANGED <<engine, upstream, baseline, blocked, frequency, denials, drifts, decay>>
      BY <1>10 DEF Write, WriteRepeats, shared
    <2>2. Hardens
      <3>1. /\ \A t \in Tools : frequency[t] <= frequency'[t] /\ drifts[t] <= drifts'[t]
            /\ denials <= denials'
        BY <1>2, <2>1
      <3> QED  BY <2>1, <3>1 DEF Hardens
    <2> QED  BY <1>1, <1>10, <2>2, StandingWrite
  <1>11. ASSUME NEW s \in Sessions, JudgeFetched(s)  PROVE Standing'
    <2>1. at[s] = "judge" /\ req[s].list = upstream
      BY <1>1, <1>11 DEF JudgeFetched, Standing, Held
    <2> QED  BY <1>1, <1>11, <2>1, StandingChecked DEF JudgeFetched, ClientPump
  <1>12. ASSUME NEW s \in Sessions, JudgeList(s)  PROVE Standing'
    <2>1. listing[s].list = upstream
      BY <1>1, <1>12 DEF JudgeList, Standing
    <2> QED  BY <1>1, <1>12, <2>1, StandingChecked DEF JudgeList, Listing
  <1>13. ASSUME UNCHANGED vars  PROVE Standing'
    <2>1. UNCHANGED <<engine, upstream, baseline, blocked, frequency, denials, drifts, decay, ledger,
                      listing, at, req>>
      BY <1>13 DEF vars, shared
    <2>2. Hardens
      <3>1. /\ \A t \in Tools : frequency[t] <= frequency'[t] /\ drifts[t] <= drifts'[t]
            /\ denials <= denials'
        BY <1>2, <2>1
      <3> QED  BY <2>1, <3>1 DEF Hardens
    <2>3. /\ \A t \in Tools :
               /\ t \in blocked' \/ baseline'[t].observed # None => Drifting(t)'
               /\ baseline'[t].observed # None => baseline'[t].observed = Lists[upstream][t]
          /\ \A s \in Sessions : listing'[s].at = "judge" => listing'[s].list = upstream
      BY <1>1, <2>1 DEF Standing, Drifting, Drifted
    <2>4. /\ \A t \in Sessions : at'[t] # "idle" =>
               /\ req'[t].call \in Request
               /\ Held(req'[t], at'[t], Policy, blocked, Now(req'[t].call), upstream)
          /\ \A row \in ledger' :
               row.call \in Request /\ Stands(Policy, row.call, row.event, blocked, Now(row.call))
      BY <1>1, <2>1, StandingNow
    <2> QED  BY <1>1, <2>2, <2>3, <2>4, StandingLater
  <1>14. ASSUME \/ \E s \in Sessions : FetchFails(s) \/ WriteFails(s) \/ ListFails(s)
                \/ ActivatePolicy \/ UpstreamChanges \/ Expire
                \/ \E t \in Tools : ApproveTool(t) \/ ApproveCall(t)
         PROVE  FALSE
    <2>1. Disturb
      BY <1>14 DEF FetchFails, WriteFails, ListFails, ActivatePolicy, UpstreamChanges, Expire,
                   ApproveTool, ApproveCall, World
    <2> QED  BY <1>1, <2>1 DEF Disturb
  <1> QED  BY <1>4, <1>5, <1>6, <1>7, <1>8, <1>9, <1>10, <1>11, <1>12, <1>13, <1>14
           DEF Next, ClientSends, ClientStep, UpstreamStep

LEMMA StandingInit ==
  Init => StandingInv
  <1> SUFFICES ASSUME Init  PROVE Standing
    BY DEF StandingInv
  <1>1. /\ decay = [t \in Tools |-> 0] /\ blocked = {} /\ ledger = {}
        /\ \A t \in Tools : baseline[t].observed = None
        /\ \A s \in Sessions : at[s] = "idle" /\ listing[s].at = "idle"
    BY DEF Init, NoListing
  <1> QED  BY <1>1 DEF Standing

(* What the stages of the dry run tell of its decision, arguments left     *)
(* aside: with no objection of the policy it is none of its denials, and   *)
(* with any objection it is no ALLOW.                                      *)
LEMMA FirstStage ==
  ASSUME NEW stages, stages[7] = {"ALLOW"}
  PROVE  \E i \in 1..7 : stages[i] # {} /\ \A j \in 1..(i - 1) : stages[j] = {}
  <1> SUFFICES ASSUME \A i \in 1..7 : ~(stages[i] # {} /\ \A j \in 1..(i - 1) : stages[j] = {})
               PROVE  FALSE
    OBVIOUS
  <1> DEFINE Empty(i) == \A j \in 1..i : stages[j] = {}
  <1>1. ASSUME NEW i \in 1..7, Empty(i - 1)  PROVE Empty(i)
    <2>1. stages[i] = {}
      BY <1>1
    <2>2. \A j \in 1..i : j = i \/ j \in 1..(i - 1)
      OBVIOUS
    <2> QED  BY <1>1, <2>1, <2>2
  <1>2. Empty(0)
    OBVIOUS
  <1> HIDE DEF Empty
  <1>3. Empty(1 - 1) /\ 1 \in 1..7
    BY <1>2
  <1>4. Empty(2 - 1) /\ 2 \in 1..7
    BY <1>1, <1>3
  <1>5. Empty(3 - 1) /\ 3 \in 1..7
    BY <1>1, <1>4
  <1>6. Empty(4 - 1) /\ 4 \in 1..7
    BY <1>1, <1>5
  <1>7. Empty(5 - 1) /\ 5 \in 1..7
    BY <1>1, <1>6
  <1>8. Empty(6 - 1) /\ 6 \in 1..7
    BY <1>1, <1>7
  <1>9. Empty(7 - 1) /\ 7 \in 1..7
    BY <1>1, <1>8
  <1>10. Empty(7)
    BY <1>1, <1>9
  <1> QED  BY <1>10 DEF Empty

LEMMA DryRun ==
  ASSUME NEW p, NEW c, ScoreOf(p, c, frequency[c.tool] + 1) \in 0..100
  PROVE  LET grant == matching_grant(p, c.tool)
             score == ScoreOf(p, c, frequency[c.tool] + 1)
             event == explain_call(p, c, FALSE)
             objects == grant = {} \/ Violates(grant, c) \/ ViolatesRisk(grant, score)
         IN  /\ ~objects => event \notin {"DENY_RBAC", "DENY_ABAC"}
             /\ objects \/ c.tool \in blocked \/ score >= 40 => event # "ALLOW"
  <1> DEFINE stages == Objections(p, c, FALSE)
             grant == matching_grant(p, c.tool)
             score == ScoreOf(p, c, frequency[c.tool] + 1)
             threshold == threshold_outcome(score)
             ungranted == grant = {}
             violates == Violates(grant, c)
             risky == ViolatesRisk(grant, score)
             drifted == c.tool \in blocked
             event == explain_call(p, c, FALSE)
             first == CHOOSE i \in DOMAIN stages :
                        stages[i] # {} /\ \A j \in 1..(i - 1) : stages[j] = {}
  <1>1. /\ DOMAIN stages = 1..7
        /\ stages[1] = Raised(ungranted, "DENY_RBAC") /\ stages[2] = Raised(violates, "DENY_ABAC")
        /\ stages[3] = Raised(drifted, "DENY_DRIFT") /\ stages[4] = Raised(risky, "DENY_ABAC")
        /\ stages[5] = {threshold} \ {"ALLOW"}
        /\ stages[6] = Raised(FALSE /\ ~Validates(c, cache), "DENY_VALIDATION")
        /\ stages[7] = {"ALLOW"}
    BY DEF Objections
  <1>2. threshold \in Outcomes /\ (threshold = "ALLOW" <=> score < 40) /\ score \in 0..100
    BY Bands
  <1>3. event = CHOOSE e \in stages[first] : TRUE
    BY DEF explain_call
  <1> HIDE DEF stages, event, threshold, score, grant, ungranted, violates, risky, drifted
  <1>4. first \in 1..7 /\ stages[first] # {} /\ \A j \in 1..(first - 1) : stages[j] = {}
    BY <1>1, FirstStage
  <1> HIDE DEF first
  <1>5. event \in stages[first]
    BY <1>3, <1>4
  <1>6. ASSUME ~ungranted, ~violates, ~risky
        PROVE  event \notin {"DENY_RBAC", "DENY_ABAC"}
    <2>1. stages[1] = {} /\ stages[2] = {} /\ stages[4] = {} /\ stages[6] = {}
      BY <1>1, <1>6 DEF Raised
    <2>2. stages[3] \subseteq {"DENY_DRIFT"} /\ stages[5] \subseteq Outcomes
      BY <1>1, <1>2 DEF Raised
    <2>3. first \in {3, 5, 7}
      BY <1>4, <2>1
    <2> QED  BY <1>1, <1>5, <2>2, <2>3 DEF Outcomes
  <1>7. ASSUME ungranted \/ violates \/ risky \/ drifted \/ score >= 40
        PROVE  event # "ALLOW"
    <2>1. \/ stages[1] # {} \/ stages[2] # {} \/ stages[3] # {} \/ stages[4] # {}
          \/ stages[5] # {}
      <3>1. score >= 40 => threshold # "ALLOW"
        BY <1>2
      <3> QED  BY <1>1, <1>7, <3>1 DEF Raised
    <2>2. first \in 1..5
      BY <1>4, <2>1
    <2>3. \A i \in 1..5 : "ALLOW" \notin stages[i]
      <3>1. "ALLOW" \notin stages[1] /\ "ALLOW" \notin stages[2] /\ "ALLOW" \notin stages[3]
            /\ "ALLOW" \notin stages[4] /\ "ALLOW" \notin stages[5]
        BY <1>1 DEF Raised
      <3> QED  BY <3>1
    <2> QED  BY <1>5, <2>2, <2>3
  <1> QED  BY <1>6, <1>7 DEF event, score, grant, ungranted, violates, risky, drifted

(* A scaffold grants the tools that were observed, on no condition.        *)
LEMMA Scaffolds ==
  ASSUME NEW base \in IdentityPolicy, NEW rows, Observed(rows) \subseteq Tools
  PROVE  LET candidate == scaffold(base, rows)
         IN  /\ candidate \in IdentityPolicy
             /\ \A t :
                  /\ t \in Observed(rows) <=> matching_grant(candidate, t) # {}
                  /\ \A g \in matching_grant(candidate, t) : g.attributes = {} /\ g.limit = 101
  <1> DEFINE g == [allowed |-> Observed(rows), denied |-> {}, attributes |-> {}, limit |-> 101]
             candidate == scaffold(base, rows)
  <1>1. /\ g \in ServerGrant /\ g.allowed = Observed(rows) /\ g.denied = {}
        /\ g.attributes = {} /\ g.limit = 101
    BY DEF ServerGrant
  <1>2. candidate = [base EXCEPT !.grants = <<g>>, !.tier = [t \in Tools |-> "none"]]
    BY DEF scaffold
  <1> HIDE DEF g, candidate
  <1>3. <<g>> \in Seq(ServerGrant) /\ [t \in Tools |-> "none"] \in [Tools -> Tiers]
    BY <1>1 DEF Tiers
  <1>4. candidate \in IdentityPolicy /\ candidate.grants = <<g>>
    BY <1>2, <1>3 DEF IdentityPolicy
  <1>5. DOMAIN <<g>> = {1} /\ <<g>>[1] = g /\ Range(<<g>>) = {g}
    BY DEF Range
  <1>6. \A t : matching_grant(candidate, t) = {h \in {g} : t \in h.allowed \ h.denied}
    BY <1>4, <1>5 DEF matching_grant
  <1> QED  BY <1>1, <1>4, <1>6 DEF candidate

(* A replay at the same hour is of the same call.                          *)
LEMMA SameHour ==
  ASSUME NEW c \in Request, NEW late, c.late = late
  PROVE  [c EXCEPT !.late = late] = c
  BY DEF Request

(* What an observed row promises of the scaffold it goes into.             *)
LEMMA ScaffoldCovers ==
  ASSUME RecordInv, NEW rows \in SUBSET ledger
  PROVE  LET candidate == scaffold(Policy, rows)
         IN  /\ \A row \in rows :
                  row.mode = "observe" =>
                    simulate_row(candidate, row, row.call.late) \notin {"DENY_RBAC", "DENY_ABAC"}
             /\ \A t \in Tools :
                  matching_grant(candidate, t) # {} =>
                    \E row \in rows : row.mode = "observe" /\ row.call.tool = t
  <1> DEFINE candidate == scaffold(Policy, rows)
  <1>1. \A row \in rows : row.call \in Request /\ row.call.tool \in Tools /\ row.event \in Events
    <2>1. \A row \in rows : row.call \in Calls /\ row.event \in Events
      BY DEF RecordInv, OwnRows
    <2> QED  BY <2>1, CallsAssumption DEF Request
  <1>2. Policy \in IdentityPolicy
    BY Engines DEF RecordInv, Settings, Policy
  <1>3. Observed(rows) \subseteq Tools
    BY <1>1 DEF Observed
  <1>4. /\ candidate \in IdentityPolicy
        /\ \A t :
             /\ t \in Observed(rows) <=> matching_grant(candidate, t) # {}
             /\ \A g \in matching_grant(candidate, t) : g.attributes = {} /\ g.limit = 101
    BY <1>2, <1>3, Scaffolds
  <1> HIDE DEF candidate
  <1>5. ASSUME NEW row \in rows, row.mode = "observe"
        PROVE  simulate_row(candidate, row, row.call.late) \notin {"DENY_RBAC", "DENY_ABAC"}
    <2> DEFINE c == row.call
               grant == matching_grant(candidate, c.tool)
               score == ScoreOf(candidate, c, frequency[c.tool] + 1)
    <2>1. c \in Request /\ simulate_row(candidate, row, c.late) = explain_call(candidate, c, FALSE)
      BY <1>1, SameHour DEF simulate_row
    <2>2. score \in 0..100
      BY <1>4, <2>1, NowBounds
    <2>3. c.tool \in Observed(rows)
      BY <1>1, <1>5 DEF Observed, Qualifies
    <2> HIDE DEF c
    <2>4. grant # {} /\ \A g \in grant : g.attributes = {} /\ g.limit = 101
      BY <1>4, <2>3
    <2> HIDE DEF grant
    <2>5. ~Violates(grant, c)
      BY <2>4 DEF Violates
    <2>6. ~ViolatesRisk(grant, score)
      <3> HIDE DEF score
      <3> QED  BY <2>2, <2>4 DEF ViolatesRisk
    <2>7. explain_call(candidate, c, FALSE) \notin {"DENY_RBAC", "DENY_ABAC"}
      BY <2>2, <2>4, <2>5, <2>6, DryRun DEF grant
    <2> QED  BY <2>1, <2>7 DEF c
  <1>6. ASSUME NEW t \in Tools, matching_grant(candidate, t) # {}
        PROVE  \E row \in rows : row.mode = "observe" /\ row.call.tool = t
    <2>1. t \in Observed(rows)
      BY <1>4, <1>6
    <2> QED  BY <2>1 DEF Observed, Qualifies
  <1> QED  BY <1>5, <1>6 DEF candidate

(* An objection on record is not lifted by its own policy.                 *)
LEMMA NothingFlattered ==
  ASSUME RecordInv, Standing, NEW rows \in SUBSET ledger, NEW late \in BOOLEAN
  PROVE  LET pairs == Replayed(Policy, {row \in rows : Replayable(row, late)}, late)
         IN  summarize_historical(pairs).newly_allowed = 0
  <1> DEFINE pairs == Replayed(Policy, {row \in rows : Replayable(row, late)}, late)
             flattered == {p \in pairs : /\ p.before # p.after /\ p.before \in {"DENY", "CHALLENGE"}
                                         /\ p.after = "ALLOW"}
  <1>1. ASSUME NEW row \in rows, Replayable(row, late), historical_bucket(row) \in {"DENY", "CHALLENGE"}
        PROVE  simulate_row(Policy, row, late) # "ALLOW"
    <2> DEFINE c == row.call
               grant == matching_grant(Policy, c.tool)
               score == ScoreOf(Policy, c, frequency[c.tool] + 1)
    <2>1. c \in Request /\ row.event \in Events
          /\ Stands(Policy, c, row.event, blocked, Now(c))
      <3>1. row \in ledger
        OBVIOUS
      <3>2. row.event \in Events
        BY <3>1 DEF RecordInv, OwnRows
      <3> QED  BY <3>1, <3>2, StandingNow
    <2>2. simulate_row(Policy, row, late) = explain_call(Policy, c, FALSE)
      BY <1>1, <2>1, SameHour DEF simulate_row, Replayable
    <2>3. row.event \in Repeated
      BY <1>1, <2>1 DEF historical_bucket, Replayable, NotReplayed, Events, Repeated
    <2>4. Policy \in IdentityPolicy
      BY Engines DEF RecordInv, Settings, Policy
    <2> HIDE DEF c
    <2>5. score \in 0..100 /\ Now(c) = score
      BY <2>1, <2>4, NowBounds DEF Now
    <2>6. \/ grant = {} \/ Violates(grant, c) \/ ViolatesRisk(grant, score)
          \/ c.tool \in blocked \/ score >= 40
      <3> HIDE DEF score
      <3> QED  BY <2>1, <2>3, <2>5 DEF Stands, Repeated
    <2> QED  BY <2>2, <2>5, <2>6, DryRun
  <1>2. flattered = {}
    <2> SUFFICES ASSUME NEW p \in pairs, p.before \in {"DENY", "CHALLENGE"}, p.after = "ALLOW"
                 PROVE  FALSE
      OBVIOUS
    <2>1. PICK row \in rows :
            /\ Replayable(row, late) /\ p.before = historical_bucket(row)
            /\ p.after = historical_bucket([row EXCEPT !.event = simulate_row(Policy, row, late)])
      BY DEF Replayed
    <2> DEFINE event == simulate_row(Policy, row, late)
    <2>2. event # "ALLOW"
      BY <1>1, <2>1
    <2> HIDE DEF event
    <2>3. [row EXCEPT !.event = event].event = event
      BY DEF RecordInv, OwnRows
    <2>4. historical_bucket([row EXCEPT !.event = event]) # "ALLOW"
      BY <2>2, <2>3 DEF historical_bucket
    <2> QED  BY <2>1, <2>4 DEF event
  <1>3. summarize_historical(pairs).newly_allowed = Cardinality(flattered)
    BY DEF summarize_historical
  <1> QED  BY <1>2, <1>3, FS_EmptySet

(* ReviewSound: whatever an operator reviews, the scaffold of a window     *)
(* (policy_scaffold.py) grants what was observed there and nothing else,   *)
(* and a replay (policy_simulator.py) against the policy in force lifts no *)
(* objection that this policy raised, while nothing disturbed.             *)
THEOREM ReviewsSound == Spec => []ReviewSound
  <1>1. Init => RecordInv /\ StandingInv
    BY RecordInit, StandingInit
  <1>2. RecordInv /\ StandingInv /\ [Next]_vars => RecordInv' /\ StandingInv'
    BY RecordStep, StandingStep
  <1>3. RecordInv /\ StandingInv => ReviewSound
    <2> ledger \in SUBSET ledger
      OBVIOUS
    <2> QED  BY ScaffoldCovers, NothingFlattered DEF ReviewSound, StandingInv
  <1> QED  BY <1>1, <1>2, <1>3, PTL DEF Spec
=============================================================================
