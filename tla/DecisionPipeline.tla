--------------------------- MODULE DecisionPipeline ---------------------------
(***************************************************************************)
(* The decision pipeline of services/gateway/jsonrpc_interceptor.py, of    *)
(* several sessions of one identity with one upstream server.              *)
(*                                                                         *)
(* Each session has one client pump, which takes a tools/call through the  *)
(* stages of _authorize_call, and one upstream pump, which checks, caches, *)
(* prunes and records a tools/list.  The stages await Redis, PostgreSQL or *)
(* the upstream, so what they share may change between any two of them:    *)
(* the engine (read anew by each stage), the baselines of the detector,    *)
(* the schema cache, the counters of the risk engine.  One action is what  *)
(* runs between two awaits.                                                *)
(*                                                                         *)
(* Redemption of proofs and approvals has its own modules; here a call     *)
(* carries their verdict.  POLICY_ERROR rows, which are best effort, are   *)
(* left out.                                                               *)
(***************************************************************************)
EXTENDS RiskScoring, FiniteSets, Sequences, Functions

CONSTANTS
  Sessions,
  Tools,
  Policies,         \* the policies, in the order they are activated
  Lists,            \* the tools/list results of the upstream, in their order
  Harmless,         \* the pairs of schemas whose drift does not block
  Suspicious,       \* the schemas in whose text scan_descriptions finds something
  Calls,            \* the tools/call requests of clients
  Fits,             \* the schemas that the arguments of these calls fit
  MaxRequests,      \* bound: requests of clients
  MaxDisturbances   \* bound: faults and changes from outside a request

None == "none"
NoList == 0

(* ServerGrant: its conditions are some on attributes of the call, and one *)
(* on risk.score, a limit the score must stay below.                       *)
ServerGrant ==
  [allowed : SUBSET Tools, denied : SUBSET Tools,
   attributes : SUBSET {"hour"}, limit : 0..101]

(* What a policy says of the identity: its auth_mode and totp_secret, its  *)
(* grants on this server, and the risk tiers of the tools.                 *)
IdentityPolicy ==
  [signed : BOOLEAN, totp : BOOLEAN, grants : Seq(ServerGrant), tier : [Tools -> Tiers]]

(* Each list names each tool: those that appear, leave or change their name*)
(* are DriftBaseline's.                                                    *)
ASSUME DataAssumption ==
  /\ Policies \in Seq(IdentityPolicy) /\ Policies # <<>>
  /\ DOMAIN Lists = 1..Len(Lists) /\ Len(Lists) \in Nat \ {0}
  /\ \A i \in DOMAIN Lists : DOMAIN Lists[i] = Tools

Schemas == UNION {{Lists[i][t] : t \in DOMAIN Lists[i]} : i \in DOMAIN Lists}

(* What a tools/call says; of its arguments, whether they name a protected *)
(* repository.                                                             *)
Request ==
  [tool : Tools, nonce : {None, "fresh", "used"}, attributes : SUBSET {"hour"},
   protected : BOOLEAN, late : BOOLEAN, proof : {None, "good", "bad"},
   approval : {None, "good", "bad"}]

ASSUME BoundAssumption == MaxRequests \in Nat /\ MaxDisturbances \in Nat

ASSUME CallsAssumption ==
  Calls \subseteq Request /\ Fits \subseteq Schemas /\ Suspicious \subseteq Schemas \ {None}

VARIABLES
  mode,        \* settings.enforcement_mode
  engine,      \* PolicyStore.engine, an index of Policies
  upstream,    \* what the upstream serves, an index of Lists
  baseline,    \* tool_baselines: approved and observed schema of each tool
  blocked,     \* tool_baselines.blocked
  cache,       \* SchemaCache: an index of Lists, or NoList
  frequency,   \* risk:freq of each tool
  denials,     \* risk:denials of the identity
  drifts,      \* the recent DRIFT_* rows of each tool
  decay,       \* risk:decay of each tool
  ledger,      \* the decision rows of audit_log
  at,          \* the client pump: the next stage of its call
  req,         \* ... and what _authorize_call keeps of it
  listing,     \* the upstream pump: the tools/list it is working on
  requests,    \* requests so far
  disturbances \* faults and changes so far

shared == <<engine, upstream, baseline, blocked, cache, frequency, denials, drifts, decay>>
vars == <<mode, shared, ledger, at, req, listing, requests, disturbances>>

Undecided == [event |-> None, version |-> 0]
NoRequest == [id |-> 0]
NoListing == [at |-> "idle", list |-> NoList]

Policy == Policies[engine]

(* PolicyEngine.matching_grant: the first grant that names the tool, unless*)
(* that one denies it; as a set of at most one.                            *)
matching_grant(policy, tool) ==
  {g \in Range(policy.grants) :
     \E i \in DOMAIN policy.grants :
       /\ g = policy.grants[i] /\ tool \in g.allowed \ g.denied
       /\ \A j \in 1..(i - 1) :
            tool \notin policy.grants[j].allowed \cup policy.grants[j].denied}

(* The context RiskEngine.score builds for a call, given the count of its  *)
(* frequency window, and its score.                                        *)
Context(policy, c, count) ==
  [tier |-> policy.tier[c.tool], protected |-> c.protected, offHours |-> c.late,
   calls |-> count, inReview |-> baseline[c.tool].observed # None,
   denials |-> denials, drifts |-> drifts[c.tool],
   suspicious |-> baseline[c.tool].approved \in Suspicious]

(* What a call risks in itself, whatever was counted or found before it.   *)
Alone(policy, c) ==
  Static([tier |-> policy.tier[c.tool], protected |-> c.protected, offHours |-> c.late, calls |-> 0,
          inReview |-> FALSE, denials |-> 0, drifts |-> 0, suspicious |-> FALSE])

ScoreOf(policy, c, count) == Score(Context(policy, c, count), decay[c.tool])

(* abac.evaluate of the conditions of a grant, if there is one; those on   *)
(* risk.score are evaluated once there is a score.                         *)
Violates(grant, c) == \E g \in grant : ~(g.attributes \subseteq c.attributes)
ViolatesRisk(grant, score) == \E g \in grant : score >= g.limit

(* param_validator.validate against the schema of the tool in a list.      *)
Validates(c, list) ==
  list # NoList /\ c.tool \in DOMAIN Lists[list] /\ Lists[list][c.tool] \in Fits

-----------------------------------------------------------------------------
(* decision_explainer.explain_call: the pipeline as a dry run, on one      *)
(* engine, with or without the validation of arguments.  Each stage raises *)
(* at most one event, and the first that is raised is the decision.        *)
Raised(objects, event) == IF objects THEN {event} ELSE {}

Objections(policy, c, validate_params) ==
  LET grant == matching_grant(policy, c.tool)
      score == ScoreOf(policy, c, frequency[c.tool] + 1)
  IN  << Raised(grant = {}, "DENY_RBAC"),
         Raised(Violates(grant, c), "DENY_ABAC"),
         Raised(c.tool \in blocked, "DENY_DRIFT"),
         Raised(ViolatesRisk(grant, score), "DENY_ABAC"),
         {threshold_outcome(score)} \ {"ALLOW"},
         Raised(validate_params /\ ~Validates(c, cache), "DENY_VALIDATION"),
         {"ALLOW"} >>

explain_call(policy, c, validate_params) ==
  LET stages == Objections(policy, c, validate_params)
      first == CHOOSE i \in DOMAIN stages :
                 stages[i] # {} /\ \A j \in 1..(i - 1) : stages[j] = {}
  IN  CHOOSE event \in stages[first] : TRUE

(* What explain_call does not see: replay, proofs and approvals, and a     *)
(* cold cache, which a live call would fill.                               *)
Explicable(c) ==
  /\ c.nonce = None /\ c.proof = None /\ c.approval = None
  /\ ~Policy.signed /\ cache # NoList

-----------------------------------------------------------------------------
Init ==
  /\ mode \in {"enforce", "observe"}
  /\ engine = 1
  /\ \/ upstream = 1 /\ cache = NoList
        /\ baseline = [t \in Tools |-> [approved |-> None, observed |-> None]]
     \/ upstream \in DOMAIN Lists /\ cache = 1   \* listed before, perhaps changed since
        /\ baseline = [t \in Tools |-> [observed |-> None, approved |->
                          IF t \in DOMAIN Lists[1] THEN Lists[1][t] ELSE None]]
  /\ blocked = {}
  /\ frequency = [t \in Tools |-> 0] /\ denials = 0 /\ decay = [t \in Tools |-> 0]
  /\ drifts = [t \in Tools |-> 0]
  /\ ledger = {}
  /\ at = [s \in Sessions |-> "idle"]
  /\ req = [s \in Sessions |-> NoRequest]
  /\ listing = [s \in Sessions |-> NoListing]
  /\ requests = 0 /\ disturbances = 0

(* A fault, or a change from outside: it costs one of MaxDisturbances.     *)
Disturb ==
  /\ disturbances < MaxDisturbances
  /\ disturbances' = disturbances + 1

(* An await that may raise: failed tells whether it did.                   *)
Raises(failed) ==
  \/ failed = FALSE /\ UNCHANGED disturbances
  \/ failed = TRUE /\ Disturb

ClientPump(s) == UNCHANGED <<mode, listing, requests>>

(* retain: the first objection stays.  In enforce it ends the pipeline, in *)
(* observe the later stages still run.                                     *)
Retain(r, event) ==
  IF r.terminal = Undecided
    THEN [r EXCEPT !.terminal = [event |-> event, version |-> engine]]
    ELSE r

(* Mutant: observe keeps the last objection.                               *)
RetainIf_Last(objects, r, event) ==
  IF objects THEN [r EXCEPT !.terminal = [event |-> event, version |-> engine]] ELSE r

RetainIf(objects, r, event) == IF objects THEN Retain(r, event) ELSE r

Goto(s, r, stage) ==
  /\ req' = [req EXCEPT ![s] = r]
  /\ at' = [at EXCEPT ![s] =
       IF mode = "enforce" /\ r.terminal # Undecided THEN "emit" ELSE stage]

(* on_client_message takes a tools/call.                                   *)
Receive(s, c) ==
  /\ at[s] = "idle" /\ requests < MaxRequests
  /\ requests' = requests + 1
  /\ Goto(s, [id |-> requests + 1, call |-> c, terminal |-> Undecided,
              grant |-> {},
              verified |-> FALSE, list |-> NoList, from |-> engine,
              open |-> c.tool \notin blocked,
              foreseen |-> IF Explicable(c) THEN explain_call(Policy, c, TRUE) ELSE None,
              alone |-> /\ \A o \in Sessions \ {s} : at[o] = "idle"
                        /\ \A o \in Sessions : listing[o] = NoListing,
              since |-> disturbances], "start")
  /\ UNCHANGED <<mode, shared, ledger, listing, disturbances>>

(* RBAC and the conditions that need no score: one run between awaits.     *)
Authorize(s, r) ==
  LET grant == matching_grant(Policy, r.call.tool)
      r1 == RetainIf(grant = {}, r, "DENY_RBAC")
      r2 == RetainIf(Violates(grant, r.call), r1, "DENY_ABAC")
  IN  Goto(s, [r2 EXCEPT !.grant = grant], "drift")

Start(s) ==
  /\ at[s] = "start"
  /\ IF Policy.signed \/ req[s].call.nonce # None
       THEN Goto(s, req[s], "replay")
       ELSE Authorize(s, req[s])
  /\ ClientPump(s)
  /\ UNCHANGED <<shared, ledger, disturbances>>

(* Replay guard: a failing Redis denies, and so does a call of a signed    *)
(* identity without a nonce.                                               *)
Replay(s) ==
  /\ at[s] = "replay"
  /\ \E failed \in BOOLEAN :
       /\ Raises(failed)
       /\ LET r == RetainIf(failed \/ req[s].call.nonce # "fresh", req[s], "DENY_REPLAY")
          IN  IF mode = "enforce" /\ r.terminal # Undecided
                THEN Goto(s, r, "emit")
                ELSE Authorize(s, r)
  /\ ClientPump(s)
  /\ UNCHANGED <<shared, ledger>>

(* After is_blocked an enforcing gateway redeems what the call carries.    *)
Redemption(c) ==
  IF mode = "enforce" /\ c.approval # None THEN "approval" ELSE "score"

Drift(s) ==
  /\ at[s] = "drift"
  /\ \E failed \in BOOLEAN :
       /\ Raises(failed)
       /\ Goto(s, RetainIf(failed \/ req[s].call.tool \in blocked, req[s], "DENY_DRIFT"),
               IF mode = "enforce" /\ req[s].call.proof # None
                 THEN "proof" ELSE Redemption(req[s].call))
  /\ ClientPump(s)
  /\ UNCHANGED <<shared, ledger>>

(* ChallengeStore.redeem: a proof only sets a flag, a failure denies.      *)
Proof(s) ==
  /\ at[s] = "proof"
  /\ \E failed \in BOOLEAN :
       /\ Raises(failed)
       /\ IF failed \/ req[s].call.proof # "good"
            THEN Goto(s, Retain(req[s], "DENY_STEP_UP"), "emit")
            ELSE Goto(s, [req[s] EXCEPT !.verified = TRUE], Redemption(req[s].call))
  /\ ClientPump(s)
  /\ UNCHANGED <<shared, ledger>>

(* ApprovalStore.redeem instead of a score: a human reviewed this call.    *)
Approval(s) ==
  /\ at[s] = "approval"
  /\ \E failed \in BOOLEAN :
       /\ Raises(failed)
       /\ Goto(s, RetainIf(failed \/ req[s].call.approval # "good", req[s],
                           "DENY_APPROVAL_MISMATCH"), "schema")
  /\ ClientPump(s)
  /\ UNCHANGED <<shared, ledger>>

(* Risk engine: a failing one is maximum risk, its counter bumped or not.  *)
(* Then the deferred conditions, then the bands; a verified proof clears   *)
(* the challenge and nothing else.                                         *)
Assess(s) ==
  /\ at[s] = "score"
  /\ \E failed \in BOOLEAN, bumped \in {frequency[req[s].call.tool] + 1} :
       /\ Raises(failed)
       /\ frequency' \in {[frequency EXCEPT ![req[s].call.tool] = bumped]}
                         \cup (IF failed THEN {frequency} ELSE {})
       /\ LET score == IF failed THEN 100 ELSE ScoreOf(Policy, req[s].call, bumped)
              threshold == threshold_outcome(score)
              r == RetainIf(ViolatesRisk(req[s].grant, score), req[s], "DENY_ABAC")
              cleared == threshold = "CHALLENGE" /\ r.verified
          IN  Goto(s, RetainIf(threshold # "ALLOW" /\ ~cleared, r, threshold), "schema")
  /\ ClientPump(s)
  /\ UNCHANGED <<engine, upstream, baseline, blocked, cache, denials, drifts, decay, ledger>>

(* Stage 7 and the end of the pipeline: what was retained, or ALLOW.       *)
Validate(s, list) ==
  Goto(s, Retain(RetainIf(~Validates(req[s].call, list),
                          [req[s] EXCEPT !.list = list], "DENY_VALIDATION"), "ALLOW"),
       "emit")

(* _input_schema_for: an unreadable cache is a miss, a miss is fetched.    *)
ReadCache(s) ==
  /\ at[s] = "schema"
  /\ \E failed \in BOOLEAN :
       /\ Raises(failed)
       /\ IF failed \/ cache = NoList
            THEN at' = [at EXCEPT ![s] = "fetch"] /\ UNCHANGED req
            ELSE Validate(s, cache)
  /\ ClientPump(s)
  /\ UNCHANGED <<shared, ledger>>

(* The upstream pump resolves the future of the internal request.          *)
Fetched(s) ==
  /\ at[s] = "fetch" /\ listing[s].at \notin {"judge", "put", "record"}
  /\ req' = [req EXCEPT ![s].list = upstream]
  /\ at' = [at EXCEPT ![s] = "judge"]
  /\ ClientPump(s)
  /\ UNCHANGED <<shared, ledger, disturbances>>

(* The calls under way that have found their tool unblocked at some time.  *)
Reopened ==
  [s \in Sessions |->
     IF at[s] # "idle" /\ req[s].call.tool \notin blocked'
       THEN [req[s] EXCEPT !.open = TRUE] ELSE req[s]]

(* DriftDetector.check: DriftBaseline has its steps and its races.  A drift*)
(* it has not seen before gets a DRIFT_* row.                              *)
Drifted(list, t) == t \in DOMAIN list /\ baseline[t].approved \notin {None, list[t]}
Blocks(list, t) == <<baseline[t].approved, list[t]>> \notin Harmless

Noted(list) ==
  [t \in Tools |->
     IF /\ Drifted(list, t)
        /\ \/ list[t] # baseline[t].observed
           \/ Blocks(list, t) /\ t \notin blocked
       THEN drifts[t] + 1 ELSE drifts[t]]

Checked(list) ==
  /\ baseline' = [t \in Tools |->
       IF Drifted(list, t)
         THEN [baseline[t] EXCEPT !.observed = list[t]]
         ELSE IF t \in DOMAIN list
                THEN [approved |-> list[t], observed |-> None] ELSE baseline[t]]
  /\ blocked' = {t \in Tools :
       IF t \in DOMAIN list
         THEN Drifted(list, t) /\ (Blocks(list, t) \/ t \in blocked)
         ELSE t \in blocked}
  /\ drifts' = Noted(list)
  /\ req' = Reopened

(* A check that fails has perhaps written its rows already.                *)
NotedOrNot(judging, list) ==
  /\ drifts' \in {drifts} \cup (IF judging THEN {Noted(Lists[list])} ELSE {})
  /\ UNCHANGED <<engine, upstream, baseline, blocked, cache, frequency, denials, decay>>

(* Whatever fails on the way, there is no schema: the call is denied.      *)
FetchFails(s) ==
  /\ at[s] \in {"fetch", "judge", "put"}
  /\ Disturb
  /\ Validate(s, NoList)
  /\ NotedOrNot(at[s] = "judge", req[s].list)
  /\ ClientPump(s)
  /\ UNCHANGED ledger

(* asyncio.wait_for(future, _REFETCH_TIMEOUT_S).                           *)
FetchTimesOut(s) ==
  /\ at[s] = "fetch"
  /\ Validate(s, NoList)
  /\ ClientPump(s)
  /\ UNCHANGED <<shared, ledger, disturbances>>

JudgeFetched(s) ==
  /\ at[s] = "judge"
  /\ Checked(Lists[req[s].list])
  /\ at' = [at EXCEPT ![s] = "put"]
  /\ ClientPump(s)
  /\ UNCHANGED <<engine, upstream, cache, frequency, denials, decay, ledger, disturbances>>

PutFetched(s) ==
  /\ at[s] = "put"
  /\ cache' = req[s].list
  /\ Validate(s, req[s].list)
  /\ ClientPump(s)
  /\ UNCHANGED <<engine, upstream, baseline, blocked, frequency, denials, drifts, decay,
                 ledger, disturbances>>

-----------------------------------------------------------------------------
(* _emit_decision.                                                         *)
Denies(event) == event \notin {"ALLOW", "CHALLENGE", "HUMAN_APPROVAL_REQUIRED"}
Event(s) == req[s].terminal.event
Stage(s, stage) == at' = [at EXCEPT ![s] = stage] /\ UNCHANGED req

(* record_denial, best effort.                                             *)
Emit(s) ==
  /\ at[s] = "emit"
  /\ \/ UNCHANGED disturbances
        /\ denials' = denials + (IF Denies(Event(s)) THEN 1 ELSE 0)
     \/ Denies(Event(s)) /\ Disturb /\ UNCHANGED denials
  /\ Stage(s, "write")
  /\ ClientPump(s)
  /\ UNCHANGED <<engine, upstream, baseline, blocked, cache, frequency, drifts, decay, ledger>>

Row(s) ==
  [id |-> req[s].id, call |-> req[s].call, mode |-> mode,
   event |-> Event(s), version |-> engine]

(* What the client gets once the decision is recorded.                     *)
Outcome(s) == IF mode = "observe" \/ Event(s) = "ALLOW" THEN "forward" ELSE "denied"

(* An enforcing gateway registers what the client may come back with.      *)
Registers(s) ==
  /\ mode = "enforce"
  /\ \/ Event(s) = "HUMAN_APPROVAL_REQUIRED"
     \/ Event(s) = "CHALLENGE" /\ Policy.totp

(* AuditWriter.write keeps the promise of AuditLedger: it returns with a   *)
(* row committed.  The row carries the engine version of that moment.      *)
Write(s) ==
  /\ at[s] = "write"
  /\ ledger' = ledger \cup {Row(s)}
  /\ Stage(s, IF Registers(s) THEN "register" ELSE Outcome(s))
  /\ ClientPump(s)
  /\ UNCHANGED <<shared, disturbances>>

(* ... or begins again after its commit, for the pointer was overwritten   *)
(* from outside (WatchError).  If a policy was activated meanwhile, the    *)
(* next row of the same decision carries the next version.                 *)
WriteRepeats(s) ==
  /\ at[s] = "write"
  /\ ledger' = ledger \cup {Row(s)}
  /\ UNCHANGED <<at, req>>
  /\ ClientPump(s)
  /\ UNCHANGED <<shared, disturbances>>

(* Mutant: a decision that cannot be recorded stands.                      *)
WriteFails_Stands(s) ==
  /\ at[s] = "write"
  /\ Disturb
  /\ ledger' \in {ledger, ledger \cup {Row(s)}}
  /\ Stage(s, Outcome(s))
  /\ ClientPump(s)
  /\ UNCHANGED shared

(* It raises with or without its row.  A deny of an enforcing gateway      *)
(* stands, anything else becomes an error: no record, no action.           *)
WriteFails(s) ==
  /\ at[s] = "write"
  /\ Disturb
  /\ ledger' \in {ledger, ledger \cup {Row(s)}}
  /\ Stage(s, IF mode = "enforce" /\ Denies(Event(s)) THEN "denied" ELSE "unavailable")
  /\ ClientPump(s)
  /\ UNCHANGED shared

(* approvals.create or challenges.create.                                  *)
Register(s) ==
  /\ at[s] = "register"
  /\ \E failed \in BOOLEAN :
       Raises(failed) /\ Stage(s, IF failed THEN "unavailable" ELSE Outcome(s))
  /\ ClientPump(s)
  /\ UNCHANGED <<shared, ledger>>

(* The call is written to the upstream, or the client is answered.         *)
Conclude(s) ==
  /\ at[s] \in {"forward", "denied", "unavailable"}
  /\ at' = [at EXCEPT ![s] = "idle"]
  /\ req' = [req EXCEPT ![s] = NoRequest]
  /\ ClientPump(s)
  /\ UNCHANGED <<shared, ledger, disturbances>>

-----------------------------------------------------------------------------
(* Requests that are forwarded as they come: initialize invalidates the    *)
(* cache, tools/list is remembered until the upstream answers.             *)
Initialize(s) ==
  /\ at[s] = "idle" /\ requests < MaxRequests
  /\ requests' = requests + 1
  /\ cache' = NoList
  /\ UNCHANGED <<mode, engine, upstream, baseline, blocked, frequency, denials, drifts, decay,
                 ledger, at, req, listing, disturbances>>

RequestList(s) ==
  /\ at[s] = "idle" /\ listing[s].at = "idle" /\ requests < MaxRequests
  /\ requests' = requests + 1
  /\ listing' = [listing EXCEPT ![s].at = "sent"]
  /\ UNCHANGED <<mode, shared, ledger, at, req, disturbances>>

UpstreamPump(s) == UNCHANGED <<mode, ledger, at, req, requests>>
Listing(s, stage) == listing' = [listing EXCEPT ![s].at = stage]

AnswerList(s) ==
  /\ listing[s].at = "sent"
  /\ listing' = [listing EXCEPT ![s] = [at |-> "judge", list |-> upstream]]
  /\ UpstreamPump(s)
  /\ UNCHANGED <<shared, disturbances>>

(* _prune_tools_list.                                                      *)
JudgeList(s) ==
  /\ listing[s].at = "judge"
  /\ Checked(Lists[listing[s].list])
  /\ Listing(s, "put")
  /\ UNCHANGED <<mode, engine, upstream, cache, frequency, denials, decay, ledger, at,
                 requests, disturbances>>

(* The cache is written, then the list is pruned with the engine of that   *)
(* moment: what is served, its ETag and its row are of one version.        *)
PutList(s) ==
  /\ listing[s].at = "put"
  /\ cache' = listing[s].list
  /\ Listing(s, "record")
  /\ UpstreamPump(s)
  /\ UNCHANGED <<engine, upstream, baseline, blocked, frequency, denials, drifts, decay,
                 disturbances>>

ServeList(s) ==
  /\ listing[s].at = "record"
  /\ listing' = [listing EXCEPT ![s] = NoListing]
  /\ UpstreamPump(s)
  /\ UNCHANGED <<shared, disturbances>>

(* The drift check, the cache or the audit write raises.                   *)
ListFails(s) ==
  /\ listing[s].at \in {"judge", "put", "record"}
  /\ Disturb
  /\ listing' = [listing EXCEPT ![s] = NoListing]
  /\ NotedOrNot(listing[s].at = "judge", listing[s].list)
  /\ UpstreamPump(s)

-----------------------------------------------------------------------------
(* Changes from outside a request.                                         *)
World == Disturb /\ UNCHANGED <<mode, ledger, at, listing, requests>>

ActivatePolicy ==
  /\ World /\ engine < Len(Policies)
  /\ engine' = engine + 1
  /\ UNCHANGED <<upstream, baseline, blocked, cache, frequency, denials, drifts, decay, req>>

UpstreamChanges ==
  /\ World /\ upstream < Len(Lists)
  /\ upstream' = upstream + 1
  /\ UNCHANGED <<engine, baseline, blocked, cache, frequency, denials, drifts, decay, req>>

(* approve_tool: the observed schema becomes the approved one.             *)
ApproveTool(t) ==
  /\ World /\ baseline[t].observed # None
  /\ baseline' = [baseline EXCEPT ![t] =
                    [approved |-> baseline[t].observed, observed |-> None]]
  /\ blocked' = blocked \ {t}
  /\ req' = Reopened
  /\ UNCHANGED <<engine, upstream, cache, frequency, denials, drifts, decay>>

(* approve_call, for an earlier call of the identity: its tool is from now *)
(* on discounted, in behaviour only.                                       *)
ApproveCall(t) ==
  /\ World
  /\ decay' = [decay EXCEPT ![t] = apply_decay(@)]
  /\ UNCHANGED <<engine, upstream, baseline, blocked, cache, frequency, denials, drifts, req>>

(* Keys with a TTL: the schema cache, the windows of the counters.  The    *)
(* window over the drift rows slides on its own.                           *)
Expire ==
  /\ World
  /\ \/ cache' = NoList /\ UNCHANGED <<frequency, denials, drifts>>
     \/ frequency' = [t \in Tools |-> 0] /\ denials' = 0 /\ UNCHANGED <<cache, drifts>>
     \/ drifts' = [t \in Tools |-> 0] /\ UNCHANGED <<cache, frequency, denials>>
  /\ UNCHANGED <<engine, upstream, baseline, blocked, decay, req>>

ClientStep(s) ==
  \/ Start(s) \/ Replay(s) \/ Drift(s) \/ Proof(s) \/ Approval(s) \/ Assess(s)
  \/ ReadCache(s) \/ JudgeFetched(s) \/ PutFetched(s) \/ FetchTimesOut(s)
  \/ Emit(s) \/ Write(s) \/ WriteRepeats(s) \/ Register(s) \/ Conclude(s)

UpstreamStep(s) ==
  \/ AnswerList(s) \/ JudgeList(s) \/ PutList(s) \/ ServeList(s) \/ Fetched(s)

ClientSends(s) ==
  \/ \E c \in Calls : Receive(s, c)
  \/ Initialize(s) \/ RequestList(s)

Next ==
  \/ \E s \in Sessions :
       \/ ClientSends(s) \/ ClientStep(s) \/ UpstreamStep(s)
       \/ FetchFails(s) \/ WriteFails(s) \/ ListFails(s)
  \/ ActivatePolicy \/ UpstreamChanges \/ Expire
  \/ \E t \in Tools : ApproveTool(t) \/ ApproveCall(t)

Spec == Init /\ [][Next]_vars

-----------------------------------------------------------------------------
Stages == {"idle", "start", "replay", "drift", "proof", "approval", "score", "schema",
           "fetch", "judge", "put", "emit", "write", "register",
           "forward", "denied", "unavailable"}

Events == {"ALLOW", "DENY_REPLAY", "DENY_RBAC", "DENY_ABAC", "DENY_DRIFT", "DENY_STEP_UP",
           "DENY_APPROVAL_MISMATCH", "DENY_RISK", "HUMAN_APPROVAL_REQUIRED", "CHALLENGE",
           "DENY_VALIDATION"}

(* Shared state, pumps and rows have these types.                          *)
TypeOK ==
  /\ mode \in {"enforce", "observe"}
  /\ engine \in DOMAIN Policies /\ upstream \in DOMAIN Lists
  /\ baseline \in [Tools -> [approved : Schemas \cup {None}, observed : Schemas \cup {None}]]
  /\ blocked \subseteq Tools /\ cache \in {NoList} \cup DOMAIN Lists
  /\ frequency \in [Tools -> Nat] /\ denials \in Nat
  /\ drifts \in [Tools -> Nat] /\ decay \in [Tools -> Nat]
  /\ ledger \subseteq [id : 1..MaxRequests, call : Calls, mode : {mode},
                       event : Events, version : DOMAIN Policies]
  /\ at \in [Sessions -> Stages]
  /\ \A s \in Sessions :
       at[s] # "idle" => /\ req[s].id \in 1..requests
                         /\ req[s].terminal = Undecided \/ Event(s) \in Events
  /\ requests \in 0..MaxRequests /\ disturbances \in 0..MaxDisturbances

Rows(s) == {row \in ledger : row.id = req[s].id}

(* "No record, no action": a call reaches the upstream only with a row of  *)
(* its decision in the ledger, which in enforce is an ALLOW; however often *)
(* the decision was recorded, what the client is told is what every row of *)
(* it says, and an error only when the row could not be written, or what   *)
(* it promises not be registered.                                          *)
DecisionRecorded ==
  /\ TypeOK
  /\ \A s \in Sessions :
      /\ \A row \in Rows(s) : row.event = Event(s) /\ row.version >= req[s].terminal.version
      /\ at[s] = "forward" =>
           /\ Rows(s) # {}
           /\ mode = "observe" \/ Event(s) = "ALLOW"
      /\ at[s] = "denied" =>
           /\ mode = "enforce" /\ Event(s) # "ALLOW"
           /\ Rows(s) # {} \/ Denies(Event(s))
      /\ at[s] = "unavailable" => mode = "observe" \/ ~Denies(Event(s))

(* A call an enforcing gateway forwards was granted, with its conditions,  *)
(* by a policy in force while it was under way, its tool was not blocked   *)
(* all that time, its nonce, proof and approval were good, its arguments   *)
(* fit a schema the upstream served, and what the call itself risks under  *)
(* a policy in force was in the band its proof or its approval cover.      *)
ForwardJustified ==
  \A s \in Sessions :
    at[s] = "forward" /\ mode = "enforce" =>
      LET c == req[s].call
          inForce == {Policies[v] : v \in req[s].from..engine}
      IN  /\ \E p \in inForce : \E g \in Range(p.grants) :
               c.tool \in g.allowed \ g.denied /\ ~Violates({g}, c)
          /\ req[s].open
          /\ c.nonce \in {None, "fresh"} /\ c.proof # "bad" /\ c.approval # "bad"
          /\ Validates(c, req[s].list)
          /\ \/ c.approval = "good"
             \/ \E p \in inForce :
                  \/ Alone(p, c) < 40
                  \/ Alone(p, c) < 70 /\ c.proof = "good"

(* The Decision Explanation API tells what the gateway does: a call that   *)
(* is alone and undisturbed ends, enforced or observed, with the decision  *)
(* explain_call predicted when it came in.                                 *)
ExplainAgrees ==
  \A s \in Sessions :
    /\ at[s] = "emit" /\ req[s].foreseen # None /\ req[s].alone
    /\ requests = req[s].id /\ disturbances = req[s].since
    => Event(s) = req[s].foreseen
=============================================================================
