# TLA+ verification of PortunusMCP

PortunusMCP is a gateway between MCP clients and the tool servers they call.  It
decides every `tools/call` (RBAC, ABAC, drift, step-up, risk, human approval),
records each decision in a hash-chained audit log *before* the call is forwarded,
and keeps one container per session.  It is one asyncio process
(`src/services/gateway/main.py`) over PostgreSQL and Redis, with a separate
verifier daemon.  Concurrency is therefore the interleaving of coroutines at
every `await`, of two processes over one database, and of crashes with all of
them.  That is what these modules model: one action per step between two awaits
(or per durable effect), and the failures each of them may meet.

Paths below are relative to `src/services/gateway/` unless they say otherwise.

## 1. Inventory

| Component | State it keeps | Operations | Talks to | What is hard | What makes it correct | Status |
|---|---|---|---|---|---|---|
| Audit writer, `audit_log.py` | `audit_log` rows; Redis key `latest_audit_hash`; `_pointer_dirty`; an asyncio lock | `write`, `_write_locked`, `_prev_hash`, `_insert`, `rotate` | everyone writes through it; takes a pooled connection of its own | the row is in PostgreSQL and the pointer in Redis, and nothing commits both | rows form one chain; a `write` that returned is recorded | modelled: `AuditChain`; `rotate` in `AuditKeys` |
| Verifier, `audit_verifier.py`, `audit_verification.py`, `src/scripts/audit_verifier_daemon.py` | `verifier_checkpoint` | `verify_increment`, the daemon loop, `--once`, the key id backfill | reads the rows while they are written | trusts its anchor row, runs next to other passes | checkpoint never passes a break; every break reported | modelled: `AuditVerifier`; keys and backfill in `AuditKeys` |
| Policy activation, `main.py` `_activate_policy`, `lifespan`; `policy_operations.py`; `policy_versions.py` | `policy.yaml`, staged candidate, journal, snapshots, `policy_versions`, `PolicyStore.engine`, `blocked` | rollout, SIGHUP, rollback, recovery, startup activation | audit writer, session eviction | nine durable effects without a common transaction | engine, file and audit converge before traffic resumes | modelled |
| Drift detector, `drift_detector.py` | `tool_baselines` | `check`, `approve`, `is_blocked` | audit writer, risk engine | no lock from its read to its commit | no unaudited block, no unaudited trust anchor | partly: `DriftBaseline` (not the heuristics) |
| Approvals, `approvals.py` | `approvals` rows | `create`, `approve`, `redeem`, `expire_stale` | audit writer, while it holds a connection | row locks, expiry, one pool for everybody | single use, bound to what was approved | modelled |
| Audit keys, `audit_keys.py` | active and staged key, public archive, key journal | `prepare`, `mark_handoff`, `promote`, `finish`, `recover` | audit writer, export, verifier | file operations and a row without a common transaction | every row's key is available; the signing key is the one the ledger names | modelled: `AuditKeys` |
| Interceptor, `jsonrpc_interceptor.py`, `decision.py`, `schema_cache.py`, `schema_pruner.py`, `param_validator.py` | schema cache, pending lists | `on_client_message`, `on_upstream_message`, `_authorize_call` | all stages | reads `engine` at every stage, awaits in between | audit before forward; fail closed | partly: `DecisionPipeline` (not `POLICY_ERROR` rows) |
| Sessions, `session_manager.py`, `upstream_client.py` | sessions, in-flight calls, slots, rate counters | `create`, pumps, `teardown`, `sweep`, `evict_outdated`, `check_rate_limit` | interceptor, Docker | four ways to clean up a session at once | a slot is released once, every call ends | modelled: `SessionLifecycle`, rate limit in `OneTimeTokens` |
| One-time tokens, `replay_guard.py`, `step_up.py` | Redis keys with a TTL | `check`, `create`, `redeem`, `verify_totp` | interceptor | clocks, and awaits between judging the time and using a key | a token works once | modelled: `OneTimeTokens` |
| Risk engine, `risk_engine.py` | Redis counters, decay offset | `score`, `combine`, `record_denial`, `apply_decay` | interceptor, drift | thresholds, floors | approvals discount behaviour only | modelled: `RiskScoring`, counters in `DecisionPipeline` |
| RBAC and ABAC, `policy_engine.py`, `abac.py` | none once loaded | `matching_grant`, `evaluate` | interceptor | overlapping grants, deferred conditions | deny unless granted | partly: in `DecisionPipeline` (not the condition language, nor loading) |
| Authentication, `auth.py`, `signing.py` | failure counters | the limiter, tokens, signatures | HTTP | counters with a TTL | a limit is a limit | partly: limiter in `OneTimeTokens`; cryptography is taken as ideal |
| Audit export, `audit_export.py` | none | `prepare`, `stream`, `verify_file` | audit rows, keys | sequence gaps of failed INSERTs, rows and keys that appear meanwhile | what export accepts an auditor accepts | modelled: `AuditKeys` |
| HTTP application, `main.py`, `config.py`, `metrics.py`, `logging_config.py` | none | routing, views, admission | all | | | partly: lifespan, admin mutations, admission of calls |
| Explainer, simulator, scaffolder (`decision_explainer.py`, `policy_simulator.py`, `policy_scaffold.py`) | none | read-only analyses | audit rows, current policy and counters | re-run the stages on recorded calls | they predict what the gateway would do | partly: `explain_call` in `DecisionPipeline`, the others in `PolicyReview` |
| CLI, doctor, quickstart (`src/services/`), sample targets, scripts, migrations | files | client-side tooling | HTTP, Docker | | | not modelled: no gateway state |

The audit writer is at the centre.  Every other mutation (policy, drift,
approval, key rotation) has the same shape: *decide, `await writer.write(...)`,
then commit or promote*.  "No record, no action" is its rule, and what happens
when the middle step fails **after** its row was committed is where the code is
weakest (section 4).

`PROJECT.json` lists the hazards of this code one by one, each at its line, with
the properties that cover it, or the reason why none does.

## 2. Modules, and how they correspond to the code

**`AuditLedger`** is what callers assume of `write`: a ledger that only grows, by
the payload of the call in progress, and a call that returns only after its
payload was recorded.  A call that raises may have recorded it, and a payload may
be recorded twice.  It is abstract: no Redis, no lock, no crash.

**`AuditChain`** is `AuditWriter`.  The asyncio lock admits one write, so `pc`,
`payload`, `prev` are the state of the lock holder.  `StartWrite`, `Watch`,
`GetPointer`, `SelectLast`, `InsertRow`, `Exec`, `ExecWatchError` are the awaits
of `_write_locked` in order.  `ReadFails`, `ExecFails`, `Invalidate`,
`DatabaseFails`, `Crash`, `Restart` and `PointerEvicted` are the faults it is
written to survive, and `Spec` is the writer under all of those.  `LossySpec`
adds `Forks`: the three faults it has no handler for.  The hash of a row is the
sequence of payloads it digests (a collision-free hash), so a row "commits to its
whole history" literally.  A command whose answer was lost has either effect
(`PointerAfterUnknownExec`, `Interrupted`).

**`AuditVerifier`** extends `AuditChain` with passes of several verifiers: read
checkpoint and anchor, scan one snapshot, save.  A pass reads the rows in one
query, and saves afterwards, so writers and other passes come in between.

**`PolicyActivation`** is `_activate_policy` with everything it calls: one action
per durable effect (`StagePending` … `Finish`), one `…Fails` action per step that
may raise, with and without its effect, `Crash` anywhere, and `Recover`, `Load`,
`StartupAudit` for the startup order of `lifespan`.  Recovery reuses `promote`
and `finish`, as the code does; `up` tells which of the two runs.
`Faults` selects which failures a run injects; the specification has all of them.  Two
history variables, read by no guard, say what the code cannot know: `unnoticed` are
the operations with a committed row that it aborted (the write raised after its
INSERT, or `mark_handoff` raised, before `handed_off` is set), until a recovery finds
the row; `repeated` those whose row the writer wrote again.  A startup whose audit
write raises with its row is a crash right after `StartupAudit`.

**`DriftBaseline`** is `check` and `approve` over the rows of one server.  A check
holds what it read (`check[k].read`) until its commit; `Flush` is the unit of
work of the ORM, which writes only the columns whose value changed.  A schema
stands for its hash; which changes block is the constant `BlockingChanges`.

**`ApprovalLifecycle`** is `ApprovalStore` with the calls that create and redeem
approvals, the approve endpoint and `expire_stale`.  A label of `pc` says whether
the coroutine holds a pooled connection (`Connected`) and a row lock (`Holding`),
so both are functions of the control state and cannot drift apart from it.

**`OneShotApproval`** is what the gateway relies on: approvals without rows, locks,
sweeps, clock or failures.  A call asks, a human grants, a grant clears one call that
asks for the same, which is then forwarded or lost.  An approval recorded as expired
is closed and clears nothing, even when a grant that began in time commits afterwards
over the sweep, as the code allows.  `ApprovalLifecycle` maps a consumed row to a used
approval, whatever status a sweep wrote over it.

**`RiskScoring`** is the arithmetic of `risk_engine.py`: the context, the eight
factors, split into those an approval may discount and those it may not, `combine`,
`apply_decay` and `threshold_outcome`.  Pure operators, used by the next module.

**`DecisionPipeline`** is `Interceptor`, for several sessions of one identity with one
upstream server.  `at[s]` is the next stage of the call of a session's client pump,
`listing[s]` the `tools/list` of its upstream pump; one action is what runs between
two awaits.  What the sessions share, and what changes between two stages, is state:
the engine, the baselines and blocks of the detector (one step here, `Checked`; its
own races are `DriftBaseline`'s), the schema cache, the counters, the recent `DRIFT_*`
rows of each tool (`Noted`).  Which schemas make a baseline suspicious is the constant
`Suspicious`.  The lists all name the same tools.  `Write` and `WriteRepeats` are what
`AuditLedger` says of a write that returns, `WriteFails` of one that raises.
`Raises(failed)` is an await that may raise; each stage says what it does then.  `mode`
distinguishes enforce, where the first objection ends the pipeline, from observe, where
`Retain` keeps it and the later stages still run.  Redemption of proofs and approvals is
abstracted to the verdict a call carries: `OneTimeTokens` and `ApprovalLifecycle` are
about how that verdict comes about.  A request keeps three records for the
properties: `from`, the engine it arrived under; `open`, whether its tool was
unblocked at some time since; `foreseen`, what `explain_call` said on arrival.

**`PolicyReview`** are functions of that state, without actions: the scaffold that an
observing gateway suggests (`Qualifies`, `Observed`, `scaffold`), and the replay of
recorded rows against a candidate (`simulate_row`, `Replayed`,
`summarize_historical`), which calls the same `explain_call`.

**`SessionLifecycle`** is `SessionManager` with its callers.  The lock only guards code
without an await, so each guarded block is part of one action.  `registry` decides
who cleans a session up: whoever takes it out (`Teardown`).  `creator`, `runner`,
`cleaner` are the progress of `create`, `_run` and `_cleanup_session`; `http` and
`deadline` those of the request handler and of `_deadline` of each call.  A creation
that fails after its session was taken out releases the slot a second time, as the
code does; `ReleasedTwice` names those sessions.

**`AuditKeys`** is `AuditWriter.rotate` over `AuditKeyStore`, one action per file
operation, next to ordinary writes, an export, the verifier's choice of key and the
backfill of rows without a key id; crashes anywhere, and the recovery at startup.  A
write fails with or without its row, or repeats it; as in `PolicyActivation`,
`unnoticed` and `repeated` remember of which rotations.

**`OneTimeTokens`** are the four protocols over Redis keys that expire: nonces,
challenges and TOTP codes, the failure counter of a source, the call counter of an
identity.  Every coroutine judges the time of day first and reaches Redis later:
`since` and `MaxDelay` bound that delay, `MaxAhead` the clocks of clients.

`PolicyActivation`, `DriftBaseline` and `ApprovalLifecycle` use the audit log as
a set or sequence of rows, and its writer as one step that may fail with or
without its row, as do `DecisionPipeline` and `AuditKeys`.  That is what `AuditLedger`
allows and `AuditChain` is shown to implement.  It also allows a payload to be recorded
again before the write returns: `PolicyActivation`, `AuditKeys` and `DecisionPipeline`,
whose properties could tell, have a step for it; in the other two a repeated row is
equal to the first.

`MC…` modules hold values for model checking, nothing else.

## 3. What the runs check

| Run | Distinct states | Question |
|---|---|---|
| `audit_chain` | 9,144 | The writer under every handled fault: no fork, returned means recorded, the inductive invariant, and the refinement of `AuditLedger`. |
| `audit_verifier` | 80,870 | A daemon and an operator's pass next to a writer whose chain may fork: checkpoint sound, no false alarm, every break reported, every row of a good chain verified. |
| `audit_fork` | violation | The chain forks (finding 1). |
| `policy_activation` | 600,363 | All nine faults and a crash anywhere: traffic resumes only when converged with every row the gateway noticed, recovery can decide but in two named cases, every noticed handoff reaches `policy.yaml`; the engine that serves is `policy.yaml`, recorded and with a snapshot; no version names two contents. |
| `policy_ack_lost` | violation | The audit log names a policy that is not served (finding 2). |
| `drift_baseline` | 381,053 | Overlapping checks and approvals: blocks and trust anchors are audited, a lost block ends with the next list. |
| `drift_rename` | violation | A renamed tool unblocks itself (finding 3). |
| `approvals` | 101,104 | Single use, binding to the approved call, the refinement of `OneShotApproval`, and no wait for ever on a pool that everybody waits for. |
| `decision_pipeline` | 1,538,170 | Calls and lists of two sessions, a policy swap, a drifting upstream, approvals, expiring keys, failing stages, repeated rows: no forward without its record and its justification, `explain_call` agrees with what happens, and what is read off the recorded rows is sound. |
| `sessions` | 524,653 | Every way to end a session and a call, in any order: the in-flight quota exact, the slots exact up to late failures of creations, no call forgotten, every call ends, every session is reaped. |
| `audit_keys` | 783,900 | Two rotations with failing files, crashes, and writes that fail with or without their row or repeat it: the signing key follows every rotation whose write returned, rows stay verifiable, recovery can decide but in two named cases, exports verify. |
| `tokens` | 2,229,474 | Copies, retries, guesses and floods over all delays: one nonce, one proof; bursts bounded. |

Each property is stated with a comment that names the code behaviour it is about;
beside the definitions stand the plausible faults (`…_NoForUpdate`,
`…_KeepsServing`, …) that each of them was seen to catch.

### Bounds

* `audit_chain`: 4 rows, 2 payloads.  A fork needs one committed row that the
  pointer does not name and one write after it; 4 rows allow two such episodes in
  a row and a retry that records twice.  Two payloads tell a wrong row from a
  repeated one.
* `audit_verifier`: 3 rows are a good row, a break and a row after it; two
  verifiers, of which one may be killed, are enough for the checkpoint to move
  backwards between two passes.
* `policy_*`: 3 mutations, 1 crash, 3 policies of which two share a version: an
  activation, a failed one and a rollback; 1 crash can already hit each step of
  each, recovery included.  One journal entry exists at a time, so more mutations
  repeat these.  A handoff row is repeated at most once, which is enough for recovery to
  find several.
* `drift_baseline`: 2 tools (a rename needs both), 3 schemas (with one change that
  does not block), 2 sessions, 2 approvals, 3 checks: two overlapping checks and
  the one after them.  Sessions are interchangeable and so are admin requests
  (symmetry); the properties quantify over all of them, and the run has no
  liveness property, so the reduction is sound.
* `decision_pipeline`: 2 sessions, 2 requests, 1 disturbance.  Seven calls cover each
  band with and without proof and approval, a missing nonce and a missing attribute; two
  policies differ in grants, tiers, conditions and authentication, two lists in one
  change that blocks and one that does not.  Two requests let the list of one session
  race the call of the other; one disturbance is enough for each race of a call with a
  swap, a drift, an approval or a failing stage.  The thresholds of the counters are
  set so low that the second call meets them, one drift counts as a history, and "a" of
  the first list and "y" of the second are suspicious.  A gateway that has listed its
  server before may find its tools changed from the start.  Sessions are symmetric.
* `sessions`: 2 sessions and 2 calls: two calls on one session race their deadlines
  (one of them takes the session from the other), and a second session shows that the
  quotas of one identity are shared.
* `audit_keys`: 3 keys (two rotations), 4 sequence numbers, 2 crashes: a rotation that
  is interrupted, recovered, interrupted in its recovery, and one after it.
* `tokens`: 2 requests, window 3, TOTP step 2, clocks at most 1 ahead, delays at most
  1, times 0..10: more than a nonce's whole life (2 windows) and more than three TOTP
  steps.  The four protocols share nothing but the clock and are explored one at a
  time (`MCMixes`).  Two calls pass in a rate window, so that one passes between the
  INCR of another and its EXPIRE.
* `approvals`: 3 calls (one asks, two retry, or one retries with something else),
  1 admin, 1 sweep, a pool of 2 and a clock of 3 moments around a TTL of 1.  The
  deployed pool has 15 connections; the wait is the same as soon as as many
  coroutines hold one, and 2 is the least with which a coroutine can be served
  while another waits.

Deadlock is checked in `audit_chain`, `audit_fork` and `audit_verifier`.  The
others end when their bounded operations have been used up.

### Fairness

* `AuditVerifier`: weak fairness of the daemon's steps only (`while True: verify;
  sleep`).  Writers, operators and faults are not fair: nothing has to be written.
* `PolicyActivation`: weak fairness of the coroutine's steps (the event loop runs a
  ready task) and of the restart by which an operator clears a blocked gateway
  (`restart: unless-stopped` for one that is down); strong fairness of `Promote`
  and `Finish`, which a disk may fail again and again, but not for ever.  Without
  the last assumption a handoff need not reach the disk.
* `SessionLifecycle`: weak fairness of the steps of tasks and timers that are due
  (`TaskStep`), and of the end of the pump that reads a stopped container's output.
  Clients and running upstreams owe nothing: they need neither answer nor leave.  The
  send of a deadline's error into the write stream is taken to return.
* `AuditKeys`: weak fairness of rotation, lock, write and startup steps, and of the
  operator who restarts a gateway that is down or blocked by its recovery.
* `DecisionPipeline` and `OneTimeTokens` have safety properties only.
* `ApprovalLifecycle`: weak fairness of each coroutine's next step together with
  its pool timeout.  SQLAlchemy's pool raises after 30 s, so that one of the two is
  taken is a promise of the library.  `EveryRequestEnds` fails without the timeout:
  it alone breaks the cycle of coroutines that hold a connection and wait for one.

## 4. Disagreements between code and documentation

1. **The audit chain forks** (`audit_fork`, `audit_log.py:148`).  Only
   `except Exception` around EXEC marks the pointer dirty.  A cancelled write
   (`SessionManager._run` cancels its pumps), an INSERT whose commit raised after
   taking effect and the `WatchError` that redis-py raises for a connection lost
   under EXEC all leave a committed row behind a *clean, stale* pointer.  The next
   write chains onto the row before it.  ARCHITECTURE.md:704 promises a contiguous
   chain.
2. **Audited but not active** (`policy_ack_lost`, `main.py:153`).  `handed_off` is
   set only after `write` and `mark_handoff` have returned.  When `write` raises with
   its row committed (Redis fails under EXEC), or `mark_handoff` meets a single
   `OSError`, the operation is aborted and its journal removed, and the gateway goes on
   serving the old policy after a `POLICY_ACTIVATED` row for the new one.
   ARCHITECTURE.md:539 has both converge "before traffic resumes".  `LastRowServed` says
   so and is violated; `TrafficConverged`, `RecoveryPossible` and `HandoffReachesDisk`
   leave out exactly these operations (`unnoticed`).
3. **A rename unblocks itself** (`drift_rename`, `drift_detector.py:364`).  The
   schema of a renamed tool is stored as approved *and* observed; the next list
   takes this for a revert to the approved shape and clears `blocked`.

The following are weaker, or are not steps of a run, or the properties are stated
so as to allow them; each is listed at its hazard.

* A handoff that the writer's retry records twice (`WatchError` after the row was
  committed) makes `scalar_one_or_none` raise in the recovery of policies and of keys,
  at every start (`policy_operations.py:133`, `audit_keys.py:164`), when the process dies
  before the journal is removed.  The runs reach this; both `RecoveryPossible` allow
  several rows for a `repeated` operation only.
* A policy operation aborted with its row committed, and a crash between the two unlinks
  of `abort_before_handoff`: the journal names an audited operation whose candidate is
  gone, and recovery raises at every start.  The same of `finish` after a rotation whose
  write raised with its row.  Both `RecoveryPossible` allow it for `unnoticed` ones only.
* `rotate` discards the staged key when `write` raised, also when its row is committed
  (`audit_log.py:185-192`): the ledger then names a key that no longer exists, and the
  writer stays available and signs with the one before (the shape of finding 2).
  `KeyFollowsRotation` and `RotationReachesDisk` leave out these rotations; every row
  stays verifiable all the same (`RowsVerifiable`).
* An ordinary write that waits for the lock while the handoff of a rotation fails is
  signed by the key that the ledger has retired, because `_available` is read before
  the lock (ARCHITECTURE.md:538 has the gateway refuse from there on).
* A creation that fails after another task took its session out of the registry
  releases its slot twice: the quota then admits one session too many
  (ARCHITECTURE.md:282 "all retain that slot").  `QuotasExact` allows it, and shows
  that the count is off by no more than the number of such creations.
* A session task that is cancelled before its first step never sets `ready`; its
  creator waits on (`session_manager.py:183`).
* `create` compares the policy fingerprint before it awaits the container, so a
  session of an outdated policy may appear after the eviction.
* `is_blocked` is read at stage 5, the refetch of stage 7 may discover a blocking drift,
  and the call is forwarded all the same: `ForwardJustified` therefore asks that the
  tool was unblocked at *some* time while the call was under way.
* The version in a decision row is that of the engine at the write, which may be newer
  than the one that decided: `DecisionRecorded` can only say ≥.  A row that the writer
  repeats may carry a newer version than its twin: they agree in the event only.
* `replay_guard.py:45` says that the nonce "strictly outlives" its timestamp; that needs
  `MaxAhead + MaxDelay < Window` (`WindowAssumption`).  The comment at `step_up.py:43`
  gives a code 60 s, the code accepts it for up to 90 s; the deduplication is sized for
  the latter, and the mutant that follows the comment is caught.
* A crash between INCR and EXPIRE of `check_rate_limit` leaves a counter that never
  expires: its identity is refused from then on.
* The simulator replays a row with the row's hour for conditions but with the present
  hour for the risk engine, and with the counters of the present.

Two more concern the baselines.  A check
that read `blocked = TRUE` does not write that column, so an approval that
overlaps it leaves the tool callable with a blocking drift until the next list
(`ServedListJudged` shows it lasts no longer).  And a check that finds a tool gone
may leave `removed` next to an observed schema; an approval then promotes the
sentinel as the approved hash.

## 5. What is proved

All theorems hold for every value of the constants; TLC found each formula to hold
on the runs above before it was proved.

**`AuditChainProofs`** (no assumption beyond those `AuditChain` states)

* `TypeCorrect`: `LossySpec => []TypeOK`.
* `WriterCorrect`: `Spec => []WriterInv`.  `ChainLinear` alone is not inductive: a
  row appended with an old `prev` breaks it.  `WriterInv` adds why the hash is
  never old: `PrevIsLast` (at the INSERT, `prev` is the last hash), `PointerFresh`
  (a pointer that would be trusted is the last hash, except between the INSERT and
  the EXEC of one write; a touched key is absent; the failure branch is dirty) and
  `RowCommitted` (at the EXEC, the last row is this write's).  The three forking
  faults each break `PointerFresh`, which is why they are not in `Spec`.
* `ChainNeverForks`, its corollary.
* `WriterImplementsLedger`: `Spec => LedgerSpec`.  The ledger is the hash of the
  last row; an INSERT or a crash that kept it maps to `Record`, EXEC to `Return`,
  every failure to `Raise`, the rest stutters.  It needs `PrevIsLast`.
* `WriterRooted`: even under `LossySpec` every row's predecessor is an earlier row,
  and the pointer names a committed row: a fork is a branch, never an orphan.

Of the verifier, next to a writer under every fault and for every set of verifiers:

* `CheckpointNeverPassesBreak`: `VerifierSpec => []CheckpointSound`, and `AlarmsTrue`:
  `VerifierSpec => []NoFalseAlarm`.  `PassesInv` says of the checkpoint and of both ends of
  every pass that all rows up to there are committed and continue the chain; committed
  rows never change (`LinksKept`), so neither a stale checkpoint that is written over a
  newer one nor a pass that resumes at an old anchor can vouch for a break, and a break
  that was reported stays one.

**`DriftBaselineProofs`** (for all tools, schemas, blocking changes, sessions, admins and
bounds)

* `BlocksOnRecord`: `Spec => []BlocksAudited`.  `FindingsAudited` says that what a check has
  walked is in the log; a commit waits until the walk is done (`WalkAudited`), and writes
  a column only where its verdict differs from what it read (`FlushFacts`,
  `JudgedAgain`), so each column it writes has its row, and the others keep theirs.
* `ApprovalsOnRecord`: `Spec => ApprovalAudited`, an action property.  `ApprovalsExact`: an
  approval under way holds its row alone and still names its hash, since no check ever
  writes an approved hash.
* `ListsJudged`: `Spec => ServedListJudged`, an action property, from what a verdict is
  (`JudgedAgain`).
* `TypeCorrect`: `Spec => []TypeOK`.

**`PolicyActivationProofs`** (for every set of policies, every set of faults and all
bounds; assumes only that versions are natural numbers)

* `VersionsUnique`: `Spec => []RevisionsUnique`.  The invariant `RevisionsInv` adds
  that the admission check of `Begin` is not stale when the revision is recorded
  (`CandidateAdmissible`): between the two no other step records a revision or
  writes a snapshot.
* `ServedPolicyDurable`: `Spec => []EngineDurable`.  The invariant `DurableInv` says at
  each step of a live mutation where the candidate has got to: up to `promote` the
  engine is the file, from there on the candidate is; an operation past its
  `policy_versions` row is recorded with a snapshot.
* `TypeCorrect`: `Spec => []TypeOK`.
* `AuditAndFileConverge`: `Spec => []TrafficConverged`, and `RecoveryNeverStuck`:
  `Spec => []RecoveryPossible`, under every fault; what the faults of section 4 cost is in
  the properties themselves, as `unnoticed` and `repeated`.  They rest on one invariant
  over the journal, the rows and the file.  `Once`: an operation has at most one row
  unless it was repeated.  `JournalSound`: the journaled operation has no row and the last
  noticed handoff is `policy.yaml`; or it has one, is the last handoff but for unnoticed
  ones, and is `policy.yaml` or the staged candidate; or it has one and was aborted
  unnoticed, and then the handoff before it is `policy.yaml`.  So whatever a crash leaves,
  the row tells recovery what to do, as long as there is one of it and its candidate was
  not unlinked.  `JournalAt` and `ChainAt` say which of these holds at each step of a
  mutation, of an abort and of a recovery.

**`OneTimeTokensProofs`** (for every finite set of requests and every window, limit,
delay and clock error with `WindowAssumption` and `StepAssumption`: clocks and
delays together stay below the replay window, and within one TOTP step)

* `NoncesOnce`: `Spec => []NonceOnce`.  An accepted copy must find its own key alive
  for every later copy.  `NonceInv` bounds both ends: a copy that waits for Redis was
  fresh at most `MaxDelay` ago (`DelayInv`), no nonce is signed further ahead than
  `MaxAhead` (`StampInv`), so the key that `StoreNonce` leaves ends after
  `stamp + Window + MaxDelay`, the last instant a copy could arrive (`NonceKept`).
* `ProofsOnce`: `Spec => []ProofOnce`, the same argument for TOTP codes, whose key of
  three steps outlives `k + 2 * Step + MaxDelay`; every proof under way has a
  consumed challenge, so no two share one.
* `BurstsBounded`: `Spec => []BurstBounded`.  `FailureInv` counts the failures about to
  be recorded with those recorded.  `RateInv` says that some last `m` passes are the
  current window's, at most its count and its limit, and one less while its first call
  has yet to send EXPIRE; that the passes before came a whole window before its end;
  and that those before the previous window came a whole window ago.
* `TypeCorrect`: `Spec => []TypeOK`.

**`ApprovalLifecycleProofs`** (for every finite set of calls, admins and sweeps, every
lifetime, clock bound and pool size)

The inductive `ApprovalInv` has four parts: the types (`Shapes`); who holds the row
lock (`Locks`), so that a row changes only under its lock, or by a sweep that found
it unlocked and past its time; what the audit log says of a row (`Verdicts`); and the
redemptions (`Redemptions`): from `redeem` on, the row is approved, of the same call and not
used by another, and a used row is consumed and has one user.

* `ApprovalUsedOnce`: `Spec => []UsedOnce`.
* `ApprovalGranted`: `Spec => []ForwardGranted`.
* `ApprovalJustified`: `Spec => []StatusJustified`.
* `ApprovalImplements`: `Spec => ApprovalSpec`, the refinement of `OneShotApproval`.
  `ApprovalInv` does not suffice: a sweep overwrites rows that it read without a lock, and
  only what was read can be overwritten.  `OneShot` adds that an approval which is being
  used, or was, is `Lasting`: approved, not recorded as expired, and read by no sweep.  It
  is preserved because a row that may still be granted time (`InTime`) is never found stale,
  and a row under the lock of its redemption is never judged by anybody else
  (`LastsStep`).  Then every action maps to one of `OneShotApproval` or to a stutter
  (`SimulationStep`): whatever marks or records an expiry touches no used approval
  (`Expires`, `Records`), and whatever ends early can only lose what it was cleared for
  (`Loses`).
* `TypeCorrect`: `Spec => []TypeOK`.

**`SessionLifecycleProofs`** (for all finite sets of sessions and calls, and all limits)

`QuotasExact` is not inductive: it does not say that a session is cleaned up once.
`Owners` does: a session in the registry has no cleaner; one that a deadline has taken
is out of the registry, has no cleaner and no second deadline; a call that has not
reached its handler has no deadline, and only sessions whose creation is done have
calls.  With it each step is an arithmetic fact about finite sets (`SlotReleased`,
`RemovedExact`).

* `QuotasKept`: `Spec => []QuotasExact`.
* `CallsOwned`: `Spec => []CallOwned`: the deadline that takes a session away covers the
  other calls of that session, until the cleaner it becomes ends them all.
* `SessionsSound`: the inductive invariant itself.

**`AuditKeysProofs`** (for every set of faults, crashes included, and all bounds)

`KeysInv` says what survives a crash (`Durable`), where rotate, recovery and startup are
when it holds (`Control`), and what the rows say (`Ledger`: one row for each rotation that
was not repeated, each row signed by the archived key it names).  A journaled rotation is
in one of three states: `Unwritten`, no row and the private key is the newest; `Missed`, a
row whose write raised, so that the private key is the newest but for it; `Handed`, a row
that is the newest, whose key is private or staged.  Only recovery, which finds the row,
turns the second into the third, if the staged key is still there.  The key of a rotation
is fresh until its row is written, and a journal never names an older rotation than the
newest on record: that is why recovery may decide by the row alone.  The exceptions that
`unnoticed` and `repeated` make are in the properties, not in a restriction of the faults.

* `SigningKeyFollows`: `Spec => []KeyFollowsRotation`.
* `HistoryVerifiable`: `Spec => []RowsVerifiable`.
* `RotationRecoverable`: `Spec => []RecoveryPossible`.
* `ExportsVerify`: `Spec => []ExportVerifies`.  `prepare` and the stream read in different
  transactions, with writes, rotations and crashes between them.  `Exports` says that the
  stream will read what the manifest was computed from: a range ends below the next
  sequence number, so a row that is written meanwhile lies past it (`WithinKept`,
  `ExportsAdded`), and what `prepare` accepts verifies by the keys it names
  (`AcceptedVerifies`).  `Within` states a range as the stretch of the ledger that its
  sequence numbers, which increase, cut out.
* `TypeCorrect`: `Spec => []TypeOK`.
* `KeysSound`: the inductive invariant itself.

**`DecisionPipelineProofs`** (for all policies, lists, sessions, calls and bounds)

Of `RiskScoring`, for every setting, context and number of approvals:

* `ScoreBounds`: a score is between 0 and 100.
* `DiscountNeverClears`: the factors an approval does not discount decide the band from
  below.  Above 90 the call is denied, from 70 on a human is asked, from 40 on it is never
  allowed without a proof, however many approvals the caller has.

Of the pipeline:

* `CallsJustified`: `Spec => []ForwardJustified`.  `Sound` says what is known of a call
  at each stage of an enforcing gateway, and that an ALLOW, wherever it is carried,
  has all of it; grants and risk are judged by some policy in force since the call
  arrived, so that an activation between two stages preserves it (`SoundLater`), and an
  unblocked tool is remembered (`SoundReopened`).  The score enters by
  `DiscountNeverClears` alone, and each objection of a stage by one lemma (`Objected`).
* `CallsAudited`: `Spec => []DecisionRecorded`, in either mode and whatever await fails.
  `Recorded` says that a call has no row before its write (`OwnRows`: no two calls and no
  earlier row have its number), that from there on every row of a call has its event, one
  or many, and which of them each later stage can count on.  It needs
  nothing of `Sound`: what is recorded does not depend on whether it was right.
* `ExplanationsHold`: `Spec => []ExplainAgrees`.  `PredictInv` follows a call that is alone
  and undisturbed next to the dry run: of the seven stages of `Objections` those the call
  has passed raise nothing (`Agrees`), or the call already has the event of the first that
  does.  The live pipeline counts the call before it scores it and the dry run adds one to
  the count, so once the call is scored only the verdict on its schema is still compared.
  That every other step is a disturbance or a new request, which the property excludes,
  rests on `RecordInv` and on what each step carries over (`StepCarries`).
* `ReviewsSound`: `Spec => []ReviewSound`, of the analyses in `PolicyReview`.  A replay has
  the counters of the present, so a row that was denied or challenged could look allowed
  if a counter ever fell.  `StandingInv` says that none does: the objection that ended a
  call at its first stage still stands in any later state that nothing disturbed
  (`Hardens`: counts, drifts, blocks and stored tools only get worse for it, and no baseline
  stops being suspicious, for only an approval changes what is approved; `FirstStage`).
  With it no replay of any subset of the rows flatters (`NothingFlattered`), and a scaffold grants
  what it observed (`Scaffolds`, `ScaffoldCovers`) without any induction over rows, since
  each claim is about one row.

## 6. What is only model-checked, and what is left out

* Liveness (`BreakReported`, `EveryRowVerified`, `HandoffReachesDisk`,
  `EveryRequestEnds`, `EveryCallEnds`, `EverySessionReaped`, `RotationReachesDisk`) is
  beyond the prover and stays with TLC.
* Every invariant, action property and refinement that a passing run checks is also
  proved.  The three disagreements of section 4 are runs only: a counterexample needs no
  proof.
* Cryptography is ideal: hashes do not collide, signatures verify.  No row is altered
  after its commit, so a verifier pass fails exactly on a fork.
* PostgreSQL transactions are atomic and durable; READ COMMITTED and row locks are
  modelled where the code depends on them.
* Redis.  The pointer of the audit chain, the schema cache and the counters of the risk
  engine may be lost at any time.  `OneTimeTokens` assumes that its keys live until they
  expire: a nonce, a used code or a count that Redis evicts, or loses when it restarts
  (`compose.prod.yml:52` syncs its log once per second), is accepted again, and the code has
  no defence against it.
* One gateway process, as the code assumes (its locks are asyncio locks).
* YAML and JSON parsing, HTTP routing, metrics, logging and the client-side tools.

* The languages of conditions and of schemas, the diff of two schemas and the
  description heuristics are constants of the models (which call satisfies which
  condition, which schemas an argument fits, which changes block).
* The comparison of two recorded revisions, the rendering of a scaffold and its final
  check that the base policy did not change; `POLICY_ERROR` rows, which are best effort.

## 7. Plan

Theorems: `RiskScoring` and `PolicyReview` are proved about as parts of the pipeline; what
is left are results beside the checked properties: that `AuditVerifier` next to a writer
without unhandled faults never alarms, that a rotation refines an abstract key ledger, and
that `OneTimeTokens` implements an abstract one-time token.

Models: tools that appear and leave in the pipeline, the classification of schema changes
over a small universe of schemas, and the limits of request bodies.
