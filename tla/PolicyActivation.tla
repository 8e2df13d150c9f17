-------------------------- MODULE PolicyActivation --------------------------
(***************************************************************************)
(* The journaled policy activation of services/gateway/main.py             *)
(* (_activate_policy, and the startup order of lifespan) over              *)
(* policy_operations.py (PolicyOperationStore) and policy_versions.py.     *)
(*                                                                         *)
(* A rollout, a SIGHUP or a rollback stages the candidate, journals the    *)
(* operation, records the revision, appends POLICY_ACTIVATED, marks the    *)
(* handoff, replaces policy.yaml, swaps the engine, evicts sessions and    *)
(* removes the journal.  One lock admits one mutation at a time.  Every    *)
(* durable effect is an action; between any two of them the process may    *)
(* crash, and each of them may raise, with or without its effect.  Startup *)
(* runs PolicyOperationStore.recover, which reuses promote and finish.     *)
(***************************************************************************)
EXTENDS Naturals, Sequences, FiniteSets

CONSTANTS
  Policies,    \* policy files: records with a version and a content
  Faults,      \* the faults that may happen, a subset of AllFaults
  MaxOps,      \* bound: mutations started
  MaxCrashes   \* bound: crashes of the process

AllFaults ==
  { "stageError",     \* staging, journalling or an unlink raises OSError
    "recordError",    \* policy_versions raises
    "auditError",     \* the audit write raises, nothing recorded
    "auditAckLost",   \* the audit write raises after the row was committed
                      \* (its Redis EXEC failed, or the commit's answer was lost)
    "auditTwice",     \* the writer meets a WatchError and starts over
    "handoffError",   \* mark_handoff raises OSError
    "promoteError",   \* promote, or finish, raises OSError
    "evictError",     \* evict_outdated raises
    "crash" }

ASSUME PoliciesAssumption == \A p \in Policies : p.version \in Nat
ASSUME FaultsAssumption == Faults \subseteq AllFaults
ASSUME BoundsAssumption == MaxOps \in Nat /\ MaxCrashes \in Nat

VARIABLES
  active,      \* policy.yaml
  pending,     \* the staged candidate file: a set of at most one policy
  journal,     \* the operation journal: a set of at most one entry
  snapshots,   \* revisions/v{n}.yaml
  recorded,    \* rows of policy_versions
  chain,       \* the POLICY_ACTIVATED rows; op 0 marks a startup row
  engine,      \* PolicyStore.engine
  blocked,     \* PolicyOperationStore.blocked
  up,          \* startup has completed
  pc,          \* the next step of the mutation or of the startup
  cur,         \* the operation of the mutation or of the recovery
  ops,         \* mutations started so far
  crashes,     \* crashes so far
  unnoticed,   \* history: operations with a committed row that the gateway
               \* aborted, or could not tell from one without a row
  repeated     \* history: operations whose row the writer wrote again

disk == <<active, pending, journal, snapshots, recorded, chain>>
bounds == <<ops, crashes>>
history == <<unnoticed, repeated>>   \* no guard reads it
vars == <<disk, engine, blocked, up, pc, cur, bounds, history>>

(* Mutant: operation ids are not unique.                                   *)
Operation_SameId(id, p, rollback) ==
  [id |-> IF id = 0 THEN 0 ELSE 1, policy |-> p, rollback |-> rollback]

Operation(id, p, rollback) == [id |-> id, policy |-> p, rollback |-> rollback]
Entry(op, phase) == [id |-> op.id, policy |-> op.policy, phase |-> phase]

Rows(id) == {i \in 1..Len(chain) : chain[i].op = id}
Record(op) == Append(chain, [op |-> op.id, policy |-> op.policy])

(* Mutant: a version equal to the highest one is admitted.                 *)
Admissible_SameVersion(p) == \A r \in recorded : r.version <= p.version

(* policy_versions.activation_status and record_activation: versions only  *)
(* grow, and a revision snapshot is never overwritten.                     *)
Admissible(p) ==
  /\ \A r \in recorded : r.version < p.version
  /\ \A s \in snapshots : s.version = p.version => s = p

-----------------------------------------------------------------------------
Init ==
  /\ active \in {p \in Policies : \A q \in Policies : p.version <= q.version}
  /\ pending = {} /\ journal = {} /\ snapshots = {} /\ recorded = {}
  /\ chain = << >>
  /\ engine = active
  /\ blocked = FALSE
  /\ up = FALSE
  /\ pc = "down"
  /\ cur = Operation(0, active, FALSE)
  /\ ops = 0 /\ crashes = 0
  /\ unnoticed = {} /\ repeated = {}

Enter(at) == pc' = at /\ UNCHANGED <<up, cur, bounds>>
Goto(at) == Enter(at) /\ UNCHANGED history
InMemory == <<engine, blocked>>

(* _activate_policy up to prepare: lock, journal, preflight, status.       *)
Begin(p, rollback) ==
  /\ up /\ pc = "idle" /\ ops < MaxOps
  /\ ~blocked /\ journal = {}
  /\ IF rollback THEN p \in snapshots ELSE Admissible(p)
  /\ cur' = Operation(ops + 1, p, rollback)
  /\ ops' = ops + 1
  /\ pc' = "stage"
  /\ UNCHANGED <<disk, InMemory, up, crashes, history>>

StagePending ==
  /\ pc = "stage"
  /\ pending' = {cur.policy}
  /\ Goto("journal")
  /\ UNCHANGED <<active, journal, snapshots, recorded, chain, InMemory>>

StageJournal ==
  /\ pc = "journal"
  /\ journal' = {Entry(cur, "prepared")}
  /\ Goto("record")
  /\ UNCHANGED <<active, pending, snapshots, recorded, chain, InMemory>>

(* record_activation writes the snapshot, then commits its row.            *)
RecordSnapshot ==
  /\ pc = "record" /\ ~cur.rollback
  /\ snapshots' = snapshots \cup {cur.policy}
  /\ Goto("recordRow")
  /\ UNCHANGED <<active, pending, journal, recorded, chain, InMemory>>

(* Mutant: the session of record_activation is never committed.            *)
RecordRow_NotCommitted ==
  /\ pc = "recordRow"
  /\ Goto("audit")
  /\ UNCHANGED <<disk, InMemory>>

RecordRow ==
  /\ pc = "recordRow"
  /\ recorded' = recorded \cup {cur.policy}
  /\ Goto("audit")
  /\ UNCHANGED <<active, pending, journal, snapshots, chain, InMemory>>

(* record_rollback refuses a version that was never recorded.              *)
RecordRollback ==
  /\ pc = "record" /\ cur.rollback
  /\ Goto(IF cur.policy \in recorded THEN "audit" ELSE "abort")
  /\ UNCHANGED <<disk, InMemory>>

(* The audit row is committed; the write has not returned yet.             *)
AuditHandoff ==
  /\ pc = "audit"
  /\ chain' = Record(cur)
  /\ Goto("handoff")
  /\ UNCHANGED <<active, pending, journal, snapshots, recorded, InMemory>>

MarkHandoff ==
  /\ pc = "handoff"
  /\ journal' = {Entry(cur, "handoff")}
  /\ Goto("promote")
  /\ UNCHANGED <<active, pending, snapshots, recorded, chain, InMemory>>

(* promote: os.replace(pending, active), then the journal.                 *)
Promote ==
  /\ pc = "promote"
  /\ pending = {cur.policy}
  /\ active' = cur.policy /\ pending' = {}
  /\ Goto("promoted")
  /\ UNCHANGED <<journal, snapshots, recorded, chain, InMemory>>

(* Mutant: the journal names a phase PolicyOperation does not know.        *)
JournalPromoted_Misnamed ==
  /\ pc = "promoted"
  /\ journal' = {Entry(cur, "done")}
  /\ Goto(IF up THEN "swap" ELSE "finish")
  /\ UNCHANGED <<active, pending, snapshots, recorded, chain, InMemory>>

JournalPromoted ==
  /\ pc = "promoted"
  /\ journal' = {Entry(cur, "promoted")}
  /\ Goto(IF up THEN "swap" ELSE "finish")
  /\ UNCHANGED <<active, pending, snapshots, recorded, chain, InMemory>>

Swap ==
  /\ pc = "swap"
  /\ engine' = cur.policy
  /\ Goto("evict")
  /\ UNCHANGED <<disk, blocked>>

Evict == pc = "evict" /\ Goto("finish") /\ UNCHANGED <<disk, InMemory>>

Finish ==
  /\ pc = "finish"
  /\ pending' = {} /\ journal' = {}
  /\ blocked' = FALSE
  /\ Goto(IF up THEN "idle" ELSE "load")
  /\ UNCHANGED <<active, snapshots, recorded, chain, engine>>

(* abort_before_handoff: unlink the candidate, then the journal.           *)
AbortPending ==
  /\ pc = "abort"
  /\ pending' = {}
  /\ Goto("abortJournal")
  /\ UNCHANGED <<active, journal, snapshots, recorded, chain, InMemory>>

AbortJournal ==
  /\ pc = "abortJournal"
  /\ journal' = {}
  /\ Goto(IF up THEN "idle" ELSE "load")
  /\ UNCHANGED <<active, pending, snapshots, recorded, chain, InMemory>>

-----------------------------------------------------------------------------
(* A step raises.  During startup the process exits; a live mutation whose *)
(* operation was never returned by prepare just ends, one before the       *)
(* handoff is aborted, one after it blocks the gateway.                    *)
Raise(afterwards) == Goto(IF up THEN afterwards ELSE "down")

(* It raises, and the handoff row of this operation stays behind: the      *)
(* exception handler cannot know of it, handed_off is still False.         *)
RaiseUnnoticed ==
  /\ Enter("abort")
  /\ unnoticed' = unnoticed \cup {cur.id}
  /\ UNCHANGED repeated

(* An atomic write may raise after its os.replace (the directory fsync).   *)
StageFails ==
  /\ "stageError" \in Faults
  /\ \/ /\ pc = "stage"
        /\ pending' \in {pending, {cur.policy}}
        /\ UNCHANGED journal
        /\ Raise("idle")
     \/ /\ pc = "journal"
        /\ journal' \in {journal, {Entry(cur, "prepared")}}
        /\ UNCHANGED pending
        /\ Raise("idle")
     \/ /\ pc \in {"abort", "abortJournal"}
        /\ UNCHANGED <<pending, journal>>
        /\ Raise("idle")
  /\ UNCHANGED <<active, snapshots, recorded, chain, InMemory>>

RecordFails ==
  /\ "recordError" \in Faults
  /\ pc \in {"record", "recordRow"}
  /\ \/ UNCHANGED recorded
     \/ pc = "recordRow" /\ recorded' = recorded \cup {cur.policy}
  /\ Raise("abort")
  /\ UNCHANGED <<active, pending, journal, snapshots, chain, InMemory>>

(* The audit write raises without recording (this time).                   *)
AuditFails ==
  /\ "auditError" \in Faults
  /\ pc \in {"audit", "startAudit"}
  /\ IF pc = "audit" /\ Rows(cur.id) # {} THEN RaiseUnnoticed ELSE Raise("abort")
  /\ UNCHANGED <<disk, InMemory>>

(* The write raises with its row committed.  (At startup that is a crash   *)
(* right after StartupAudit.)                                              *)
AuditAckLost ==
  /\ "auditAckLost" \in Faults
  /\ pc = "handoff"
  /\ RaiseUnnoticed
  /\ UNCHANGED <<disk, InMemory>>

(* AuditWriter.write starts over with its row already committed.  One more *)
(* row is enough for recovery to find several.  (A startup row written     *)
(* twice says the same as one.)                                            *)
AuditRepeated ==
  /\ "auditTwice" \in Faults
  /\ pc = "handoff" /\ Cardinality(Rows(cur.id)) < 2
  /\ Enter("audit")
  /\ repeated' = repeated \cup {cur.id}
  /\ UNCHANGED <<disk, InMemory, unnoticed>>

(* handed_off is set only after mark_handoff: its failure aborts, too.     *)
HandoffFails ==
  /\ "handoffError" \in Faults
  /\ pc = "handoff"
  /\ journal' \in {journal, {Entry(cur, "handoff")}}
  /\ RaiseUnnoticed
  /\ UNCHANGED <<active, pending, snapshots, recorded, chain, InMemory>>

(* Mutant: an operation that failed after its handoff does not block.      *)
Block_KeepsServing ==
  /\ Raise("idle")
  /\ UNCHANGED InMemory

Block ==
  /\ blocked' = up
  /\ Raise("idle")
  /\ UNCHANGED engine

PromoteFails ==
  /\ "promoteError" \in Faults
  /\ \/ pc = "promote" /\ UNCHANGED <<pending, journal>>
     \/ pc = "promoted" /\ UNCHANGED pending
        /\ journal' \in {journal, {Entry(cur, "promoted")}}
     \/ pc = "finish" /\ UNCHANGED journal /\ pending' \in {pending, {}}
  /\ Block
  /\ UNCHANGED <<active, snapshots, recorded, chain>>

EvictFails ==
  /\ "evictError" \in Faults
  /\ pc = "evict"
  /\ Block
  /\ UNCHANGED disk

Crash ==
  /\ "crash" \in Faults
  /\ pc # "down" /\ crashes < MaxCrashes
  /\ crashes' = crashes + 1
  /\ up' = FALSE /\ blocked' = FALSE
  /\ pc' = "down"
  /\ UNCHANGED <<disk, engine, cur, ops, history>>

-----------------------------------------------------------------------------
(* Mutant: startup discards every operation it finds in the journal.       *)
Recover_Discards ==
  /\ pc = "down"
  /\ IF journal = {}
       THEN UNCHANGED cur /\ pc' = "load"
       ELSE \E entry \in journal :
              cur' = Operation(entry.id, entry.policy, FALSE) /\ pc' = "abort"
  /\ UNCHANGED <<disk, InMemory, up, bounds, history>>

(* PolicyOperationStore.recover.  The operation it finds is completed when *)
(* exactly one POLICY_ACTIVATED row carries its id, discarded when none    *)
(* does; scalar_one_or_none raises when there are several, and a completed *)
(* activation whose candidate is gone raises: the gateway does not start.  *)
(* A row it finds is noticed from here on.                                 *)
Recover ==
  /\ pc = "down"
  /\ IF journal = {}
       THEN UNCHANGED <<cur, unnoticed>> /\ pc' = "load"
       ELSE \E entry \in journal :
              /\ cur' = Operation(entry.id, entry.policy, FALSE)
              /\ Cardinality(Rows(entry.id)) <= 1
              /\ pc' = IF Rows(entry.id) = {} THEN "abort"
                       ELSE IF active = entry.policy THEN "finish" ELSE "promote"
              /\ pc' = "promote" => pending # {}
              /\ unnoticed' = unnoticed \ {entry.id}
  /\ UNCHANGED <<disk, InMemory, up, bounds, repeated>>

(* lifespan: load policy.yaml, record its revision (a no-op when it has    *)
(* its row) and audit the startup activation, whoever activated it before. *)
Load ==
  /\ pc = "load"
  /\ active \in recorded \/ Admissible(active)
  /\ engine' = active
  /\ snapshots' = snapshots \cup {active}
  /\ recorded' = recorded \cup {active}
  /\ Goto("startAudit")
  /\ UNCHANGED <<active, pending, journal, chain, blocked>>

StartupAudit ==
  /\ pc = "startAudit"
  /\ chain' = Record(Operation(0, engine, FALSE))
  /\ up' = TRUE
  /\ pc' = "idle"
  /\ UNCHANGED <<active, pending, journal, snapshots, recorded, InMemory,
                 cur, bounds, history>>

(* An operator restarts a gateway that asks for recovery.                  *)
OperatorRestart ==
  /\ up /\ pc = "idle" /\ (blocked \/ journal # {})
  /\ up' = FALSE /\ blocked' = FALSE
  /\ pc' = "down"
  /\ UNCHANGED <<disk, engine, cur, bounds, history>>

Mutate == \E p \in Policies, rollback \in BOOLEAN : Begin(p, rollback)

Steps ==
  \/ StagePending \/ StageJournal \/ RecordSnapshot \/ RecordRow \/ RecordRollback
  \/ AuditHandoff \/ MarkHandoff \/ Promote \/ JournalPromoted
  \/ Swap \/ Evict \/ Finish \/ AbortPending \/ AbortJournal
  \/ Recover \/ Load \/ StartupAudit

Failures ==
  \/ StageFails \/ RecordFails
  \/ AuditFails \/ AuditAckLost \/ AuditRepeated \/ HandoffFails
  \/ PromoteFails \/ EvictFails \/ Crash

Next == Mutate \/ Steps \/ Failures \/ OperatorRestart

Spec == Init /\ [][Next]_vars

(* The event loop runs a started mutation or startup to its end; a gateway *)
(* that is down is started again (restart: unless-stopped) and a blocked   *)
(* one by its operator.  A disk that fails one promotion after the other   *)
(* does not do so for ever: hence strong fairness of the last two steps.   *)
RestartSpec ==
  /\ Spec
  /\ WF_vars(Steps) /\ WF_vars(OperatorRestart)
  /\ SF_vars(Promote) /\ SF_vars(Finish)

-----------------------------------------------------------------------------
(* Durable state, gateway state and control have these types.              *)
TypeOK ==
  /\ active \in Policies /\ engine \in Policies
  /\ pending \in SUBSET Policies
  /\ journal \in SUBSET [id : 1..MaxOps, policy : Policies,
                         phase : {"prepared", "handoff", "promoted"}]
  /\ snapshots \in SUBSET Policies /\ recorded \in SUBSET Policies
  /\ chain \in Seq([op : 0..MaxOps, policy : Policies])
  /\ blocked \in BOOLEAN /\ up \in BOOLEAN
  /\ pc \in {"down", "idle", "load", "stage", "journal", "record", "recordRow",
             "audit", "startAudit", "handoff", "promote", "promoted", "swap", "evict",
             "finish", "abort", "abortJournal"}
  /\ cur \in [id : 0..MaxOps, policy : Policies, rollback : BOOLEAN]
  /\ ops \in 0..MaxOps /\ crashes \in 0..MaxCrashes
  /\ unnoticed \in SUBSET (1..MaxOps) /\ repeated \in SUBSET (1..MaxOps)

(* The rows whose outcome the gateway knows, and those of mutations.       *)
Noticed == {i \in 1..Len(chain) : chain[i].op \notin unnoticed}
Handoffs == {i \in Noticed : chain[i].op # 0}
LastOf(rows) == {chain[i] : i \in {i \in rows : \A j \in rows : j <= i}}

(* /mcp is served and no mutation is under way, or one only has sessions   *)
(* left to evict.                                                          *)
Settled == up /\ ~blocked /\ pc \in {"idle", "evict"}

(* "The audit row and durable active file must converge on the same policy *)
(* before traffic resumes": whatever failed, the engine that serves is the *)
(* one the last POLICY_ACTIVATED row names and the one of the last handoff *)
(* of a mutation, but for rows that the gateway did not notice.            *)
TrafficConverged ==
  Settled => \A row \in LastOf(Noticed) \cup LastOf(Handoffs) : row.policy = engine

(* The same as it is documented, without that exception.                   *)
LastRowServed == Settled => chain[Len(chain)].policy = engine

(* Whatever failed, the engine that serves is policy.yaml, and it has its  *)
(* row in policy_versions and its revision snapshot to roll back to.       *)
EngineDurable ==
  Settled => engine = active /\ engine \in recorded \cap snapshots

(* No two recorded revisions share a version, and no snapshot disagrees    *)
(* with the revision recorded under its version.                           *)
RevisionsUnique ==
  \A p \in recorded, q \in recorded \cup snapshots :
    p.version = q.version => p = q

(* Recovery can proceed: it finds two handoff rows for the journaled       *)
(* operation only when the writer wrote the row again, and an audited one  *)
(* whose candidate file is gone only when it was aborted unnoticed and the *)
(* abort stopped between its two unlinks.                                  *)
RecoveryPossible ==
  pc = "down" =>
    \A entry \in journal :
      /\ Cardinality(Rows(entry.id)) <= 1 \/ entry.id \in repeated
      /\ Rows(entry.id) # {} /\ active # entry.policy =>
           pending = {entry.policy} \/ entry.id \in unnoticed

(* "A committed audit handoff is the recovery boundary": policy.yaml ends  *)
(* up with the policy of every noticed handoff that no later one replaces, *)
(* unless its row was written twice.                                       *)
HandoffReachesDisk ==
  \A p \in Policies :
    (\E row \in LastOf(Handoffs) : row.policy = p) ~>
      \/ active = p
      \/ \A row \in LastOf(Handoffs) : row.policy # p \/ row.op \in repeated
=============================================================================
