----------------------- MODULE PolicyActivationProofs -----------------------
(***************************************************************************)
(* Proofs about PolicyActivation, for every set of policy files, every set *)
(* of faults and every bound.                                              *)
(***************************************************************************)
EXTENDS PolicyActivation, SequenceTheorems, FiniteSetTheorems, TLAPS

USE DEF disk, bounds, history, InMemory, Enter, Goto, Raise, RaiseUnnoticed, Block

(* The steps of a mutation before its row in policy_versions, those before *)
(* policy.yaml is replaced, and those after the row.                       *)
Admitting == {"stage", "journal", "record", "recordRow"}
Unpromoted ==
  Admitting \cup {"audit", "handoff", "promote", "abort", "abortJournal"}
Recorded == {"audit", "handoff", "promote", "promoted", "swap", "evict", "finish"}

(* Files and rows hold policies of the model: what versions are compared.  *)
PolicyTypes ==
  /\ active \in Policies /\ engine \in Policies /\ cur.policy \in Policies
  /\ pending \subseteq Policies
  /\ \A entry \in journal : entry.policy \in Policies
  /\ snapshots \subseteq Policies /\ recorded \subseteq Policies
  /\ up \in BOOLEAN /\ blocked \in BOOLEAN /\ cur.rollback \in BOOLEAN

(* What Begin checked of a candidate still holds when it is recorded: no   *)
(* other step records a revision or writes a snapshot until then.          *)
CandidateAdmissible ==
  pc \in Admitting /\ ~cur.rollback => Admissible(cur.policy)

RevisionsInv ==
  /\ PolicyTypes
  /\ pc = "recordRow" => ~cur.rollback
  /\ CandidateAdmissible
  /\ RevisionsUnique

Durable(p) == p \in recorded /\ p \in snapshots

(* Where a live mutation stands between policy.yaml and the engine: until  *)
(* the candidate replaces policy.yaml the engine is the file, from then on *)
(* the candidate is the file, and both have a row and a snapshot.          *)
DurableInv ==
  /\ pc = "down" => ~up
  /\ pc \in {"stage", "journal", "record"} /\ cur.rollback => cur.policy \in snapshots
  /\ pc = "recordRow" => cur.policy \in snapshots
  /\ pc = "startAudit" => engine = active /\ Durable(engine)
  /\ up /\ pc = "idle" /\ ~blocked => engine = active /\ Durable(engine)
  /\ up /\ pc \in Unpromoted => engine = active /\ Durable(engine)
  /\ up /\ pc \in Recorded => Durable(cur.policy)
  /\ up /\ pc \in {"promoted", "swap", "evict", "finish"} => active = cur.policy
  /\ up /\ pc \in {"evict", "finish"} => engine = cur.policy

(* Every step keeps policies policies.                                     *)
LEMMA PolicyTypesStep ==
  ASSUME PolicyTypes, [Next]_vars  PROVE PolicyTypes'
  <1> USE DEF PolicyTypes, Operation, Entry
  <1>1. ASSUME NEW p \in Policies, NEW r \in BOOLEAN, Begin(p, r)  PROVE PolicyTypes'
    BY <1>1 DEF Begin
  <1>2. CASE Steps
    <2>1. CASE StagePending \/ StageJournal \/ RecordSnapshot \/ RecordRow \/ RecordRollback
      BY <2>1 DEF StagePending, StageJournal, RecordSnapshot, RecordRow, RecordRollback
    <2>2. CASE AuditHandoff \/ MarkHandoff \/ Promote \/ JournalPromoted
      BY <2>2 DEF AuditHandoff, MarkHandoff, Promote, JournalPromoted
    <2>3. CASE Swap \/ Evict \/ Finish \/ AbortPending \/ AbortJournal
      BY <2>3 DEF Swap, Evict, Finish, AbortPending, AbortJournal
    <2>4. CASE Recover
      <3>1. cur'.policy \in Policies /\ cur'.rollback \in BOOLEAN
        <4>1. CASE journal = {}
          BY <2>4, <4>1 DEF Recover
        <4>2. ASSUME NEW entry \in journal, cur' = Operation(entry.id, entry.policy, FALSE)
              PROVE  cur'.policy \in Policies /\ cur'.rollback \in BOOLEAN
          BY <4>2
        <4> QED  BY ONLY <2>4, <4>1, <4>2 DEF Recover
      <3>2. UNCHANGED <<active, pending, journal, snapshots, recorded, engine, blocked, up>>
        BY <2>4 DEF Recover
      <3> QED  BY <3>1, <3>2
    <2>5. CASE Load \/ StartupAudit
      BY <2>5 DEF Load, StartupAudit
    <2> QED  BY <1>2, <2>1, <2>2, <2>3, <2>4, <2>5 DEF Steps
  <1>3. CASE Failures
    <2>1. CASE StageFails \/ RecordFails \/ AuditFails
      BY <2>1 DEF StageFails, RecordFails, AuditFails
    <2>2. CASE AuditAckLost \/ AuditRepeated
      BY <2>2 DEF AuditAckLost, AuditRepeated
    <2>3. CASE HandoffFails
      BY <2>3 DEF HandoffFails
    <2>4. CASE PromoteFails
      BY <2>4 DEF PromoteFails
    <2>5. CASE EvictFails \/ Crash
      BY <2>5 DEF EvictFails, Crash
    <2> QED  BY <1>3, <2>1, <2>2, <2>3, <2>4, <2>5 DEF Failures
  <1>5. CASE OperatorRestart \/ UNCHANGED vars
    BY <1>5 DEF OperatorRestart, vars
  <1> QED  BY <1>1, <1>2, <1>3, <1>5 DEF Next, Mutate

(* Recording an admissible policy keeps versions unique.                   *)
LEMMA RecordUnique ==
  ASSUME PolicyTypes, RevisionsUnique, NEW p \in Policies,
         p \in recorded \/ Admissible(p)
  PROVE  /\ \A q \in recorded, r \in recorded \cup snapshots \cup {p} :
              q.version = r.version => q = r
         /\ \A q \in recorded \cup {p}, r \in recorded \cup snapshots \cup {p} :
              q.version = r.version => q = r
  <1>1. CASE p \in recorded
    BY <1>1 DEF RevisionsUnique
  <1>2. CASE Admissible(p)
    <2>1. \A q \in recorded : q.version # p.version
      BY <1>2, PoliciesAssumption DEF Admissible, PolicyTypes
    <2> QED  BY <1>2, <2>1 DEF Admissible, RevisionsUnique
  <1> QED  BY <1>1, <1>2

(* The revisions invariant is preserved by every step.                     *)
LEMMA RevisionsStep ==
  ASSUME RevisionsInv, PolicyTypes', [Next]_vars  PROVE RevisionsInv'
  <1> USE DEF RevisionsInv, Admitting, CandidateAdmissible
  <1>1. ASSUME NEW p \in Policies, NEW r \in BOOLEAN, Begin(p, r)  PROVE RevisionsInv'
    BY <1>1 DEF Begin, Operation, Admissible, RevisionsUnique
  <1>2. CASE RecordSnapshot
    <2>1. RevisionsUnique'
      BY <1>2, RecordUnique DEF RecordSnapshot, RevisionsUnique, PolicyTypes
    <2> QED  BY <1>2, <2>1 DEF RecordSnapshot, Admissible
  <1>3. CASE RecordRow \/ (RecordFails /\ pc = "recordRow" /\ recorded' = recorded \cup {cur.policy})
    <2>1. RevisionsUnique'
      BY <1>3, RecordUnique DEF RecordRow, RecordFails, RevisionsUnique, PolicyTypes
    <2> QED  BY <1>3, <2>1 DEF RecordRow, RecordFails
  <1>4. CASE Load
    <2>1. RevisionsUnique'
      BY <1>4, RecordUnique DEF Load, RevisionsUnique, PolicyTypes
    <2> QED  BY <1>4, <2>1 DEF Load
  <1>5. CASE UNCHANGED <<snapshots, recorded, pc, cur>>
    BY <1>5 DEF Admissible, RevisionsUnique
  <1>6. CASE UNCHANGED <<snapshots, recorded>> /\ pc' \notin Admitting
    BY <1>6 DEF RevisionsUnique
  <1>7. CASE StagePending \/ StageJournal
    BY <1>7 DEF StagePending, StageJournal, Admissible, RevisionsUnique
  <1>8. CASE RecordRollback \/ AuditHandoff \/ MarkHandoff \/ Promote \/ JournalPromoted
             \/ Swap \/ Evict \/ Finish \/ AbortPending \/ AbortJournal
    BY <1>6, <1>8
       DEF RecordRollback, AuditHandoff, MarkHandoff, Promote, JournalPromoted,
           Swap, Evict, Finish, AbortPending, AbortJournal
  <1>9. CASE Recover \/ StartupAudit
    BY <1>6, <1>9 DEF Recover, StartupAudit
  <1>10. CASE RecordFails
    BY <1>3, <1>6, <1>10 DEF RecordFails
  <1>11. CASE StageFails \/ AuditFails \/ AuditAckLost \/ AuditRepeated
    BY <1>6, <1>11 DEF StageFails, AuditFails, AuditAckLost, AuditRepeated
  <1>12. CASE HandoffFails \/ PromoteFails \/ EvictFails \/ Crash \/ OperatorRestart
    BY <1>6, <1>12 DEF HandoffFails, PromoteFails, EvictFails, Crash, OperatorRestart
  <1>13. CASE UNCHANGED vars
    BY <1>5, <1>13 DEF vars
  <1> QED
    BY <1>1, <1>2, <1>3, <1>4, <1>7, <1>8, <1>9, <1>10, <1>11, <1>12, <1>13
       DEF Next, Mutate, Steps, Failures

(* The initial state holds policies and no revision.                       *)
LEMMA InitRevisions == Init => RevisionsInv
  <1>1. Init => PolicyTypes
    <2> SUFFICES ASSUME Init  PROVE PolicyTypes
      OBVIOUS
    <2>1. active \in Policies /\ cur = Operation(0, active, FALSE) /\ engine = active
      BY DEF Init
    <2>2. cur.policy \in Policies /\ cur.rollback \in BOOLEAN
      BY <2>1 DEF Operation
    <2>3. /\ pending = {} /\ journal = {} /\ snapshots = {} /\ recorded = {}
          /\ up = FALSE /\ blocked = FALSE
      BY DEF Init
    <2> QED  BY <2>1, <2>2, <2>3 DEF PolicyTypes
  <1>2. Init => RevisionsUnique /\ pc = "down"
    BY DEF Init, RevisionsUnique
  <1> QED  BY <1>1, <1>2 DEF RevisionsInv, CandidateAdmissible, Admitting

(* Whatever fails and wherever the process crashes, a version number names *)
(* one content: record_activation only admits growing versions and never   *)
(* overwrites a snapshot, and its check is not stale when it records.      *)
THEOREM VersionsUnique == Spec => []RevisionsUnique
  <1>1. RevisionsInv /\ [Next]_vars => RevisionsInv'
    BY RevisionsStep, PolicyTypesStep DEF RevisionsInv
  <1>2. RevisionsInv => RevisionsUnique
    BY DEF RevisionsInv
  <1> QED  BY <1>1, <1>2, InitRevisions, PTL DEF Spec

(* Every step of a mutation, a startup or a failure keeps the engine, the  *)
(* file and the recorded revisions in step.                                *)
LEMMA DurableStep ==
  ASSUME PolicyTypes, DurableInv, [Next]_vars  PROVE DurableInv'
  <1> USE DEF DurableInv, Durable, Unpromoted, Recorded, Admitting, PolicyTypes
  <1>1. ASSUME NEW p \in Policies, NEW r \in BOOLEAN, Begin(p, r)  PROVE DurableInv'
    BY <1>1 DEF Begin, Operation
  <1>2. CASE StagePending \/ StageJournal
    BY <1>2 DEF StagePending, StageJournal
  <1>3. CASE RecordSnapshot
    BY <1>3 DEF RecordSnapshot
  <1>4. CASE RecordRow
    BY <1>4 DEF RecordRow
  <1>5. CASE RecordRollback
    BY <1>5 DEF RecordRollback
  <1>6. CASE AuditHandoff \/ MarkHandoff
    BY <1>6 DEF AuditHandoff, MarkHandoff
  <1>7. CASE Promote
    BY <1>7 DEF Promote
  <1>8. CASE JournalPromoted
    BY <1>8 DEF JournalPromoted
  <1>9. CASE Swap \/ Evict
    BY <1>9 DEF Swap, Evict
  <1>10. CASE Finish
    BY <1>10 DEF Finish
  <1>11. CASE AbortPending \/ AbortJournal
    BY <1>11 DEF AbortPending, AbortJournal
  <1>12. CASE Recover
    <2>1. ~up' /\ pc' \in {"load", "abort", "finish", "promote"}
      <3>1. ~up'
        BY <1>12 DEF Recover
      <3>2. pc' \in {"load", "abort", "finish", "promote"}
        BY ONLY <1>12 DEF Recover
      <3> QED  BY <3>1, <3>2
    <2> QED  BY <2>1
  <1>13. CASE Load
    BY <1>13 DEF Load
  <1>14. CASE StartupAudit
    BY <1>14 DEF StartupAudit
  <1>15. CASE StageFails
    <2>1. UNCHANGED <<active, snapshots, recorded, engine, blocked, up, cur>>
      BY <1>15 DEF StageFails
    <2>2. pc \in Unpromoted /\ pc' = IF up THEN "idle" ELSE "down"
      BY <1>15 DEF StageFails
    <2> QED  BY <2>1, <2>2
  <1>16. CASE RecordFails
    <2>1. /\ UNCHANGED <<active, snapshots, engine, blocked, up, cur>>
          /\ recorded \subseteq recorded'
      BY <1>16 DEF RecordFails
    <2>2. pc \in Unpromoted /\ pc' = IF up THEN "abort" ELSE "down"
      BY <1>16 DEF RecordFails
    <2> QED  BY <2>1, <2>2
  <1>17. CASE AuditFails \/ AuditAckLost \/ HandoffFails
    <2>1. UNCHANGED <<active, snapshots, recorded, engine, blocked, up, cur>>
      BY <1>17 DEF AuditFails, AuditAckLost, HandoffFails
    <2>2. pc' = "abort" \/ (~up /\ pc' = "down")
      BY <1>17 DEF AuditFails, AuditAckLost, HandoffFails
    <2>3. pc \in {"audit", "startAudit", "handoff"}
      BY <1>17 DEF AuditFails, AuditAckLost, HandoffFails
    <2> QED  BY <2>1, <2>2, <2>3
  <1>18. CASE AuditRepeated
    BY <1>18 DEF AuditRepeated
  <1>19. CASE PromoteFails \/ EvictFails
    <2>1. UNCHANGED <<active, snapshots, recorded, engine, up, cur>> /\ blocked' = up
      BY <1>19 DEF PromoteFails, EvictFails
    <2>2. pc' = IF up THEN "idle" ELSE "down"
      BY <1>19 DEF PromoteFails, EvictFails
    <2> QED  BY <2>1, <2>2
  <1>20. CASE Crash \/ OperatorRestart
    BY <1>20 DEF Crash, OperatorRestart
  <1>21. CASE UNCHANGED vars
    BY <1>21 DEF vars
  <1> QED
    BY <1>1, <1>2, <1>3, <1>4, <1>5, <1>6, <1>7, <1>8, <1>9, <1>10, <1>11, <1>12,
       <1>13, <1>14, <1>15, <1>16, <1>17, <1>18, <1>19, <1>20, <1>21
       DEF Next, Mutate, Steps, Failures

(* Whatever fails and wherever the process crashes, the engine that serves *)
(* a settled gateway is policy.yaml, and that policy has its row and its   *)
(* snapshot: _activate_policy swaps only after promote, and blocks when a  *)
(* step after the handoff fails.                                           *)
THEOREM ServedPolicyDurable == Spec => []EngineDurable
  <1>1. Init => PolicyTypes /\ DurableInv
    <2>1. Init => RevisionsInv
      BY InitRevisions
    <2>2. Init => pc = "down" /\ up = FALSE
      BY DEF Init
    <2> QED
      BY <2>1, <2>2 DEF RevisionsInv, DurableInv, Unpromoted, Recorded, Admitting
  <1>2. PolicyTypes /\ DurableInv /\ [Next]_vars => (PolicyTypes /\ DurableInv)'
    BY PolicyTypesStep, DurableStep
  <1>3. PolicyTypes /\ DurableInv => EngineDurable
    BY DEF DurableInv, EngineDurable, Settled, Durable, PolicyTypes, Recorded
  <1> QED  BY <1>1, <1>2, <1>3, PTL DEF Spec

-----------------------------------------------------------------------------
(* The journal.  The last handoff that was noticed is not lost: its policy *)
(* is policy.yaml, or a journaled candidate that recovery will promote.    *)
(* Names(c, S, p): p is the policy of the last row of c whose operation is *)
(* not in S, if there is one.                                              *)
Has(c, id) == \E i \in 1..Len(c) : c[i].op = id
Names(c, S, p) ==
  \A i \in 1..Len(c) :
    c[i].op \notin S /\ (\A j \in (i + 1)..Len(c) : c[j].op \in S) => c[i].policy = p
Once(c, n, again) ==
  /\ \A i \in 1..Len(c) : c[i].op \in 0..n
  /\ \A i, j \in 1..Len(c) :
       c[i].op = c[j].op /\ c[i].op \notin again \cup {0} => i = j

(* A journaled operation has no row, or one that no other handoff follows; *)
(* unless the row was not noticed, its policy is on disk or can get there. *)
JournalSound ==
  /\ \A e, f \in journal : e = f
  /\ journal = {} => Names(chain, unnoticed \cup {0}, active)
  /\ \A e \in journal :
       /\ pending \subseteq {e.policy}
       /\ \/ ~Has(chain, e.id) /\ Names(chain, unnoticed \cup {0}, active)
          \/ /\ Has(chain, e.id)
             /\ Names(chain, (unnoticed \cup {0}) \ {e.id}, e.policy)
             /\ \/ e.id \in unnoticed /\ Names(chain, unnoticed \cup {0}, active)
                \/ e.id \notin unnoticed /\ (active = e.policy \/ pending = {e.policy})

(* What a step of a mutation or of a recovery finds in the journal.        *)
Fresh == {"stage", "journal"}
Recording == {"record", "recordRow"}
Auditing == {"audit", "handoff"}
Promoted == {"promoted", "swap", "evict", "finish"}
HandedOff == {"handoff", "promote"} \cup Promoted
Aborting == {"abort", "abortJournal"}

JournalAt ==
  /\ pc \in Fresh \cup Recording \cup Auditing \cup HandedOff \cup Aborting => cur.id \in 1..ops
  /\ pc \in Recording \cup Auditing \cup HandedOff \cup Aborting =>
       \E e \in journal : e.id = cur.id /\ e.policy = cur.policy
  /\ pc \in Fresh \cup {"load", "startAudit"} => journal = {}
  /\ pc \in Fresh \cup Recording => ~Has(chain, cur.id)
  /\ pc \in Fresh \cup Recording \cup Auditing \cup HandedOff => cur.id \notin unnoticed
  /\ pc \in Auditing => Names(chain, unnoticed \cup {0, cur.id}, active)
  /\ pc = "audit" /\ Has(chain, cur.id) => cur.id \in repeated
  /\ pc \in HandedOff => Has(chain, cur.id)
  /\ pc \in Aborting /\ Has(chain, cur.id) => cur.id \in unnoticed
  /\ pc \in Recording \cup Auditing \cup {"journal", "promote"} => pending = {cur.policy}
  /\ pc \in Promoted => active = cur.policy

(* What the noticed rows say last, and that a gateway which is not blocked *)
(* has no noticed handoff to recover.                                      *)
ChainAt ==
  /\ pc \in {"down", "load", "startAudit"} => ~up
  /\ up /\ pc \in Fresh \cup Recording \cup Aborting =>
       ~blocked /\ Names(chain, unnoticed, engine)
  /\ up /\ pc \in Auditing => ~blocked /\ Names(chain, unnoticed \cup {cur.id}, engine)
  /\ up /\ pc \in HandedOff => Names(chain, unnoticed, cur.policy)
  /\ up /\ pc = "idle" /\ ~blocked =>
       Names(chain, unnoticed, engine) /\ Names(chain, unnoticed \cup {0}, active)

JournalInv ==
  /\ \A e \in journal : e.id \in 1..ops
  /\ unnoticed \subseteq 1..ops
  /\ Once(chain, ops, repeated) /\ JournalSound /\ JournalAt /\ ChainAt

(* Only the operations that have rows matter.                              *)
LEMMA SameNames ==
  ASSUME NEW c, NEW S, NEW T, NEW p, Names(c, S, p),
         \A i \in 1..Len(c) : c[i].op \in S <=> c[i].op \in T
  PROVE  Names(c, T, p)
  <1> SUFFICES ASSUME NEW i \in 1..Len(c), c[i].op \notin T,
                      \A j \in (i + 1)..Len(c) : c[j].op \in T
               PROVE  c[i].policy = p
    BY DEF Names
  <1>1. \A j \in (i + 1)..Len(c) : j \in 1..Len(c)
    <2>1. CASE Len(c) \in Int
      BY <2>1
    <2>2. CASE Len(c) \notin Int
      BY <2>2
    <2> QED  BY <2>1, <2>2
  <1> QED  BY <1>1 DEF Names

(* An operation without rows may be left out, or not.                      *)
LEMMA AbsentRow ==
  ASSUME NEW c, NEW S, NEW p, NEW id, ~Has(c, id)
  PROVE  /\ Names(c, S, p) => Names(c, S \cup {id}, p)
         /\ Names(c, S \cup {id}, p) => Names(c, S, p)
         /\ Names(c, S, p) => Names(c, S \ {id}, p)
  <1>1. \A i \in 1..Len(c) : c[i].op # id
    BY DEF Has
  <1>2. \A i \in 1..Len(c) : /\ c[i].op \in S <=> c[i].op \in S \cup {id}
                             /\ c[i].op \in S <=> c[i].op \in S \ {id}
    BY <1>1
  <1>3. Names(c, S, p) => Names(c, S \cup {id}, p)
    BY <1>2, SameNames
  <1>4. Names(c, S \cup {id}, p) => Names(c, S, p)
    BY <1>2, SameNames
  <1>5. Names(c, S, p) => Names(c, S \ {id}, p)
    BY <1>2, SameNames
  <1> QED  BY <1>3, <1>4, <1>5

(* What one more row changes.                                              *)
LEMMA AppendedRow ==
  ASSUME NEW c \in Seq([op : 0..MaxOps, policy : Policies]),
         NEW r \in [op : 0..MaxOps, policy : Policies], NEW n \in Nat, NEW again,
         Once(c, n, again), r.op \in 0..n
  PROVE  LET d == Append(c, r)
         IN  /\ \A id : Has(d, id) <=> Has(c, id) \/ id = r.op
             /\ \A S, p : r.op \in S /\ Names(c, S, p) => Names(d, S, p)
             /\ \A S : r.op \notin S => Names(d, S, r.policy)
             /\ (Has(c, r.op) => r.op \in again \cup {0}) => Once(d, n, again)
  <1> DEFINE d == Append(c, r)
  <1>1. /\ d \in Seq([op : 0..MaxOps, policy : Policies])
        /\ Len(c) \in Nat /\ Len(d) = Len(c) + 1 /\ d[Len(d)] = r
        /\ \A i \in 1..Len(c) : d[i] = c[i]
    OBVIOUS
  <1> HIDE DEF d
  <1>3. \A i \in 1..Len(d) : i \in 1..Len(c) \/ i = Len(d)
    BY <1>1
  <1>4. \A i \in 1..Len(c) : i \in 1..Len(d)
    BY <1>1
  <1>5. Len(d) \in 1..Len(d)
    BY <1>1
  <1>6. \A id : Has(d, id) <=> Has(c, id) \/ id = r.op
    BY <1>1, <1>3, <1>4, <1>5 DEF Has
  <1>7. ASSUME NEW S, NEW p, r.op \in S, Names(c, S, p)  PROVE Names(d, S, p)
    <2> SUFFICES ASSUME NEW i \in 1..Len(d), d[i].op \notin S,
                        \A j \in (i + 1)..Len(d) : d[j].op \in S
                 PROVE  d[i].policy = p
      BY DEF Names
    <2>1. i \in 1..Len(c)
      BY <1>1, <1>3, <1>7
    <2>2. \A j \in (i + 1)..Len(c) : j \in (i + 1)..Len(d) /\ j \in 1..Len(c)
      BY <1>1, <2>1
    <2>3. \A j \in (i + 1)..Len(c) : c[j].op \in S
      BY <1>1, <2>2
    <2> QED  BY <1>1, <1>7, <2>1, <2>3 DEF Names
  <1>8. ASSUME NEW S, r.op \notin S  PROVE Names(d, S, r.policy)
    <2> SUFFICES ASSUME NEW i \in 1..Len(d), \A j \in (i + 1)..Len(d) : d[j].op \in S
                 PROVE  d[i].policy = r.policy
      BY DEF Names
    <2>1. CASE i \in 1..Len(c)
      <3>1. Len(d) \in (i + 1)..Len(d)
        BY <1>1, <2>1
      <3> QED  BY <1>1, <1>8, <3>1
    <2> QED  BY <1>1, <1>3, <2>1
  <1>9. ASSUME Has(c, r.op) => r.op \in again \cup {0}  PROVE Once(d, n, again)
    <2>1. \A i \in 1..Len(d) : d[i].op \in 0..n
      BY <1>1, <1>3 DEF Once
    <2>2. ASSUME NEW i \in 1..Len(d), NEW j \in 1..Len(d), d[i].op = d[j].op,
                 d[i].op \notin again \cup {0}
          PROVE  i = j
      <3>1. CASE i \in 1..Len(c) /\ j \in 1..Len(c)
        BY <1>1, <2>2, <3>1 DEF Once
      <3>2. CASE i = Len(d) /\ j \in 1..Len(c)
        BY <1>1, <1>9, <2>2, <3>2 DEF Has
      <3>3. CASE j = Len(d) /\ i \in 1..Len(c)
        BY <1>1, <1>9, <2>2, <3>3 DEF Has
      <3> QED  BY <1>3, <3>1, <3>2, <3>3
    <2> QED  BY <2>1, <2>2 DEF Once
  <1> QED  BY <1>6, <1>7, <1>8, <1>9 DEF d

(* How a step changes the history.                                         *)
LEMMA HistoryStep ==
  ASSUME [Next]_vars
  PROVE  \/ UNCHANGED history
         \/ /\ pc \in {"audit", "handoff"} /\ repeated' = repeated
            /\ unnoticed' = unnoticed \cup {cur.id}
         \/ /\ pc = "handoff" /\ unnoticed' = unnoticed
            /\ repeated' = repeated \cup {cur.id}
         \/ Recover /\ repeated' = repeated /\ unnoticed' \subseteq unnoticed
  <1>1. CASE Mutate
    BY <1>1 DEF Mutate, Begin
  <1>2. CASE StagePending \/ StageJournal \/ RecordSnapshot \/ RecordRow \/ RecordRollback
    BY <1>2 DEF StagePending, StageJournal, RecordSnapshot, RecordRow, RecordRollback
  <1>3. CASE AuditHandoff \/ MarkHandoff \/ Promote \/ JournalPromoted
    BY <1>3 DEF AuditHandoff, MarkHandoff, Promote, JournalPromoted
  <1>4. CASE Swap \/ Evict \/ Finish \/ AbortPending \/ AbortJournal \/ Load \/ StartupAudit
    BY <1>4 DEF Swap, Evict, Finish, AbortPending, AbortJournal, Load, StartupAudit
  <1>5. CASE Recover
    <2>1. journal = {} => unnoticed' = unnoticed
      BY ONLY <1>5 DEF Recover
    <2>2. journal # {} => \E entry \in journal : unnoticed' = unnoticed \ {entry.id}
      BY ONLY <1>5 DEF Recover
    <2>3. repeated' = repeated
      BY ONLY <1>5 DEF Recover
    <2> QED  BY <1>5, <2>1, <2>2, <2>3
  <1>6. CASE StageFails \/ RecordFails
    BY <1>6 DEF StageFails, RecordFails
  <1>7. CASE AuditFails \/ AuditAckLost \/ AuditRepeated \/ HandoffFails
    BY <1>7 DEF AuditFails, AuditAckLost, AuditRepeated, HandoffFails
  <1>8. CASE PromoteFails \/ EvictFails
    BY <1>8 DEF PromoteFails, EvictFails
  <1>9. CASE Crash \/ OperatorRestart \/ UNCHANGED vars
    BY <1>9 DEF Crash, OperatorRestart, vars
  <1> QED
    BY <1>1, <1>2, <1>3, <1>4, <1>5, <1>6, <1>7, <1>8, <1>9 DEF Next, Steps, Failures

(* Types hold under every fault: only startup works with operation 0, and  *)
(* it has neither a journal to write nor a mutation to abort.              *)
TypeInv ==
  /\ TypeOK
  /\ pc \in {"down", "load", "startAudit"} => ~up
  /\ pc \notin {"down", "idle", "load", "startAudit"} => cur.id \in 1..MaxOps

LEMMA TypesStep ==
  ASSUME TypeInv, [Next]_vars  PROVE TypeInv'
  <1> USE DEF TypeInv, TypeOK
  <1> DEFINE Entries == [id : 1..MaxOps, policy : Policies,
                         phase : {"prepared", "handoff", "promoted"}]
  <1>h. unnoticed' \in SUBSET (1..MaxOps) /\ repeated' \in SUBSET (1..MaxOps)
    <2>1. pc \in {"audit", "handoff"} => cur.id \in 1..MaxOps
      OBVIOUS
    <2> QED  BY <2>1, HistoryStep
  <1> USE <1>h
  <1>a. \A phase \in {"prepared", "handoff", "promoted"} :
          cur.id \in 1..MaxOps => {Entry(cur, phase)} \in SUBSET Entries
    BY DEF Entry
  <1>1. ASSUME NEW p \in Policies, NEW r \in BOOLEAN, Begin(p, r)  PROVE TypeInv'
    BY <1>1, BoundsAssumption DEF Begin, Operation
  <1>2. CASE StagePending \/ RecordSnapshot \/ RecordRow \/ RecordRollback
    BY <1>2 DEF StagePending, RecordSnapshot, RecordRow, RecordRollback
  <1>3. CASE StageJournal \/ MarkHandoff \/ JournalPromoted
    <2>1. /\ cur.id \in 1..MaxOps
          /\ UNCHANGED <<active, pending, snapshots, recorded, chain, engine, blocked, up, cur,
                         ops, crashes>>
          /\ pc' \in {"record", "promote", "swap", "finish"}
      BY <1>3 DEF StageJournal, MarkHandoff, JournalPromoted
    <2>2. journal' \in SUBSET Entries
      BY <1>3, <1>a, <2>1 DEF StageJournal, MarkHandoff, JournalPromoted
    <2> QED  BY <2>1, <2>2
  <1>4. CASE AuditHandoff
    <2>1. [op |-> cur.id, policy |-> cur.policy] \in [op : 0..MaxOps, policy : Policies]
      OBVIOUS
    <2>2. chain' \in Seq([op : 0..MaxOps, policy : Policies])
      BY <1>4, <2>1 DEF AuditHandoff, Record
    <2> QED  BY <1>4, <2>2 DEF AuditHandoff
  <1>5. CASE Promote \/ Swap \/ Evict \/ Finish \/ AbortPending \/ AbortJournal
    <2>1. CASE Promote \/ Swap \/ Evict
      BY <2>1 DEF Promote, Swap, Evict
    <2>2. CASE Finish
      BY <2>2 DEF Finish
    <2>3. CASE AbortPending \/ AbortJournal
      BY <2>3 DEF AbortPending, AbortJournal
    <2> QED  BY <1>5, <2>1, <2>2, <2>3
  <1>6. CASE Recover
    <2>1. pc = "down" /\ UNCHANGED <<disk, engine, blocked, up, bounds>>
      BY <1>6 DEF Recover
    <2>2. CASE journal = {}
      <3>1. UNCHANGED cur /\ pc' = "load"
        BY ONLY <1>6, <2>2 DEF Recover
      <3> QED  BY <2>1, <3>1
    <2>3. ASSUME NEW entry \in journal, cur' = Operation(entry.id, entry.policy, FALSE),
                 pc' \in {"abort", "finish", "promote"}
          PROVE  TypeInv'
      <3>1. cur'.id \in 1..MaxOps /\ cur' \in [id : 0..MaxOps, policy : Policies, rollback : BOOLEAN]
        BY <2>3 DEF Operation
      <3> QED  BY <2>1, <2>3, <3>1
    <2>4. journal # {} =>
            \E entry \in journal : /\ cur' = Operation(entry.id, entry.policy, FALSE)
                                   /\ pc' \in {"abort", "finish", "promote"}
      BY ONLY <1>6 DEF Recover
    <2> QED  BY <2>2, <2>3, <2>4
  <1>7. CASE Load
    BY <1>7 DEF Load
  <1>8. CASE StartupAudit
    <2>1. [op |-> 0, policy |-> engine] \in [op : 0..MaxOps, policy : Policies]
      BY BoundsAssumption
    <2>2. chain' = Append(chain, [op |-> 0, policy |-> engine])
      BY <1>8 DEF StartupAudit, Record, Operation
    <2>3. chain' \in Seq([op : 0..MaxOps, policy : Policies])
      BY <2>1, <2>2
    <2> QED  BY <1>8, <2>3 DEF StartupAudit
  <1>9. CASE StageFails
    <2>1. /\ UNCHANGED <<active, snapshots, recorded, chain, engine, blocked, up, cur, ops, crashes>>
          /\ pc' \in {"idle", "down"} /\ (pc' = "down" => ~up)
          /\ pending' \in SUBSET Policies
      BY <1>9 DEF StageFails
    <2>2. journal' \in SUBSET Entries
      BY <1>9, <1>a DEF StageFails
    <2> QED  BY <2>1, <2>2
  <1>10. CASE RecordFails \/ AuditFails \/ AuditAckLost \/ AuditRepeated
    BY <1>10 DEF RecordFails, AuditFails, AuditAckLost, AuditRepeated
  <1>11. CASE HandoffFails
    <2>1. /\ UNCHANGED <<active, pending, snapshots, recorded, chain, engine, blocked, up, cur,
                         ops, crashes>>
          /\ pc' \in {"abort", "down"} /\ (pc' = "down" => ~up) /\ cur.id \in 1..MaxOps
      BY <1>11 DEF HandoffFails
    <2>2. journal' \in SUBSET Entries
      BY <1>11, <1>a, <2>1 DEF HandoffFails
    <2> QED  BY <2>1, <2>2
  <1>12. CASE PromoteFails
    <2>1. /\ UNCHANGED <<active, snapshots, recorded, chain, engine, up, cur, ops, crashes>>
          /\ pc' \in {"idle", "down"} /\ (pc' = "down" => ~up) /\ blocked' = up
          /\ pending' \in SUBSET Policies
      BY <1>12 DEF PromoteFails
    <2>2. journal' \in SUBSET Entries
      BY <1>12, <1>a DEF PromoteFails
    <2> QED  BY <2>1, <2>2
  <1>13. CASE EvictFails \/ Crash \/ OperatorRestart
    <2>1. CASE EvictFails \/ OperatorRestart
      <3>1. /\ UNCHANGED <<active, pending, journal, snapshots, recorded, chain, engine, cur,
                           ops, crashes>>
            /\ pc' \in {"idle", "down"} /\ (pc' = "down" => ~up')
        BY <2>1 DEF EvictFails, OperatorRestart
      <3>2. blocked' \in BOOLEAN /\ up' \in BOOLEAN
        BY <2>1 DEF EvictFails, OperatorRestart
      <3> QED  BY <3>1, <3>2
    <2>2. CASE Crash
      <3>1. crashes \in Nat /\ crashes < MaxCrashes /\ crashes' = crashes + 1
        BY <2>2, BoundsAssumption DEF Crash
      <3>2. crashes' \in 0..MaxCrashes
        BY <3>1, BoundsAssumption
      <3> QED  BY <2>2, <3>2 DEF Crash
    <2> QED  BY <1>13, <2>1, <2>2
  <1>14. CASE UNCHANGED vars
    BY <1>14 DEF vars
  <1> QED
    BY <1>1, <1>2, <1>3, <1>4, <1>5, <1>6, <1>7, <1>8, <1>9, <1>10, <1>11, <1>12, <1>13, <1>14
       DEF Next, Mutate, Steps, Failures

LEMMA InitTypes == Init => TypeInv
  <1> SUFFICES ASSUME Init  PROVE TypeInv
    OBVIOUS
  <1>1. active \in Policies /\ cur \in [id : 0..MaxOps, policy : Policies, rollback : BOOLEAN]
    BY BoundsAssumption DEF Init, Operation
  <1>2. chain \in Seq([op : 0..MaxOps, policy : Policies])
    BY DEF Init
  <1>3. /\ engine \in Policies /\ pending = {} /\ journal = {} /\ snapshots = {} /\ recorded = {}
        /\ ~up /\ up \in BOOLEAN /\ blocked \in BOOLEAN /\ pc = "down"
    BY <1>1 DEF Init
  <1>4. ops \in 0..MaxOps /\ crashes \in 0..MaxCrashes
    <2>1. ops = 0 /\ crashes = 0
      BY DEF Init
    <2> QED  BY <2>1, BoundsAssumption
  <1>5. unnoticed = {} /\ repeated = {}
    BY DEF Init
  <1> QED  BY <1>1, <1>2, <1>3, <1>4, <1>5 DEF TypeInv, TypeOK

(* Under every fault the files, the rows and the control keep their types. *)
THEOREM TypeCorrect == Spec => []TypeOK
  <1>1. TypeInv /\ [Next]_vars => TypeInv'
    BY TypesStep
  <1>2. TypeInv => TypeOK
    BY DEF TypeInv
  <1> QED  BY <1>1, <1>2, InitTypes, PTL DEF Spec

(* What a step may use: types and the engine's place are proved above.     *)
JournalFacts ==
  TypeOK /\ TypeOK' /\ PolicyTypes /\ DurableInv /\ JournalInv

(* A step that leaves the rows, policy.yaml, the candidate, the journal    *)
(* and the history alone only has its place in the control to establish.   *)
LEMMA JournalControl ==
  ASSUME JournalInv, UNCHANGED <<chain, active, pending, journal, ops, unnoticed, repeated>>,
         (JournalAt /\ ChainAt)'
  PROVE  JournalInv'
  BY DEF JournalInv, JournalSound

(* The exception handler aborts an operation whose row is committed.       *)
LEMMA UnnoticedStep ==
  ASSUME JournalInv, pc \in Auditing, Has(chain, cur.id),
         UNCHANGED <<chain, active, pending, engine, blocked, up, cur, ops, repeated>>,
         unnoticed' = unnoticed \cup {cur.id}, pc' = "abort",
         \A e, f \in journal' : e = f,
         \A e \in journal' : e.id = cur.id /\ e.policy = cur.policy,
         journal' # {}
  PROVE  JournalInv'
  <1> USE DEF JournalInv, Fresh, Recording, Auditing, Promoted, HandedOff, Aborting
  <1>1. /\ cur.id \in 1..ops /\ cur.id \notin unnoticed
        /\ Names(chain, unnoticed \cup {0, cur.id}, active)
        /\ Names(chain, (unnoticed \cup {0}) \ {cur.id}, cur.policy)
        /\ pending = {cur.policy}
    BY DEF JournalAt, JournalSound
  <1>2. /\ unnoticed' \cup {0} = unnoticed \cup {0, cur.id}
        /\ (unnoticed' \cup {0}) \ {cur.id} = (unnoticed \cup {0}) \ {cur.id}
    OBVIOUS
  <1>3. /\ Names(chain', unnoticed' \cup {0}, active')
        /\ Names(chain', (unnoticed' \cup {0}) \ {cur.id}, cur.policy)
    BY <1>1, <1>2
  <1>4. Once(chain', ops', repeated') /\ (\A e \in journal' : e.id \in 1..ops')
        /\ unnoticed' \subseteq 1..ops'
    BY <1>1
  <1>5. JournalSound'
    BY <1>1, <1>3 DEF JournalSound
  <1>6. JournalAt'
    BY <1>1 DEF JournalAt
  <1>7. ChainAt'
    BY <1>1 DEF ChainAt
  <1> QED  BY <1>4, <1>5, <1>6, <1>7

(* Recovery takes note of the row it finds.                                *)
LEMMA RecoverStep ==
  ASSUME JournalInv, pc = "down", UNCHANGED <<disk, engine, blocked, up, ops, repeated>>,
         NEW entry \in journal, cur' = Operation(entry.id, entry.policy, FALSE),
         pc' = IF Rows(entry.id) = {} THEN "abort"
               ELSE IF active = entry.policy THEN "finish" ELSE "promote",
         pc' = "promote" => pending # {},
         unnoticed' = unnoticed \ {entry.id}
  PROVE  JournalInv'
  <1> USE DEF JournalInv, Fresh, Recording, Auditing, Promoted, HandedOff, Aborting
  <1>1. cur'.id = entry.id /\ cur'.policy = entry.policy /\ entry.id \in 1..ops /\ ~up
    BY DEF Operation, ChainAt
  <1>2. Rows(entry.id) = {} <=> ~Has(chain, entry.id)
    BY DEF Rows, Has
  <1>3. \A e \in journal : e = entry
    BY DEF JournalSound
  <1>4. entry.id \notin unnoticed' /\ unnoticed' \subseteq 1..ops'
    OBVIOUS
  <1>5. ChainAt'
    BY <1>1 DEF ChainAt
  <1>6. CASE ~Has(chain, entry.id)
    <2>1. Names(chain, unnoticed \cup {0}, active)
      BY <1>6 DEF JournalSound
    <2>2. (unnoticed \cup {0}) \ {entry.id} = unnoticed' \cup {0}
      BY <1>1
    <2>3. Names(chain, unnoticed' \cup {0}, active)
      BY <1>6, <2>1, <2>2, AbsentRow
    <2>4. JournalSound'
      BY <1>3, <1>6, <2>3 DEF JournalSound
    <2>5. JournalAt'
      BY <1>1, <1>2, <1>6 DEF JournalAt
    <2> QED  BY <1>3, <1>4, <1>5, <2>4, <2>5
  <1>7. CASE Has(chain, entry.id)
    <2>1. Names(chain, (unnoticed \cup {0}) \ {entry.id}, entry.policy)
          /\ pending \subseteq {entry.policy}
      BY <1>7 DEF JournalSound
    <2>2. (unnoticed' \cup {0}) \ {entry.id} = (unnoticed \cup {0}) \ {entry.id}
      OBVIOUS
    <2>3. /\ pc' = "finish" => active = entry.policy
          /\ pc' = "promote" => pending = {entry.policy}
          /\ pc' \in {"finish", "promote"}
      BY <1>2, <1>7, <2>1
    <2>4. JournalSound'
      BY <1>3, <1>4, <1>7, <2>1, <2>2, <2>3 DEF JournalSound
    <2>5. JournalAt'
      BY <1>1, <1>4, <1>7, <2>3 DEF JournalAt
    <2> QED  BY <1>3, <1>4, <1>5, <2>4, <2>5
  <1> QED  BY <1>6, <1>7

(* A mutation whose revision is recorded is about to write its row.        *)
LEMMA ReadyToAudit ==
  ASSUME JournalInv, pc \in Recording
  PROVE  /\ Names(chain, unnoticed \cup {0, cur.id}, active)
         /\ up => Names(chain, unnoticed \cup {cur.id}, engine)
  <1> USE DEF JournalInv, Fresh, Recording, Auditing, Promoted, HandedOff, Aborting
  <1>1. ~Has(chain, cur.id)
    BY DEF JournalAt
  <1>2. Names(chain, unnoticed \cup {0}, active)
    BY <1>1 DEF JournalAt, JournalSound
  <1>3. (unnoticed \cup {0}) \cup {cur.id} = unnoticed \cup {0, cur.id}
    OBVIOUS
  <1>4. Names(chain, (unnoticed \cup {0}) \cup {cur.id}, active)
    BY <1>1, <1>2, AbsentRow
  <1>5. up => Names(chain, unnoticed, engine)
    BY DEF ChainAt
  <1>6. up => Names(chain, unnoticed \cup {cur.id}, engine)
    BY <1>1, <1>5, AbsentRow
  <1> QED  BY <1>3, <1>4, <1>6

(* The steps of a mutation and of a recovery keep the journal, the rows    *)
(* and the history in step.                                                *)
LEMMA JournalStep ==
  ASSUME JournalFacts, [Next]_vars  PROVE JournalInv'
  <1> USE DEF JournalFacts, JournalInv, Fresh, Recording, Auditing, Promoted, HandedOff, Aborting
  <1>1. ASSUME NEW p \in Policies, NEW r \in BOOLEAN, Begin(p, r)  PROVE JournalInv'
    <2>1. /\ UNCHANGED <<chain, active, pending, journal, engine, blocked, up, history>>
          /\ ops' = ops + 1 /\ cur'.id = ops + 1 /\ pc' = "stage"
          /\ up /\ pc = "idle" /\ ~blocked /\ journal = {} /\ ops \in Nat
      BY <1>1, BoundsAssumption DEF Begin, Operation, TypeOK
    <2>2. Once(chain, ops + 1, repeated) /\ ~Has(chain, ops + 1)
      BY <2>1 DEF Once, Has
    <2>3. JournalSound'
      BY <2>1 DEF JournalSound
    <2>4. ops + 1 \notin unnoticed /\ unnoticed \subseteq 1..(ops + 1)
      BY <2>1
    <2>5. JournalAt'
      BY <2>1, <2>2, <2>4 DEF JournalAt
    <2>6. ChainAt'
      BY <2>1 DEF ChainAt
    <2>7. \A e \in journal' : e.id \in 1..ops'
      BY <2>1
    <2>8. Once(chain', ops', repeated') /\ unnoticed' \subseteq 1..ops'
      BY <2>1, <2>2, <2>4
    <2> QED  BY <2>3, <2>5, <2>6, <2>7, <2>8
  <1>2. CASE StagePending
    BY <1>2 DEF StagePending, JournalSound, JournalAt, ChainAt
  <1>3. CASE StageJournal
    BY <1>3 DEF StageJournal, Entry, JournalSound, JournalAt, ChainAt
  <1>4. CASE RecordSnapshot \/ RecordRow \/ RecordRollback
    <2>1. /\ pc \in Recording
          /\ UNCHANGED <<chain, active, pending, journal, engine, blocked, up, cur, ops, history>>
      BY <1>4 DEF RecordSnapshot, RecordRow, RecordRollback
    <2>2. pc' \in {"recordRow", "audit", "abort"}
      BY <1>4 DEF RecordSnapshot, RecordRow, RecordRollback
    <2>3. /\ Names(chain, unnoticed \cup {0, cur.id}, active)
          /\ up => Names(chain, unnoticed \cup {cur.id}, engine)
      BY <2>1, ReadyToAudit
    <2>4. JournalAt'
      BY <2>1, <2>2, <2>3 DEF JournalAt
    <2>5. ChainAt'
      BY <2>1, <2>2, <2>3 DEF ChainAt
    <2> QED  BY <2>1, <2>4, <2>5, JournalControl
  <1>5. CASE AuditHandoff
    <2> DEFINE row == [op |-> cur.id, policy |-> cur.policy]
    <2>1. /\ UNCHANGED <<active, pending, journal, engine, blocked, up, cur, ops, history>>
          /\ pc = "audit" /\ pc' = "handoff" /\ chain' = Append(chain, row)
          /\ cur.id \in 1..ops /\ ops \in Nat
          /\ row \in [op : 0..MaxOps, policy : Policies]
      BY <1>5, BoundsAssumption DEF AuditHandoff, Record, JournalAt, TypeOK
    <2>2. /\ cur.id \notin unnoticed /\ pending = {cur.policy} /\ journal # {}
          /\ Names(chain, unnoticed \cup {0, cur.id}, active)
          /\ up => ~blocked /\ Names(chain, unnoticed \cup {cur.id}, engine)
          /\ Has(chain, cur.id) => cur.id \in repeated
      BY <2>1 DEF JournalAt, ChainAt
    <2>3. /\ Has(chain', cur.id) /\ Once(chain', ops, repeated)
          /\ Names(chain', unnoticed \cup {0, cur.id}, active)
          /\ Names(chain', (unnoticed \cup {0}) \ {cur.id}, cur.policy)
          /\ Names(chain', unnoticed, cur.policy)
          /\ up => Names(chain', unnoticed \cup {cur.id}, engine)
      <3>1. /\ chain \in Seq([op : 0..MaxOps, policy : Policies]) /\ Once(chain, ops, repeated)
            /\ row.op = cur.id /\ row.policy = cur.policy /\ row.op \in 0..ops
            /\ ops \in Nat /\ row \in [op : 0..MaxOps, policy : Policies]
        BY <2>1 DEF TypeOK
      <3>2. chain' = Append(chain, row)
        BY <2>1
      <3> HIDE DEF row
      <3> DEFINE d == Append(chain, row)
      <3>3. /\ \A id : Has(d, id) <=> Has(chain, id) \/ id = row.op
            /\ \A S, p : row.op \in S /\ Names(chain, S, p) => Names(d, S, p)
            /\ \A S : row.op \notin S => Names(d, S, row.policy)
            /\ (Has(chain, row.op) => row.op \in repeated \cup {0}) => Once(d, ops, repeated)
        BY ONLY <3>1, AppendedRow, Zenon
      <3> HIDE DEF d
      <3>4. Has(d, cur.id) /\ Once(d, ops, repeated)
        BY <2>2, <3>1, <3>3
      <3>5. Names(d, unnoticed \cup {0, cur.id}, active)
        BY <2>2, <3>1, <3>3
      <3>6. /\ Names(d, (unnoticed \cup {0}) \ {cur.id}, cur.policy)
            /\ Names(d, unnoticed, cur.policy)
        BY <2>2, <3>1, <3>3
      <3>7. up => Names(d, unnoticed \cup {cur.id}, engine)
        BY <2>2, <3>1, <3>3
      <3>8. chain' = d
        BY <3>2 DEF d
      <3> QED  BY <3>4, <3>5, <3>6, <3>7, <3>8
    <2>4. \A e \in journal : e.id = cur.id /\ e.policy = cur.policy
      BY <2>1 DEF JournalAt, JournalSound
    <2>5. JournalSound'
      BY <2>1, <2>2, <2>3, <2>4 DEF JournalSound
    <2>6. JournalAt'
      BY <2>1, <2>2, <2>3 DEF JournalAt
    <2>7. ChainAt'
      BY <2>1, <2>2, <2>3 DEF ChainAt
    <2> QED  BY <2>1, <2>3, <2>5, <2>6, <2>7
  <1>6. CASE MarkHandoff
    <2>1. /\ UNCHANGED <<chain, active, pending, engine, blocked, up, cur, ops, history>>
          /\ pc = "handoff" /\ pc' = "promote"
          /\ journal' = {Entry(cur, "handoff")}
      BY <1>6 DEF MarkHandoff
    <2>2. \A e \in journal' : e.id = cur.id /\ e.policy = cur.policy
      BY <2>1 DEF Entry
    <2>3. /\ Has(chain, cur.id) /\ cur.id \notin unnoticed /\ cur.id \in 1..ops
          /\ Names(chain, (unnoticed \cup {0}) \ {cur.id}, cur.policy)
          /\ pending = {cur.policy}
      BY <2>1 DEF JournalAt, JournalSound
    <2>4. (\A e, f \in journal' : e = f) /\ journal' # {}
      BY <2>1
    <2>5. JournalSound'
      BY <2>1, <2>2, <2>3, <2>4 DEF JournalSound
    <2>6. JournalAt'
      BY <2>1, <2>2, <2>3, <2>4 DEF JournalAt
    <2>7. ChainAt'
      BY <2>1 DEF ChainAt
    <2> QED  BY <2>1, <2>2, <2>3, <2>5, <2>6, <2>7
  <1>7. CASE Promote
    BY <1>7 DEF Promote, JournalSound, JournalAt, ChainAt
  <1>8. CASE JournalPromoted
    BY <1>8 DEF JournalPromoted, Entry, JournalSound, JournalAt, ChainAt
  <1>9. CASE Swap \/ Evict
    <2>1. /\ UNCHANGED <<chain, active, pending, journal, blocked, up, cur, ops, history>>
          /\ pc \in {"swap", "evict"} /\ pc' \in {"evict", "finish"}
      BY <1>9 DEF Swap, Evict
    <2>2. JournalAt' /\ ChainAt'
      BY <2>1 DEF JournalAt, ChainAt
    <2> QED  BY <2>1, <2>2, JournalControl
  <1>10. CASE Finish
    <2>1. /\ UNCHANGED <<chain, active, engine, up, cur, ops, history>>
          /\ pc = "finish" /\ pc' = IF up THEN "idle" ELSE "load"
          /\ pending' = {} /\ journal' = {} /\ ~blocked'
      BY <1>10 DEF Finish
    <2>2. /\ Has(chain, cur.id) /\ cur.id \notin unnoticed /\ cur.id \in 1..ops
          /\ Names(chain, (unnoticed \cup {0}) \ {cur.id}, cur.policy)
          /\ active = cur.policy
      BY <2>1 DEF JournalAt, JournalSound
    <2>3. Names(chain, unnoticed \cup {0}, active)
      <3>1. (unnoticed \cup {0}) \ {cur.id} = unnoticed \cup {0}
        BY <2>2
      <3> QED  BY <2>2, <3>1
    <2>4. up => engine = cur.policy
      BY <1>10 DEF Finish, DurableInv
    <2>5. JournalSound' /\ JournalAt'
      BY <2>1, <2>3 DEF JournalSound, JournalAt
    <2>6. ChainAt'
      BY <2>1, <2>2, <2>3, <2>4 DEF ChainAt
    <2> QED  BY <2>1, <2>5, <2>6
  <1>11. CASE AbortPending
    BY <1>11 DEF AbortPending, JournalSound, JournalAt, ChainAt
  <1>12. CASE AbortJournal
    BY <1>12 DEF AbortJournal, JournalSound, JournalAt, ChainAt
  <1>13. CASE Recover
    <2>1. pc = "down" /\ UNCHANGED <<disk, engine, blocked, up, ops, repeated>> /\ ~up
      BY <1>13 DEF Recover, ChainAt
    <2>2. CASE journal = {}
      <3>1. UNCHANGED <<cur, unnoticed>> /\ pc' = "load"
        BY ONLY <1>13, <2>2 DEF Recover
      <3> QED  BY <2>1, <2>2, <3>1 DEF JournalSound, JournalAt, ChainAt
    <2>3. journal # {} =>
            \E entry \in journal :
               /\ cur' = Operation(entry.id, entry.policy, FALSE)
               /\ pc' = IF Rows(entry.id) = {} THEN "abort"
                        ELSE IF active = entry.policy THEN "finish" ELSE "promote"
               /\ pc' = "promote" => pending # {}
               /\ unnoticed' = unnoticed \ {entry.id}
      BY ONLY <1>13 DEF Recover
    <2> QED  BY <2>1, <2>2, <2>3, RecoverStep
  <1>14. CASE Load
    BY <1>14 DEF Load, JournalSound, JournalAt, ChainAt
  <1>15. CASE StartupAudit
    <2> DEFINE row == [op |-> 0, policy |-> engine]
    <2>1. /\ UNCHANGED <<active, pending, journal, engine, blocked, cur, ops, history>>
          /\ pc = "startAudit" /\ pc' = "idle" /\ chain' = Append(chain, row)
          /\ ops \in Nat /\ row \in [op : 0..MaxOps, policy : Policies]
          /\ journal = {} /\ Names(chain, unnoticed \cup {0}, active) /\ 0 \notin unnoticed
      BY <1>15, BoundsAssumption
         DEF StartupAudit, Record, Operation, JournalAt, JournalSound, TypeOK
    <2>2. /\ Names(chain', unnoticed, engine) /\ Names(chain', unnoticed \cup {0}, active)
          /\ Once(chain', ops, repeated)
      <3>1. /\ chain \in Seq([op : 0..MaxOps, policy : Policies]) /\ Once(chain, ops, repeated)
            /\ row.op = 0 /\ row.op \in 0..ops /\ row.policy = engine
            /\ ops \in Nat /\ row \in [op : 0..MaxOps, policy : Policies]
        BY <2>1 DEF TypeOK
      <3>2. chain' = Append(chain, row)
        BY <2>1
      <3> HIDE DEF row
      <3>3. /\ \A S, p : row.op \in S /\ Names(chain, S, p) => Names(chain', S, p)
            /\ \A S : row.op \notin S => Names(chain', S, row.policy)
            /\ (Has(chain, row.op) => row.op \in repeated \cup {0}) => Once(chain', ops, repeated)
        BY ONLY <3>1, <3>2, AppendedRow
      <3> QED  BY <2>1, <3>1, <3>3
    <2>3. JournalSound' /\ JournalAt'
      BY <2>1, <2>2 DEF JournalSound, JournalAt
    <2>4. ChainAt'
      BY <2>1, <2>2 DEF ChainAt
    <2> QED  BY <2>1, <2>2, <2>3, <2>4
  <1>16. CASE StageFails
    <2>1. CASE pc \in Fresh
      <3>1. /\ UNCHANGED <<chain, active, engine, blocked, up, cur, ops, history>>
            /\ pc' = IF up THEN "idle" ELSE "down"
            /\ journal' = journal \/ (pc = "journal" /\ journal' = {Entry(cur, "prepared")})
            /\ pending' = pending \/ (pc = "stage" /\ pending' = {cur.policy})
        BY <1>16, <2>1 DEF StageFails
      <3>2. /\ journal = {} /\ cur.id \in 1..ops /\ ~Has(chain, cur.id)
            /\ pc = "journal" => pending = {cur.policy}
        BY <2>1 DEF JournalAt
      <3>3. \A e \in journal' : pc = "journal" /\ e.id = cur.id /\ e.policy = cur.policy
        BY <3>1, <3>2 DEF Entry
      <3>4. \A e, f \in journal' : e = f
        BY <3>1, <3>2
      <3>5. JournalSound'
        BY <3>1, <3>2, <3>3, <3>4 DEF JournalSound
      <3>6. JournalAt'
        BY <3>1 DEF JournalAt
      <3>7. ChainAt'
        BY <2>1, <3>1, <3>2 DEF ChainAt, JournalSound
      <3> QED  BY <3>1, <3>2, <3>3, <3>5, <3>6, <3>7
    <2>3. CASE pc \in Aborting
      <3>1. /\ UNCHANGED <<chain, active, pending, journal, engine, blocked, up, cur, ops, history>>
            /\ pc' = IF up THEN "idle" ELSE "down"
        BY <1>16, <2>3 DEF StageFails
      <3>2. Names(chain, unnoticed \cup {0}, active)
        BY <2>3 DEF JournalAt, JournalSound
      <3> QED  BY <2>3, <3>1, <3>2, JournalControl DEF JournalAt, ChainAt
    <2> QED  BY <1>16, <2>1, <2>3 DEF StageFails
  <1>17. CASE RecordFails
    <2>1. /\ UNCHANGED <<chain, active, pending, journal, engine, blocked, up, cur, ops, history>>
          /\ pc' = IF up THEN "abort" ELSE "down"
          /\ pc \in Recording
      BY <1>17 DEF RecordFails
    <2> QED  BY <2>1, JournalControl DEF JournalAt, ChainAt
  <1>18. CASE AuditFails \/ AuditAckLost
    <2>1. UNCHANGED <<chain, active, pending, journal, engine, blocked, up, cur, ops, repeated>>
      BY <1>18 DEF AuditFails, AuditAckLost
    <2>2. Rows(cur.id) # {} <=> Has(chain, cur.id)
      BY DEF Rows, Has
    <2>3. \/ /\ pc \in Auditing /\ Has(chain, cur.id)
             /\ unnoticed' = unnoticed \cup {cur.id} /\ pc' = "abort"
          \/ /\ pc \in {"audit", "startAudit"} /\ (pc = "audit" => ~Has(chain, cur.id))
             /\ unnoticed' = unnoticed /\ pc' = IF up THEN "abort" ELSE "down"
      BY <1>18, <2>2 DEF AuditFails, AuditAckLost, JournalAt
    <2>4. CASE /\ pc \in Auditing /\ Has(chain, cur.id)
               /\ unnoticed' = unnoticed \cup {cur.id} /\ pc' = "abort"
      <3>1. /\ \A e, f \in journal' : e = f
            /\ \A e \in journal' : e.id = cur.id /\ e.policy = cur.policy
            /\ journal' # {}
        BY <2>1, <2>4 DEF JournalAt, JournalSound
      <3> QED  BY <2>1, <2>4, <3>1, UnnoticedStep
    <2>5. CASE /\ pc \in {"audit", "startAudit"} /\ (pc = "audit" => ~Has(chain, cur.id))
               /\ unnoticed' = unnoticed /\ pc' = IF up THEN "abort" ELSE "down"
      <3>1. up => pc = "audit"
        BY <2>5 DEF ChainAt
      <3>2. up => Names(chain, unnoticed, engine)
        BY <2>5, <3>1, AbsentRow DEF ChainAt
      <3>3. JournalAt'
        BY <2>1, <2>5, <3>1 DEF JournalAt
      <3>4. ChainAt'
        BY <2>1, <2>5, <3>1, <3>2 DEF ChainAt
      <3> QED  BY <2>1, <2>5, <3>3, <3>4, JournalControl
    <2> QED  BY <2>3, <2>4, <2>5
  <1>19. CASE AuditRepeated
    <2>1. /\ UNCHANGED <<chain, active, pending, journal, engine, blocked, up, cur, ops, unnoticed>>
          /\ pc = "handoff" /\ pc' = "audit" /\ repeated' = repeated \cup {cur.id}
      BY <1>19 DEF AuditRepeated
    <2>2. Once(chain, ops, repeated')
      BY <2>1 DEF Once
    <2> QED  BY <2>1, <2>2 DEF JournalSound, JournalAt, ChainAt
  <1>20. CASE HandoffFails
    <2>1. /\ UNCHANGED <<chain, active, pending, engine, blocked, up, cur, ops, repeated>>
          /\ pc = "handoff" /\ pc' = "abort" /\ unnoticed' = unnoticed \cup {cur.id}
          /\ journal' \in {journal, {Entry(cur, "handoff")}}
      BY <1>20 DEF HandoffFails
    <2>2. /\ \A e, f \in journal : e = f
          /\ \A e \in journal : e.id = cur.id /\ e.policy = cur.policy
          /\ journal # {} /\ Has(chain, cur.id)
      BY <2>1 DEF JournalAt, JournalSound
    <2>3. Entry(cur, "handoff").id = cur.id /\ Entry(cur, "handoff").policy = cur.policy
      BY DEF Entry
    <2>4. /\ \A e, f \in journal' : e = f
          /\ \A e \in journal' : e.id = cur.id /\ e.policy = cur.policy
          /\ journal' # {}
      BY <2>1, <2>2, <2>3
    <2> QED  BY <2>1, <2>2, <2>4, UnnoticedStep
  <1>21. CASE PromoteFails
    <2>1. /\ UNCHANGED <<chain, active, engine, up, cur, ops, history>>
          /\ pc' = IF up THEN "idle" ELSE "down"
          /\ up => blocked'
          /\ pc \in HandedOff
      BY <1>21 DEF PromoteFails
    <2>2. JournalSound' /\ (\A e \in journal' : e.id \in 1..ops)
      <3>1. CASE pc = "promote"
        BY <1>21, <3>1 DEF PromoteFails, JournalSound
      <3>2. CASE pc = "promoted"
        BY <1>21, <3>2 DEF PromoteFails, Entry, JournalSound, JournalAt
      <3>3. CASE pc = "finish"
        BY <1>21, <3>3 DEF PromoteFails, JournalSound, JournalAt
      <3> QED  BY <1>21, <3>1, <3>2, <3>3 DEF PromoteFails
    <2>3. JournalAt' /\ ChainAt'
      BY <2>1 DEF JournalAt, ChainAt
    <2> QED  BY <2>1, <2>2, <2>3
  <1>22. CASE EvictFails
    <2>1. /\ UNCHANGED <<chain, active, pending, journal, engine, up, cur, ops, history>>
          /\ pc' = IF up THEN "idle" ELSE "down"
          /\ up => blocked'
      BY <1>22 DEF EvictFails
    <2> QED  BY <2>1, JournalControl DEF JournalAt, ChainAt
  <1>23. CASE Crash \/ OperatorRestart
    BY <1>23, JournalControl DEF Crash, OperatorRestart, JournalAt, ChainAt
  <1>24. CASE UNCHANGED vars
    BY <1>24, JournalControl DEF vars, JournalAt, ChainAt
  <1> QED
    BY <1>1, <1>2, <1>3, <1>4, <1>5, <1>6, <1>7, <1>8, <1>9, <1>10, <1>11, <1>12,
       <1>13, <1>14, <1>15, <1>16, <1>17, <1>18, <1>19, <1>20, <1>21, <1>22, <1>23, <1>24
       DEF Next, Mutate, Steps, Failures

(* The invariants together, under every fault.                             *)
LEMMA ActivationInvariant == Spec => [](TypeInv /\ PolicyTypes /\ DurableInv /\ JournalInv)
  <1>1. Init => TypeInv /\ PolicyTypes /\ DurableInv /\ JournalInv
    <2> SUFFICES ASSUME Init  PROVE TypeInv /\ PolicyTypes /\ DurableInv /\ JournalInv
      OBVIOUS
    <2>1. TypeInv /\ RevisionsInv
      BY InitTypes, InitRevisions
    <2>2. pc = "down" /\ up = FALSE /\ journal = {} /\ chain = << >> /\ unnoticed = {}
      BY DEF Init
    <2>3. PolicyTypes /\ DurableInv
      BY <2>1, <2>2 DEF RevisionsInv, DurableInv, Unpromoted, Recorded, Admitting
    <2>4. JournalInv
      BY <2>2 DEF JournalInv, JournalSound, JournalAt, ChainAt, Once, Names, Has,
                  Fresh, Recording, Auditing, Promoted, HandedOff, Aborting
    <2> QED  BY <2>1, <2>3, <2>4
  <1>2. TypeInv /\ PolicyTypes /\ DurableInv /\ JournalInv /\ [Next]_vars
          => (TypeInv /\ PolicyTypes /\ DurableInv /\ JournalInv)'
    <2> SUFFICES ASSUME TypeInv, PolicyTypes, DurableInv, JournalInv, [Next]_vars
                 PROVE  (TypeInv /\ PolicyTypes /\ DurableInv /\ JournalInv)'
      OBVIOUS
    <2>1. TypeInv' /\ PolicyTypes' /\ DurableInv'
      BY TypesStep, PolicyTypesStep, DurableStep
    <2>2. JournalInv'
      BY <2>1, JournalStep DEF JournalFacts, TypeInv
    <2> QED  BY <2>1, <2>2
  <1> QED  BY <1>1, <1>2, PTL DEF Spec

(* Whatever fails, the engine that serves a settled gateway is the one the *)
(* last POLICY_ACTIVATED row names and the one of the last handoff of a    *)
(* mutation, but for rows the gateway did not notice: what recover and the *)
(* order audit, handoff, promote, swap of _activate_policy are for.        *)
THEOREM AuditAndFileConverge == Spec => []TrafficConverged
  <1>1. ASSUME PolicyTypes, DurableInv, JournalInv, Settled,
               NEW row \in LastOf(Noticed) \cup LastOf(Handoffs)
        PROVE  row.policy = engine
    <2>1. Names(chain, unnoticed, engine) /\ Names(chain, unnoticed \cup {0}, engine)
      <3>1. CASE pc = "idle"
        BY <1>1, <3>1 DEF Settled, DurableInv, JournalInv, ChainAt
      <3>2. CASE pc = "evict"
        <4>1. engine = cur.policy /\ up
          BY <1>1, <3>2 DEF Settled, DurableInv
        <4>2. /\ cur.id \notin unnoticed /\ cur.id \in 1..ops
              /\ Names(chain, (unnoticed \cup {0}) \ {cur.id}, cur.policy)
          BY <1>1, <3>2 DEF JournalInv, JournalAt, JournalSound, HandedOff, Promoted
        <4>3. (unnoticed \cup {0}) \ {cur.id} = unnoticed \cup {0}
          BY <4>2
        <4>4. Names(chain, unnoticed, cur.policy)
          BY <1>1, <3>2, <4>1 DEF JournalInv, ChainAt, HandedOff, Promoted
        <4> QED  BY <4>1, <4>2, <4>3, <4>4
      <3> QED  BY <1>1, <3>1, <3>2 DEF Settled
    <2>2. CASE row \in LastOf(Noticed)
      <3>1. PICK i \in Noticed : row = chain[i] /\ \A j \in Noticed : j <= i
        BY <2>2 DEF LastOf
      <3>2. \A j \in (i + 1)..Len(chain) : j \in 1..Len(chain) /\ ~(j <= i)
        BY <1>1, <3>1 DEF Noticed
      <3>3. \A j \in (i + 1)..Len(chain) : chain[j].op \in unnoticed
        BY <3>1, <3>2 DEF Noticed
      <3> QED  BY <2>1, <3>1, <3>3 DEF Names, Noticed
    <2>3. CASE row \in LastOf(Handoffs)
      <3>1. PICK i \in Handoffs : row = chain[i] /\ \A j \in Handoffs : j <= i
        BY <2>3 DEF LastOf
      <3>2. \A j \in (i + 1)..Len(chain) : j \in 1..Len(chain) /\ ~(j <= i)
        BY <1>1, <3>1 DEF Handoffs, Noticed
      <3>3. \A j \in (i + 1)..Len(chain) : chain[j].op \in unnoticed \cup {0}
        BY <3>1, <3>2 DEF Handoffs, Noticed
      <3> QED  BY <2>1, <3>1, <3>3 DEF Names, Handoffs, Noticed
    <2> QED  BY <1>1, <2>2, <2>3
  <1>2. PolicyTypes /\ DurableInv /\ JournalInv => TrafficConverged
    BY <1>1 DEF TrafficConverged
  <1> QED  BY <1>2, ActivationInvariant, PTL

(* Whatever fails and wherever the process stops, recover finds at most    *)
(* one row for the journaled operation (scalar_one_or_none) unless the     *)
(* writer repeated it, and the candidate of an audited one that            *)
(* policy.yaml does not hold yet unless it was aborted unnoticed.          *)
THEOREM RecoveryNeverStuck == Spec => []RecoveryPossible
  <1>1. ASSUME JournalInv, NEW entry \in journal
        PROVE  /\ Cardinality(Rows(entry.id)) <= 1 \/ entry.id \in repeated
               /\ Rows(entry.id) # {} /\ active # entry.policy =>
                    pending = {entry.policy} \/ entry.id \in unnoticed
    <2>1. ASSUME entry.id \notin repeated  PROVE Cardinality(Rows(entry.id)) <= 1
      <3>1. \A i, j \in Rows(entry.id) : i = j
        <4>1. \A i \in Rows(entry.id) : i \in 1..Len(chain) /\ chain[i].op = entry.id
          BY DEF Rows
        <4>2. entry.id # 0
          BY <1>1 DEF JournalInv
        <4> QED  BY <1>1, <2>1, <4>1, <4>2 DEF JournalInv, Once
      <3>2. CASE Rows(entry.id) = {}
        <4>1. Cardinality({}) = 0
          BY FS_EmptySet
        <4> QED  BY <3>2, <4>1
      <3>3. CASE Rows(entry.id) # {}
        <4>1. PICK i \in Rows(entry.id) : TRUE
          BY <3>3
        <4>2. Rows(entry.id) = {i}
          BY <3>1, <4>1
        <4>3. Cardinality({i}) = 1
          BY FS_Singleton
        <4> QED  BY <4>2, <4>3
      <3> QED  BY <3>2, <3>3
    <2>2. Rows(entry.id) # {} => Has(chain, entry.id)
      BY DEF Rows, Has
    <2> QED  BY <1>1, <2>1, <2>2 DEF JournalInv, JournalSound
  <1>2. JournalInv => RecoveryPossible
    BY <1>1 DEF RecoveryPossible
  <1> QED  BY <1>2, ActivationInvariant, PTL
=============================================================================
