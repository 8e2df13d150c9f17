------------------------ MODULE DriftBaselineProofs ------------------------
(***************************************************************************)
(* Proofs about DriftBaseline, for every set of tools, schemas, blocking   *)
(* changes, sessions and admins, and for all bounds.                       *)
(***************************************************************************)
EXTENDS DriftBaseline, TLAPS

Hashes == Schemas \cup {Removed}

CheckRecord == [list : Lists, read : Baselines, done : SUBSET Tools]

ApprovalRecord ==
  [tool : Tools, old : Hashes, schema : Schemas, hash : Hashes, audited : BOOLEAN]

(* Types, and what never shrinks: the tools that have a row.               *)
Shapes ==
  /\ rows \in Baselines
  /\ \A e \in audits : e.tool \in Tools /\ e.blocked \in BOOLEAN
  /\ \A k \in DOMAIN check :
       check[k] \in CheckRecord /\ DOMAIN check[k].read \subseteq DOMAIN rows
  /\ \A a \in DOMAIN approval :
       approval[a] \in ApprovalRecord /\ approval[a].tool \in DOMAIN rows
  /\ checks \in 0..MaxChecks /\ approvals \in 0..MaxApprovals

(* What a check has walked is on record: its rows may be written then.     *)
FindingsAudited ==
  \A k \in DOMAIN check : \A t \in check[k].done : Finding(check[k], t) \in audits

(* An approval holds its row alone, so the hash it replaces is still that  *)
(* of the row: no check ever writes an approved hash.                      *)
ApprovalsExact ==
  /\ \A a \in DOMAIN approval :
       /\ approval[a].old = rows[approval[a].tool].approved_hash
       /\ approval[a].audited => Approved(approval[a]) \in audits
  /\ \A a, b \in DOMAIN approval : approval[a].tool = approval[b].tool => a = b

(* The inductive invariant.                                                *)
DriftInv == Shapes /\ BlocksAudited /\ FindingsAudited /\ ApprovalsExact

-----------------------------------------------------------------------------
(* A baseline is a function from some tools to rows.                       *)
LEMMA BaselineFacts ==
  /\ \A f \in Baselines : DOMAIN f \subseteq Tools /\ \A t \in DOMAIN f : f[t] \in Row
  /\ \A D \in SUBSET Tools : \A f \in [D -> Row] : f \in Baselines
  /\ \A f \in Lists : DOMAIN f \subseteq Tools /\ \A t \in DOMAIN f : f[t] \in Schemas
  BY DEF Baselines, Lists

(* The row that a flush leaves, column by column.                          *)
LEMMA FlushFacts ==
  ASSUME NEW row \in Row, NEW read \in Row, NEW judged \in Row
  PROVE  LET f == Flush(row, read, judged)
         IN  /\ f \in Row
             /\ f.approved_schema = IF judged.approved_schema = read.approved_schema
                                      THEN row.approved_schema ELSE judged.approved_schema
             /\ f.approved_hash = IF judged.approved_hash = read.approved_hash
                                    THEN row.approved_hash ELSE judged.approved_hash
             /\ f.observed_schema = IF judged.observed_schema = read.observed_schema
                                      THEN row.observed_schema ELSE judged.observed_schema
             /\ f.observed_hash = IF judged.observed_hash = read.observed_hash
                                    THEN row.observed_hash ELSE judged.observed_hash
             /\ f.blocked = IF judged.blocked = read.blocked THEN row.blocked ELSE judged.blocked
  <1> DEFINE Cols == {"approved_schema", "approved_hash", "observed_schema", "observed_hash",
                      "blocked"}
  <1>1. DOMAIN row = Cols
    BY DEF Row
  <1>2. Flush(row, read, judged) =
          [col \in Cols |-> IF judged[col] = read[col] THEN row[col] ELSE judged[col]]
    BY <1>1 DEF Flush
  <1> DEFINE f == [col \in Cols |-> IF judged[col] = read[col] THEN row[col] ELSE judged[col]]
  <1>3. /\ f["approved_schema"] = IF judged["approved_schema"] = read["approved_schema"]
                                    THEN row["approved_schema"] ELSE judged["approved_schema"]
        /\ f["approved_hash"] = IF judged["approved_hash"] = read["approved_hash"]
                                  THEN row["approved_hash"] ELSE judged["approved_hash"]
        /\ f["observed_schema"] = IF judged["observed_schema"] = read["observed_schema"]
                                    THEN row["observed_schema"] ELSE judged["observed_schema"]
        /\ f["observed_hash"] = IF judged["observed_hash"] = read["observed_hash"]
                                  THEN row["observed_hash"] ELSE judged["observed_hash"]
        /\ f["blocked"] = IF judged["blocked"] = read["blocked"]
                            THEN row["blocked"] ELSE judged["blocked"]
    OBVIOUS
  <1>4. f \in Row
    BY <1>3 DEF Row
  <1> QED  BY <1>2, <1>3, <1>4

(* A row that stayed as it was read becomes what was made of it.           *)
LEMMA FlushKept ==
  ASSUME NEW row \in Row, NEW judged \in Row  PROVE Flush(row, row, judged) = judged
  <1> DEFINE Cols == {"approved_schema", "approved_hash", "observed_schema", "observed_hash",
                      "blocked"}
  <1>1. DOMAIN row = Cols /\ judged = [col \in Cols |-> judged[col]]
    BY DEF Row
  <1>2. Flush(row, row, judged) = [col \in Cols |-> judged[col]]
    BY <1>1 DEF Flush
  <1> QED  BY <1>1, <1>2

(* The four things a walk makes of a tool exclude each other.              *)
LEMMA JudgedFirst ==
  ASSUME NEW c \in CheckRecord, NEW t, FirstSeen(c, t)
  PROVE  /\ Judged(c, t) \in Row
         /\ Judged(c, t).blocked => Renamed(c, t)
         /\ Judged(c, t).observed_schema # None =>
              Renamed(c, t) /\ Judged(c, t).observed_schema = c.list[t]
  <1>1. c.list[t] \in Schemas
    BY BaselineFacts DEF CheckRecord, FirstSeen
  <1>2. Renamed(c, t) \in BOOLEAN
    BY DEF Renamed
  <1> HIDE DEF Renamed
  <1> DEFINE IfRenamed(x, y) == IF Renamed(c, t) THEN x ELSE y
  <1>3. Judged(c, t) =
          [ approved_schema |-> c.list[t], approved_hash |-> c.list[t],
            observed_schema |-> IfRenamed(c.list[t], None),
            observed_hash |-> IfRenamed(c.list[t], None), blocked |-> Renamed(c, t) ]
    BY DEF Judged
  <1>4. IfRenamed(c.list[t], None) \in Schemas \cup {None}
    BY <1>1
  <1>5. IfRenamed(c.list[t], None) # None => Renamed(c, t) /\ IfRenamed(c.list[t], None) = c.list[t]
    OBVIOUS
  <1> HIDE DEF IfRenamed
  <1> QED  BY <1>1, <1>2, <1>3, <1>4, <1>5 DEF Row

LEMMA JudgedAgain ==
  ASSUME NEW c \in CheckRecord, NEW t \in DOMAIN c.read
  PROVE  /\ Judged(c, t) \in Row /\ c.read[t] \in Row
         /\ Judged(c, t).approved_hash = c.read[t].approved_hash
         /\ Judged(c, t).blocked /\ Judged(c, t).blocked # c.read[t].blocked =>
              Drifted(c, t) /\ Blocks(c.read[t].approved_schema, c.list[t])
         /\ /\ Judged(c, t).observed_schema # None
            /\ Judged(c, t).observed_schema # c.read[t].observed_schema
            => Drifted(c, t) /\ Judged(c, t).observed_schema = c.list[t]
         /\ Drifted(c, t) =>
              (Judged(c, t).blocked <=> c.read[t].blocked \/ Blocks(c.read[t].approved_schema, c.list[t]))
         /\ t \in DOMAIN c.list /\ ~Drifted(c, t) /\ ~Reverted(c, t) => Judged(c, t) = c.read[t]
  <1> DEFINE row == c.read[t]
  <1>1. row \in Row /\ ~FirstSeen(c, t)
    BY BaselineFacts DEF CheckRecord, FirstSeen
  <1>2. t \in DOMAIN c.list => c.list[t] \in Schemas
    BY BaselineFacts DEF CheckRecord
  <1>3. Judged(c, t) =
          CASE Reverted(c, t) ->
                 [row EXCEPT !.observed_hash = None, !.observed_schema = None, !.blocked = FALSE]
            [] Drifted(c, t) ->
                 [row EXCEPT !.observed_hash = c.list[t], !.observed_schema = c.list[t],
                             !.blocked = BlockedBy(row, c.list[t])]
            [] Vanished(c, t) ->
                 [row EXCEPT !.observed_hash = Removed, !.observed_schema = None]
            [] OTHER -> row
    BY <1>1 DEF Judged
  <1>4. CASE Reverted(c, t)
    <2>1. ~Drifted(c, t) /\ ~Vanished(c, t)
      BY <1>4 DEF Reverted, Drifted, Vanished
    <2>2. Judged(c, t) =
            [row EXCEPT !.observed_hash = None, !.observed_schema = None, !.blocked = FALSE]
      BY ONLY <1>3, <1>4, <2>1
    <2> QED  BY <1>1, <1>4, <2>1, <2>2 DEF Row
  <1>5. CASE Drifted(c, t)
    <2>1. ~Reverted(c, t) /\ ~Vanished(c, t) /\ c.list[t] \in Schemas
      BY <1>2, <1>5 DEF Reverted, Drifted, Vanished
    <2>2. Judged(c, t) =
            [row EXCEPT !.observed_hash = c.list[t], !.observed_schema = c.list[t],
                        !.blocked = BlockedBy(row, c.list[t])]
      BY ONLY <1>3, <1>5, <2>1
    <2>3. BlockedBy(row, c.list[t]) = (row.blocked \/ Blocks(row.approved_schema, c.list[t]))
      BY DEF BlockedBy
    <2>4. row.blocked \in BOOLEAN
      BY <1>1 DEF Row
    <2>5. BlockedBy(row, c.list[t]) \in BOOLEAN
      BY DEF BlockedBy
    <2>6. /\ Judged(c, t).observed_schema = c.list[t] /\ Judged(c, t).observed_hash = c.list[t]
          /\ Judged(c, t).blocked = BlockedBy(row, c.list[t])
          /\ Judged(c, t).approved_hash = row.approved_hash
      BY <1>1, <2>2 DEF Row
    <2>7. Judged(c, t) \in Row
      BY <1>1, <2>1, <2>2, <2>5 DEF Row
    <2>8. Judged(c, t).blocked <=> row.blocked \/ Blocks(row.approved_schema, c.list[t])
      BY <2>3, <2>6
    <2>9. Judged(c, t).blocked /\ Judged(c, t).blocked # row.blocked =>
            Blocks(row.approved_schema, c.list[t])
      BY <2>4, <2>5, <2>6, <2>8
    <2> QED  BY <1>1, <1>5, <2>6, <2>7, <2>8, <2>9
  <1>6. CASE Vanished(c, t)
    <2>1. ~Reverted(c, t) /\ ~Drifted(c, t) /\ t \notin DOMAIN c.list
      BY <1>6 DEF Reverted, Drifted, Vanished
    <2>2. Judged(c, t) = [row EXCEPT !.observed_hash = Removed, !.observed_schema = None]
      BY ONLY <1>3, <1>6, <2>1
    <2> QED  BY <1>1, <1>6, <2>1, <2>2 DEF Row
  <1>7. CASE ~Reverted(c, t) /\ ~Drifted(c, t) /\ ~Vanished(c, t)
    <2>1. Judged(c, t) = row
      BY ONLY <1>3, <1>7
    <2> QED  BY <1>1, <1>7, <2>1
  <1> QED  BY <1>4, <1>5, <1>6, <1>7

(* What is said of a tool depends on the list and on the rows read only.   *)
LEMMA FindingKept ==
  ASSUME NEW c, NEW d, c.list = d.list, c.read = d.read
  PROVE  \A t : Finding(c, t) = Finding(d, t)
  BY DEF Finding, Renamed, Drifted, FirstSeen, RenameSources

(* The audit row of a check that is about to commit.                       *)
LEMMA WalkAudited ==
  ASSUME NEW c \in CheckRecord, Audited(c), \A t \in c.done : Finding(c, t) \in audits,
         NEW t \in Tools
  PROVE  /\ Renamed(c, t) => Event("renamed", t, None, c.list[t], TRUE) \in audits
         /\ Drifted(c, t) =>
              Event("drift", t, c.read[t].approved_hash, c.list[t],
                    Blocks(c.read[t].approved_schema, c.list[t])) \in audits
  <1>1. Renamed(c, t) \/ Drifted(c, t) => t \in c.done
    BY DEF Audited, ToAudit
  <1>2. Drifted(c, t) => ~Renamed(c, t)
    BY DEF Drifted, Renamed, FirstSeen
  <1> QED  BY <1>1, <1>2 DEF Finding

(* A finding names a tool.                                                 *)
LEMMA FindingType ==
  ASSUME NEW c \in CheckRecord, NEW t \in Tools
  PROVE  Finding(c, t).tool = t /\ Finding(c, t).blocked \in BOOLEAN
  <1>1. CASE Renamed(c, t)
    BY <1>1 DEF Finding, Event
  <1>2. CASE ~Renamed(c, t) /\ Drifted(c, t)
    <2>1. Blocks(c.read[t].approved_schema, c.list[t]) \in BOOLEAN
      BY DEF Blocks
    <2> HIDE DEF Blocks
    <2> QED  BY <1>2, <2>1 DEF Finding, Event
  <1>3. CASE ~Renamed(c, t) /\ ~Drifted(c, t)
    BY <1>3 DEF Finding, Event
  <1> QED  BY <1>1, <1>2, <1>3

-----------------------------------------------------------------------------
(* The rows after a commit: those the check did not know, or left alone,   *)
(* are as they were, and no approved hash changes.                         *)
LEMMA CommittedRows ==
  ASSUME Shapes, NEW k, CommitCheck(k)
  PROVE  /\ rows' \in Baselines /\ DOMAIN rows' = DOMAIN rows \cup DOMAIN check[k].list
         /\ \A t \in DOMAIN rows :
              /\ rows'[t].approved_hash = rows[t].approved_hash
              /\ t \in DOMAIN check[k].read => rows'[t] = Flush(rows[t], check[k].read[t], Judged(check[k], t))
              /\ t \notin DOMAIN check[k].read => rows'[t] = rows[t]
         /\ \A t \in DOMAIN rows' \ DOMAIN rows :
              FirstSeen(check[k], t) /\ rows'[t] = Judged(check[k], t)
  <1> DEFINE c == check[k]
  <1>1. /\ c \in CheckRecord /\ DOMAIN c.read \subseteq DOMAIN rows
        /\ DOMAIN rows \cap DOMAIN c.list \subseteq DOMAIN c.read
        /\ rows' = [t \in DOMAIN rows \cup DOMAIN c.list |->
                      IF t \in DOMAIN c.read
                      THEN Flush(rows[t], c.read[t], Judged(c, t))
                      ELSE IF t \in DOMAIN c.list THEN Judged(c, t) ELSE rows[t]]
    BY DEF CommitCheck, Shapes
  <1> HIDE DEF c
  <1>2. DOMAIN rows' = DOMAIN rows \cup DOMAIN c.list
    BY <1>1
  <1>3. ASSUME NEW t \in DOMAIN c.read
        PROVE  /\ rows'[t] = Flush(rows[t], c.read[t], Judged(c, t)) /\ rows'[t] \in Row
               /\ rows'[t].approved_hash = rows[t].approved_hash
    <2>1. rows'[t] = Flush(rows[t], c.read[t], Judged(c, t)) /\ t \in DOMAIN rows
      BY <1>1
    <2>2. rows[t] \in Row
      BY <2>1, BaselineFacts DEF Shapes
    <2>3. /\ c.read[t] \in Row /\ Judged(c, t) \in Row
          /\ Judged(c, t).approved_hash = c.read[t].approved_hash
      BY <1>1, JudgedAgain
    <2> QED  BY <2>1, <2>2, <2>3, FlushFacts
  <1>4. ASSUME NEW t \in DOMAIN rows, t \notin DOMAIN c.read
        PROVE  rows'[t] = rows[t] /\ rows'[t] \in Row
    <2>1. rows'[t] = rows[t]
      BY <1>1, <1>4
    <2> QED  BY <2>1, BaselineFacts DEF Shapes
  <1>5. ASSUME NEW t \in DOMAIN rows' \ DOMAIN rows
        PROVE  FirstSeen(c, t) /\ rows'[t] = Judged(c, t) /\ rows'[t] \in Row
    <2>1. t \in DOMAIN c.list /\ t \notin DOMAIN c.read
      BY <1>1, <1>2
    <2>2. FirstSeen(c, t) /\ rows'[t] = Judged(c, t)
      BY <1>1, <2>1 DEF FirstSeen
    <2> QED  BY <1>1, <2>2, JudgedFirst
  <1>6. \A t \in DOMAIN rows' : rows'[t] \in Row
    BY <1>3, <1>4, <1>5
  <1>7. DOMAIN rows' \subseteq Tools
    BY <1>1, <1>2, BaselineFacts DEF Shapes, CheckRecord
  <1>8. rows' = [t \in DOMAIN rows' |-> rows'[t]]
    BY <1>1
  <1>9. rows' \in [DOMAIN rows' -> Row]
    BY <1>6, <1>8
  <1>10. rows' \in Baselines
    BY <1>7, <1>9, BaselineFacts
  <1> QED  BY <1>2, <1>3, <1>4, <1>5, <1>10 DEF c

(* The row that an approval commits.                                       *)
LEMMA ApprovedRow ==
  ASSUME Shapes, NEW a, CommitApproval(a)
  PROVE  /\ rows' \in Baselines /\ DOMAIN rows' = DOMAIN rows
         /\ a \in DOMAIN approval /\ approval[a].tool \in DOMAIN rows
         /\ \A t \in DOMAIN rows : t # approval[a].tool => rows'[t] = rows[t]
         /\ rows'[approval[a].tool] =
              [ approved_schema |-> approval[a].schema, approved_hash |-> approval[a].hash,
                observed_schema |-> None, observed_hash |-> None, blocked |-> FALSE ]
  <1> DEFINE p == approval[a]
             row == [ approved_schema |-> p.schema, approved_hash |-> p.hash,
                      observed_schema |-> None, observed_hash |-> None, blocked |-> FALSE ]
  <1>1. /\ a \in DOMAIN approval /\ p \in ApprovalRecord /\ p.tool \in DOMAIN rows
        /\ rows' = [rows EXCEPT ![p.tool] = row]
    BY DEF CommitApproval, Shapes
  <1>2. row \in Row
    BY <1>1 DEF Row, ApprovalRecord, Hashes
  <1> HIDE DEF row
  <1>3. DOMAIN rows' = DOMAIN rows /\ rows'[p.tool] = row
        /\ \A t \in DOMAIN rows : t # p.tool => rows'[t] = rows[t]
    BY <1>1
  <1>4. rows' = [t \in DOMAIN rows |-> rows'[t]]
    BY <1>1
  <1>5. DOMAIN rows \subseteq Tools /\ \A t \in DOMAIN rows : rows'[t] \in Row
    BY <1>2, <1>3, BaselineFacts DEF Shapes
  <1>6. rows' \in [DOMAIN rows -> Row]
    BY <1>4, <1>5
  <1>7. rows' \in Baselines
    BY <1>5, <1>6, BaselineFacts
  <1> QED  BY <1>1, <1>3, <1>7 DEF row

(* What a longer audit log leaves true.                                    *)
LEMMA AuditsGrow ==
  ASSUME DriftInv, audits \subseteq audits'
  PROVE  /\ UNCHANGED rows => BlocksAudited'
         /\ UNCHANGED check => FindingsAudited'
         /\ UNCHANGED <<rows, approval>> => ApprovalsExact'
  <1>1. UNCHANGED rows => BlocksAudited'
    BY DEF DriftInv, BlocksAudited
  <1>2. UNCHANGED check => FindingsAudited'
    <2>1. ASSUME UNCHANGED check  PROVE \A k, t : Finding(check[k], t)' = Finding(check[k], t)
      BY <2>1 DEF Finding, Renamed, Drifted, FirstSeen, RenameSources
    <2> QED  BY <2>1 DEF DriftInv, FindingsAudited
  <1>3. UNCHANGED <<rows, approval>> => ApprovalsExact'
    BY DEF DriftInv, ApprovalsExact, Approved, Event
  <1> QED  BY <1>1, <1>2, <1>3

(* A check that ends, whatever it did, takes its findings along.           *)
LEMMA CheckEnds ==
  ASSUME DriftInv, NEW k, check' = Without(check, k), audits \subseteq audits'
  PROVE  FindingsAudited' /\ \A j \in DOMAIN check' : j \in DOMAIN check /\ check'[j] = check[j]
  <1>1. \A j \in DOMAIN check' : j \in DOMAIN check /\ check'[j] = check[j]
    BY DEF Without
  <1>2. \A j \in DOMAIN check' : \A t : Finding(check'[j], t) = Finding(check[j], t)
    <2> SUFFICES ASSUME NEW j \in DOMAIN check'
                 PROVE  \A t : Finding(check'[j], t) = Finding(check[j], t)
      OBVIOUS
    <2>1. check'[j].list = check[j].list /\ check'[j].read = check[j].read
      BY <1>1
    <2> QED  BY ONLY <2>1, FindingKept
  <1>3. \A j \in DOMAIN check' : \A t \in check'[j].done : Finding(check'[j], t) \in audits'
    BY <1>1, <1>2 DEF DriftInv, FindingsAudited
  <1>4. FindingsAudited'
    BY <1>3 DEF FindingsAudited
  <1> QED  BY <1>1, <1>4

(* A check starts with the rows it reads.                                  *)
LEMMA StartCheckStep ==
  ASSUME DriftInv, NEW k, StartCheck(k)  PROVE DriftInv'
  <1>1. PICK list \in Lists : check' = With(check, k, [list |-> list, read |-> rows, done |-> {}])
    BY DEF StartCheck
  <1>2. /\ k \notin DOMAIN check /\ checks < MaxChecks /\ checks' = checks + 1
        /\ UNCHANGED <<rows, audits, approval, approvals>>
    BY DEF StartCheck
  <1> DEFINE c == [list |-> list, read |-> rows, done |-> {}]
  <1>3. c \in CheckRecord /\ c.read = rows /\ c.done = {}
    BY DEF CheckRecord, DriftInv, Shapes
  <1> HIDE DEF c
  <1>4. DOMAIN check' = DOMAIN check \cup {k} /\ check'[k] = c
        /\ \A j \in DOMAIN check : check'[j] = check[j]
    <2>1. check' = With(check, k, c)
      BY <1>1 DEF c
    <2>2. \A j \in DOMAIN check : j # k
      BY <1>2
    <2> QED  BY <2>1, <2>2 DEF With
  <1>5. checks' \in 0..MaxChecks
    BY <1>2, BoundsAssumption DEF DriftInv, Shapes
  <1>6. Shapes'
    BY <1>2, <1>3, <1>4, <1>5 DEF DriftInv, Shapes
  <1>7. FindingsAudited'
    <2>1. \A j \in DOMAIN check : \A t : Finding(check'[j], t) = Finding(check[j], t)
      BY <1>4
    <2>2. \A j \in DOMAIN check' : \A t \in check'[j].done : Finding(check'[j], t) \in audits
      BY <1>3, <1>4, <2>1 DEF DriftInv, FindingsAudited
    <2> QED  BY <1>2, <2>2 DEF FindingsAudited
  <1> QED  BY <1>2, <1>6, <1>7, AuditsGrow DEF DriftInv

(* One finding more is on record.                                          *)
LEMMA AuditFindingStep ==
  ASSUME DriftInv, NEW k, AuditFinding(k)  PROVE DriftInv'
  <1>1. PICK tool \in ToAudit(check[k]) :
          /\ audits' = audits \cup {Finding(check[k], tool)}
          /\ check' = [check EXCEPT ![k].done = @ \cup {tool}]
    BY DEF AuditFinding
  <1>2. /\ k \in DOMAIN check /\ UNCHANGED <<rows, approval, checks, approvals>>
    BY DEF AuditFinding
  <1>3. check[k] \in CheckRecord /\ tool \in Tools
    BY <1>2 DEF DriftInv, Shapes, ToAudit
  <1>4. DOMAIN check' = DOMAIN check /\ \A j \in DOMAIN check : j # k => check'[j] = check[j]
    BY <1>1
  <1>5. check'[k] = [check[k] EXCEPT !.done = @ \cup {tool}]
    BY <1>1, <1>2
  <1>6. /\ check'[k] \in CheckRecord /\ check'[k].list = check[k].list
        /\ check'[k].read = check[k].read /\ check'[k].done = check[k].done \cup {tool}
    BY <1>3, <1>5 DEF CheckRecord
  <1>7. Finding(check[k], tool).tool \in Tools /\ Finding(check[k], tool).blocked \in BOOLEAN
    BY <1>3, FindingType
  <1>8. Shapes'
    BY <1>1, <1>2, <1>4, <1>6, <1>7 DEF DriftInv, Shapes
  <1>9. FindingsAudited'
    <2>1. \A t : Finding(check'[k], t) = Finding(check[k], t)
      BY <1>6, FindingKept
    <2>2. \A t \in check'[k].done : Finding(check'[k], t) \in audits'
      BY <1>1, <1>2, <1>6, <2>1 DEF DriftInv, FindingsAudited
    <2>3. \A j \in DOMAIN check : j # k =>
            \A t \in check'[j].done : Finding(check'[j], t) \in audits'
      <3>1. \A j \in DOMAIN check : j # k => \A t : Finding(check'[j], t) = Finding(check[j], t)
        BY <1>4
      <3> QED  BY <1>1, <1>4, <3>1 DEF DriftInv, FindingsAudited
    <2> QED  BY <1>4, <2>2, <2>3 DEF FindingsAudited
  <1> QED  BY <1>1, <1>2, <1>8, <1>9, AuditsGrow DEF DriftInv

(* A commit only blocks and only leaves pending what is on record.         *)
LEMMA CommitCheckStep ==
  ASSUME DriftInv, NEW k, CommitCheck(k)  PROVE DriftInv'
  <1> DEFINE c == check[k]
  <1>1. /\ k \in DOMAIN check /\ check' = Without(check, k) /\ Audited(c)
        /\ UNCHANGED <<audits, approval, checks, approvals>>
    BY DEF CommitCheck
  <1>2. c \in CheckRecord /\ DOMAIN c.read \subseteq DOMAIN rows /\ Shapes
    BY <1>1 DEF DriftInv, Shapes
  <1>3. /\ rows' \in Baselines /\ DOMAIN rows' = DOMAIN rows \cup DOMAIN c.list
        /\ \A t \in DOMAIN rows :
             /\ rows'[t].approved_hash = rows[t].approved_hash
             /\ t \in DOMAIN c.read => rows'[t] = Flush(rows[t], c.read[t], Judged(c, t))
             /\ t \notin DOMAIN c.read => rows'[t] = rows[t]
        /\ \A t \in DOMAIN rows' \ DOMAIN rows : FirstSeen(c, t) /\ rows'[t] = Judged(c, t)
    BY <1>2, CommittedRows
  <1>4. FindingsAudited' /\ \A j \in DOMAIN check' : j \in DOMAIN check /\ check'[j] = check[j]
    BY <1>1, CheckEnds
  <1>5. \A t \in c.done : Finding(c, t) \in audits
    BY <1>1 DEF DriftInv, FindingsAudited
  <1> HIDE DEF c
  <1>6. DOMAIN rows' \subseteq Tools
    BY <1>3, BaselineFacts
  <1>7. Shapes'
    BY <1>1, <1>2, <1>3, <1>4 DEF Shapes
  <1>8. ApprovalsExact'
    BY <1>1, <1>3 DEF DriftInv, Shapes, ApprovalsExact, Approved, Event
  <1>9. ASSUME NEW t \in DOMAIN rows'
        PROVE  /\ rows'[t].blocked => \E e \in audits : e.tool = t /\ e.blocked
               /\ rows'[t].observed_schema # None =>
                    \E e \in audits : e.tool = t /\ e.new = rows'[t].observed_schema
    <2>1. /\ Renamed(c, t) => Event("renamed", t, None, c.list[t], TRUE) \in audits
          /\ Drifted(c, t) =>
               Event("drift", t, c.read[t].approved_hash, c.list[t],
                     Blocks(c.read[t].approved_schema, c.list[t])) \in audits
      BY <1>1, <1>2, <1>5, <1>6, WalkAudited DEF c
    <2>2. /\ Renamed(c, t) => \E e \in audits : e.tool = t /\ e.blocked /\ e.new = c.list[t]
          /\ Drifted(c, t) => \E e \in audits : e.tool = t /\ e.new = c.list[t]
          /\ Drifted(c, t) /\ Blocks(c.read[t].approved_schema, c.list[t]) =>
               \E e \in audits : e.tool = t /\ e.blocked
      <3> HIDE DEF Blocks
      <3> QED  BY <2>1 DEF Event
    <2>3. CASE t \notin DOMAIN rows
      BY <1>2, <1>3, <2>2, <2>3, JudgedFirst
    <2>4. CASE t \in DOMAIN rows /\ t \notin DOMAIN c.read
      BY <1>3, <2>4 DEF DriftInv, BlocksAudited
    <2>5. CASE t \in DOMAIN rows /\ t \in DOMAIN c.read
      <3> DEFINE J == Judged(c, t)
      <3>1. rows[t] \in Row /\ rows'[t] = Flush(rows[t], c.read[t], J)
        BY <1>2, <1>3, <2>5, BaselineFacts DEF Shapes
      <3>2. /\ J \in Row /\ c.read[t] \in Row
            /\ J.blocked /\ J.blocked # c.read[t].blocked =>
                 Drifted(c, t) /\ Blocks(c.read[t].approved_schema, c.list[t])
            /\ J.observed_schema # None /\ J.observed_schema # c.read[t].observed_schema
                 => Drifted(c, t) /\ J.observed_schema = c.list[t]
        BY <1>2, <2>5, JudgedAgain
      <3> HIDE DEF J
      <3>3. /\ rows'[t].observed_schema = IF J.observed_schema = c.read[t].observed_schema
                                            THEN rows[t].observed_schema ELSE J.observed_schema
            /\ rows'[t].blocked = IF J.blocked = c.read[t].blocked THEN rows[t].blocked ELSE J.blocked
        BY <3>1, <3>2, FlushFacts
      <3>4. /\ rows[t].blocked => \E e \in audits : e.tool = t /\ e.blocked
            /\ rows[t].observed_schema # None =>
                 \E e \in audits : e.tool = t /\ e.new = rows[t].observed_schema
        BY <2>5 DEF DriftInv, BlocksAudited
      <3>5. rows'[t].blocked => \E e \in audits : e.tool = t /\ e.blocked
        BY <2>2, <3>2, <3>3, <3>4
      <3>6. rows'[t].observed_schema # None =>
              \E e \in audits : e.tool = t /\ e.new = rows'[t].observed_schema
        BY <2>2, <3>2, <3>3, <3>4
      <3> QED  BY <3>5, <3>6
    <2> QED  BY <2>3, <2>4, <2>5
  <1>10. BlocksAudited'
    BY <1>1, <1>9 DEF BlocksAudited
  <1> QED  BY <1>4, <1>7, <1>8, <1>10 DEF DriftInv

(* A check that fails leaves at most one audit row behind.                 *)
LEMMA FailCheckStep ==
  ASSUME DriftInv, NEW k, FailCheck(k)  PROVE DriftInv'
  <1>1. /\ k \in DOMAIN check /\ check' = Without(check, k) /\ audits \subseteq audits'
        /\ \A e \in audits' : e \in audits \/ \E t \in ToAudit(check[k]) : e = Finding(check[k], t)
        /\ UNCHANGED <<rows, approval, checks, approvals>>
    BY DEF FailCheck
  <1>2. check[k] \in CheckRecord /\ ToAudit(check[k]) \subseteq Tools
    BY <1>1 DEF DriftInv, Shapes, ToAudit
  <1>3. \A e \in audits' : e.tool \in Tools /\ e.blocked \in BOOLEAN
    <2>1. \A t \in ToAudit(check[k]) : /\ Finding(check[k], t).tool \in Tools
                                       /\ Finding(check[k], t).blocked \in BOOLEAN
      BY <1>2, FindingType
    <2> QED  BY <1>1, <2>1 DEF DriftInv, Shapes
  <1>4. FindingsAudited' /\ \A j \in DOMAIN check' : j \in DOMAIN check /\ check'[j] = check[j]
    BY <1>1, CheckEnds
  <1>5. Shapes'
    BY <1>1, <1>3, <1>4 DEF DriftInv, Shapes
  <1> QED  BY <1>1, <1>4, <1>5, AuditsGrow DEF DriftInv

(* An approval takes the lock of its row.                                  *)
LEMMA StartApprovalStep ==
  ASSUME DriftInv, NEW a, StartApproval(a)  PROVE DriftInv'
  <1>1. PICK tool \in DOMAIN rows :
          /\ ~Locked(tool) /\ Pending(rows[tool])
          /\ approval' = With(approval, a,
               [ tool |-> tool, old |-> rows[tool].approved_hash,
                 schema |-> rows[tool].observed_schema, hash |-> PromotedHash(rows[tool]),
                 audited |-> FALSE ])
    BY DEF StartApproval
  <1>2. /\ a \notin DOMAIN approval /\ approvals < MaxApprovals /\ approvals' = approvals + 1
        /\ UNCHANGED <<rows, audits, check, checks>>
    BY DEF StartApproval
  <1> DEFINE p == [ tool |-> tool, old |-> rows[tool].approved_hash,
                    schema |-> rows[tool].observed_schema, hash |-> PromotedHash(rows[tool]),
                    audited |-> FALSE ]
  <1>3. rows[tool] \in Row /\ tool \in Tools
    BY BaselineFacts DEF DriftInv, Shapes
  <1>4. rows[tool].observed_schema \in Schemas /\ PromotedHash(rows[tool]) \in Hashes
    BY <1>1, <1>3 DEF Pending, PromotedHash, Row, Hashes
  <1>5. rows[tool].approved_hash \in Hashes
    BY <1>3 DEF Row, Hashes
  <1>6. /\ p \in ApprovalRecord /\ p.tool = tool /\ p.old = rows[tool].approved_hash
        /\ ~p.audited
    BY <1>3, <1>4, <1>5 DEF ApprovalRecord
  <1>7. approval' = With(approval, a, p)
    BY <1>1
  <1> HIDE DEF p
  <1>8. /\ DOMAIN approval' = DOMAIN approval \cup {a} /\ approval'[a] = p
        /\ \A b \in DOMAIN approval : approval'[b] = approval[b]
    <2>1. \A b \in DOMAIN approval : b # a
      BY <1>2
    <2> QED  BY <1>7, <2>1 DEF With
  <1>9. approvals' \in 0..MaxApprovals
    BY <1>2, BoundsAssumption DEF DriftInv, Shapes
  <1>10. Shapes'
    BY <1>2, <1>6, <1>8, <1>9 DEF DriftInv, Shapes
  <1>11. \A b \in DOMAIN approval : approval[b].tool # tool
    BY <1>1 DEF Locked
  <1>12. ApprovalsExact'
    <2>1. \A b \in DOMAIN approval' :
            /\ approval'[b].old = rows[approval'[b].tool].approved_hash
            /\ approval'[b].audited => Approved(approval'[b]) \in audits
      BY <1>6, <1>8 DEF DriftInv, ApprovalsExact, Approved, Event
    <2>2. \A b, d \in DOMAIN approval' : approval'[b].tool = approval'[d].tool => b = d
      BY <1>6, <1>8, <1>11 DEF DriftInv, ApprovalsExact
    <2> QED  BY <1>2, <2>1, <2>2 DEF ApprovalsExact, Approved, Event
  <1> QED  BY <1>2, <1>10, <1>12, AuditsGrow DEF DriftInv

(* The row of an approval is on record.                                    *)
LEMMA AuditApprovalStep ==
  ASSUME DriftInv, NEW a, AuditApproval(a)  PROVE DriftInv'
  <1>1. /\ a \in DOMAIN approval /\ audits' = audits \cup {Approved(approval[a])}
        /\ approval' = [approval EXCEPT ![a].audited = TRUE]
        /\ UNCHANGED <<rows, check, checks, approvals>>
    BY DEF AuditApproval
  <1>2. /\ approval[a] \in ApprovalRecord
        /\ DOMAIN approval' = DOMAIN approval
        /\ \A b \in DOMAIN approval : b # a => approval'[b] = approval[b]
        /\ approval'[a] = [approval[a] EXCEPT !.audited = TRUE]
    BY <1>1 DEF DriftInv, Shapes
  <1>3. /\ approval'[a] \in ApprovalRecord /\ approval'[a].tool = approval[a].tool
        /\ approval'[a].old = approval[a].old /\ approval'[a].hash = approval[a].hash
    BY <1>2 DEF ApprovalRecord
  <1>4. Approved(approval'[a]) = Approved(approval[a])
    BY <1>3 DEF Approved, Event
  <1>5. Approved(approval[a]).tool \in Tools /\ Approved(approval[a]).blocked \in BOOLEAN
    BY <1>2 DEF Approved, Event, ApprovalRecord
  <1>6. Shapes'
    BY <1>1, <1>2, <1>3, <1>5 DEF DriftInv, Shapes
  <1>7. ApprovalsExact'
    <2>1. \A b \in DOMAIN approval' : b # a =>
            /\ approval'[b].old = rows[approval'[b].tool].approved_hash
            /\ approval'[b].audited => Approved(approval'[b]) \in audits'
      BY <1>1, <1>2 DEF DriftInv, ApprovalsExact, Approved, Event
    <2>2. /\ approval'[a].old = rows[approval'[a].tool].approved_hash
          /\ Approved(approval'[a]) \in audits'
      BY <1>1, <1>3, <1>4 DEF DriftInv, ApprovalsExact
    <2>3. \A b, d \in DOMAIN approval' : approval'[b].tool = approval'[d].tool => b = d
      <3>1. \A b \in DOMAIN approval : approval'[b].tool = approval[b].tool
        BY <1>2, <1>3
      <3> QED  BY <1>2, <3>1 DEF DriftInv, ApprovalsExact
    <2> QED  BY <1>1, <2>1, <2>2, <2>3 DEF ApprovalsExact, Approved, Event
  <1> QED  BY <1>1, <1>6, <1>7, AuditsGrow DEF DriftInv

(* An approval that ends frees its row.                                    *)
LEMMA ApprovalEnds ==
  ASSUME NEW a, approval' = Without(approval, a)
  PROVE  \A b \in DOMAIN approval' : b \in DOMAIN approval /\ b # a /\ approval'[b] = approval[b]
  BY DEF Without

(* A committed approval leaves nothing blocked or pending.                 *)
LEMMA CommitApprovalStep ==
  ASSUME DriftInv, NEW a, CommitApproval(a)  PROVE DriftInv'
  <1> DEFINE p == approval[a]
  <1>1. /\ rows' \in Baselines /\ DOMAIN rows' = DOMAIN rows
        /\ a \in DOMAIN approval /\ p.tool \in DOMAIN rows
        /\ \A t \in DOMAIN rows : t # p.tool => rows'[t] = rows[t]
        /\ rows'[p.tool] =
             [ approved_schema |-> p.schema, approved_hash |-> p.hash,
               observed_schema |-> None, observed_hash |-> None, blocked |-> FALSE ]
    BY ApprovedRow DEF DriftInv
  <1>2. approval' = Without(approval, a) /\ UNCHANGED <<audits, check, checks, approvals>>
    BY DEF CommitApproval
  <1>3. \A b \in DOMAIN approval' : b \in DOMAIN approval /\ b # a /\ approval'[b] = approval[b]
    BY <1>2, ApprovalEnds
  <1>4. Shapes'
    BY <1>1, <1>2, <1>3 DEF DriftInv, Shapes
  <1>5. ~rows'[p.tool].blocked /\ rows'[p.tool].observed_schema = None
    BY <1>1
  <1>6. BlocksAudited'
    BY <1>1, <1>2, <1>5 DEF DriftInv, BlocksAudited
  <1>7. \A b \in DOMAIN approval' : approval[b].tool \in DOMAIN rows /\ approval[b].tool # p.tool
    BY <1>1, <1>3 DEF DriftInv, Shapes, ApprovalsExact
  <1>8. ApprovalsExact'
    BY <1>1, <1>2, <1>3, <1>7 DEF DriftInv, ApprovalsExact, Approved, Event
  <1> QED  BY <1>2, <1>4, <1>6, <1>8, AuditsGrow DEF DriftInv

(* A failed approval frees its row as it found it.                         *)
LEMMA FailApprovalStep ==
  ASSUME DriftInv, NEW a, FailApproval(a)  PROVE DriftInv'
  <1>1. /\ a \in DOMAIN approval /\ approval' = Without(approval, a)
        /\ audits \subseteq audits' /\ audits' \subseteq audits \cup {Approved(approval[a])}
        /\ UNCHANGED <<rows, check, checks, approvals>>
    BY DEF FailApproval
  <1>2. \A b \in DOMAIN approval' : b \in DOMAIN approval /\ b # a /\ approval'[b] = approval[b]
    BY <1>1, ApprovalEnds
  <1>3. Approved(approval[a]).tool \in Tools /\ Approved(approval[a]).blocked \in BOOLEAN
    BY <1>1 DEF Approved, Event, ApprovalRecord, DriftInv, Shapes
  <1>4. Shapes'
    BY <1>1, <1>2, <1>3 DEF DriftInv, Shapes
  <1>5. ApprovalsExact'
    BY <1>1, <1>2 DEF DriftInv, ApprovalsExact, Approved, Event
  <1> QED  BY <1>1, <1>4, <1>5, AuditsGrow DEF DriftInv

(* The invariant starts with empty tables, and every step keeps it.        *)
LEMMA DriftInvariant == Spec => []DriftInv
  <1>1. Init => DriftInv
    <2> SUFFICES ASSUME Init  PROVE DriftInv
      OBVIOUS
    <2>1. DOMAIN rows = {} /\ DOMAIN check = {} /\ DOMAIN approval = {} /\ audits = {}
      BY DEF Init
    <2>2. rows \in [{} -> Row]
      BY DEF Init
    <2>3. rows \in Baselines
      BY <2>2, BaselineFacts
    <2>4. checks \in 0..MaxChecks /\ approvals \in 0..MaxApprovals
      BY BoundsAssumption DEF Init
    <2> QED
      BY <2>1, <2>3, <2>4 DEF DriftInv, Shapes, BlocksAudited, FindingsAudited, ApprovalsExact
  <1>2. DriftInv /\ [Next]_vars => DriftInv'
    <2> SUFFICES ASSUME DriftInv, [Next]_vars  PROVE DriftInv'
      OBVIOUS
    <2>1. ASSUME NEW k \in Checkers,
                 StartCheck(k) \/ AuditFinding(k) \/ CommitCheck(k) \/ FailCheck(k)
          PROVE  DriftInv'
      BY <2>1, StartCheckStep, AuditFindingStep, CommitCheckStep, FailCheckStep
    <2>2. ASSUME NEW a \in Admins,
                 StartApproval(a) \/ AuditApproval(a) \/ CommitApproval(a) \/ FailApproval(a)
          PROVE  DriftInv'
      BY <2>2, StartApprovalStep, AuditApprovalStep, CommitApprovalStep, FailApprovalStep
    <2>3. CASE UNCHANGED vars
      <3>1. UNCHANGED <<rows, audits, check, approval, checks, approvals>>
        BY <2>3 DEF vars
      <3>2. Shapes'
        BY <3>1 DEF DriftInv, Shapes
      <3> QED  BY <3>1, <3>2, AuditsGrow DEF DriftInv
    <2> QED  BY <2>1, <2>2, <2>3 DEF Next
  <1> QED  BY <1>1, <1>2, PTL DEF Spec

(* The tables keep their types, and a check's tools keep their rows.       *)
THEOREM TypeCorrect == Spec => []TypeOK
  <1>1. DriftInv => TypeOK
    <2> SUFFICES ASSUME DriftInv  PROVE TypeOK
      OBVIOUS
    <2>1. \A k \in DOMAIN check : check[k].list \in Lists /\ check[k].read \in Baselines
      BY DEF DriftInv, Shapes, CheckRecord
    <2> QED  BY <2>1, BoundsAssumption DEF DriftInv, Shapes, TypeOK
  <1> QED  BY <1>1, DriftInvariant, PTL

(* Whatever checks and approvals overlap or fail, no tool is blocked and   *)
(* no schema waits for approval without an audit row that says so.         *)
THEOREM BlocksOnRecord == Spec => []BlocksAudited
  <1>1. DriftInv => BlocksAudited
    BY DEF DriftInv
  <1> QED  BY <1>1, DriftInvariant, PTL

(* The trust anchor of a tool only changes by an approval whose row in the *)
(* audit log names the hash it replaces and the one that replaces it.      *)
THEOREM ApprovalsOnRecord == Spec => ApprovalAudited
  <1> DEFINE Anchored ==
        \A t \in DOMAIN rows :
          rows'[t].approved_hash # rows[t].approved_hash =>
            \E e \in audits :
              /\ e.event = "approved" /\ e.tool = t
              /\ e.old = rows[t].approved_hash /\ e.new = rows'[t].approved_hash
  <1>1. ASSUME DriftInv, Next  PROVE Anchored
    <2>1. ASSUME NEW k \in Checkers, CommitCheck(k)  PROVE Anchored
      BY <1>1, <2>1, CommittedRows DEF DriftInv
    <2>2. ASSUME NEW a \in Admins, CommitApproval(a)  PROVE Anchored
      <3> DEFINE p == approval[a]
      <3>1. /\ a \in DOMAIN approval /\ p.tool \in DOMAIN rows
            /\ \A t \in DOMAIN rows : t # p.tool => rows'[t] = rows[t]
            /\ rows'[p.tool].approved_hash = p.hash
        <4>1. /\ a \in DOMAIN approval /\ p.tool \in DOMAIN rows
              /\ \A t \in DOMAIN rows : t # p.tool => rows'[t] = rows[t]
              /\ rows'[p.tool] =
                   [ approved_schema |-> p.schema, approved_hash |-> p.hash,
                     observed_schema |-> None, observed_hash |-> None, blocked |-> FALSE ]
          BY <1>1, <2>2, ApprovedRow DEF DriftInv
        <4> QED  BY <4>1
      <3>2. p.audited /\ Approved(p) \in audits /\ p.old = rows[p.tool].approved_hash
        BY <1>1, <2>2, <3>1 DEF CommitApproval, DriftInv, ApprovalsExact
      <3>3. /\ Approved(p).event = "approved" /\ Approved(p).tool = p.tool
            /\ Approved(p).old = p.old /\ Approved(p).new = p.hash
        BY DEF Approved, Event
      <3> QED  BY <3>1, <3>2, <3>3
    <2>3. CASE UNCHANGED rows
      BY <2>3
    <2> QED
      BY <1>1, <2>1, <2>2, <2>3
         DEF Next, StartCheck, AuditFinding, FailCheck, StartApproval, AuditApproval, FailApproval
  <1>2. DriftInv /\ [Next]_vars => [Anchored]_vars
    BY <1>1
  <1> QED  BY <1>2, DriftInvariant, PTL DEF Spec, ApprovalAudited

(* A check whose row stayed as it read it leaves no listed tool callable   *)
(* with a blocking drift: whatever an overlap lost, the next list repairs. *)
THEOREM ListsJudged == Spec => ServedListJudged
  <1> DEFINE Judges ==
        \A k \in Checkers : CommitCheck(k) =>
          \A t \in DOMAIN check[k].list \cap DOMAIN check[k].read :
            rows[t] = check[k].read[t] =>
              \/ rows'[t].blocked
              \/ check[k].list[t] = rows[t].approved_hash
              \/ ~Blocks(rows[t].approved_schema, check[k].list[t])
  <1>1. ASSUME DriftInv  PROVE Judges
    <2> SUFFICES ASSUME NEW k \in Checkers, CommitCheck(k),
                        NEW t \in DOMAIN check[k].list \cap DOMAIN check[k].read,
                        rows[t] = check[k].read[t],
                        check[k].list[t] # rows[t].approved_hash,
                        Blocks(rows[t].approved_schema, check[k].list[t])
                 PROVE  rows'[t].blocked
      OBVIOUS
    <2> DEFINE c == check[k]
    <2>1. c \in CheckRecord /\ t \in DOMAIN rows
      BY <1>1 DEF DriftInv, Shapes, CommitCheck
    <2>2. rows'[t] = Flush(c.read[t], c.read[t], Judged(c, t))
      BY <1>1, <2>1, CommittedRows DEF DriftInv
    <2>3. Drifted(c, t) => Judged(c, t).blocked
      BY <2>1, JudgedAgain
    <2>4. ~Drifted(c, t) => c.read[t].blocked /\ Judged(c, t) = c.read[t]
      <3>1. ~Reverted(c, t)
        BY DEF Reverted
      <3>2. ~Drifted(c, t) => c.read[t].blocked
        BY DEF Drifted
      <3> QED  BY <2>1, <3>1, <3>2, JudgedAgain
    <2>5. Judged(c, t).blocked /\ Judged(c, t) \in Row /\ c.read[t] \in Row
      BY <2>1, <2>3, <2>4, JudgedAgain
    <2>6. rows'[t] = Judged(c, t)
      BY ONLY <2>2, <2>5, FlushKept
    <2> QED  BY <2>5, <2>6
  <1>2. DriftInv /\ [Next]_vars => [Judges]_vars
    BY <1>1
  <1> QED  BY <1>2, DriftInvariant, PTL DEF Spec, ServedListJudged
=============================================================================
