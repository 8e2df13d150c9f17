--------------------------- MODULE DriftBaseline ---------------------------
(***************************************************************************)
(* The drift detector, services/gateway/drift_detector.py, over the        *)
(* tool_baselines rows of one server.                                      *)
(*                                                                         *)
(* Every tools/list that a session receives is checked: check reads the    *)
(* baselines, appends one audit row per drift it finds and writes the      *)
(* changed rows at its commit.  It takes no row lock, so the checks of     *)
(* several sessions (each with its own upstream container) and the         *)
(* approvals of admins overlap; approve locks its row.  The ORM writes     *)
(* only the columns whose value differs from what it read.                 *)
(*                                                                         *)
(* A schema is a tool definition without its name and titles, so it stands *)
(* for its tool_hash and its shape_hash alike.  How severe a change is     *)
(* comes in as BlockingChanges.  The suspicious flag only feeds the risk   *)
(* engine and is left out.                                                 *)
(***************************************************************************)
EXTENDS Naturals, FiniteSets

CONSTANTS
  Tools,            \* tool names
  Schemas,          \* tool definitions
  BlockingChanges,  \* pairs of schemas whose change is High or Critical
  Checkers,         \* sessions that receive tools/list responses
  Admins,           \* requests of the approve endpoint
  MaxChecks,        \* bound: checks started
  MaxApprovals      \* bound: approvals started

None == "none"
Removed == "removed"   \* REMOVED_SENTINEL

ASSUME SchemasAssumption == None \notin Schemas /\ Removed \notin Schemas
ASSUME ChangesAssumption == BlockingChanges \subseteq Schemas \X Schemas
ASSUME BoundsAssumption == MaxChecks \in Nat /\ MaxApprovals \in Nat

VARIABLES
  rows,       \* tool_baselines: a function from the tools that have a row
  audits,     \* the audit rows of drift and approval: a set of events
  check,      \* the checks under way: a function from their sessions
  approval,   \* the approvals under way: a function from their requests
  checks,     \* checks started so far
  approvals   \* approvals started so far

vars == <<rows, audits, check, approval, checks, approvals>>

Row ==
  [ approved_schema : Schemas, approved_hash : Schemas \cup {Removed},
    observed_schema : Schemas \cup {None},
    observed_hash : Schemas \cup {None, Removed}, blocked : BOOLEAN ]

Lists == UNION {[names -> Schemas] : names \in SUBSET Tools}
Baselines == UNION {[names -> Row] : names \in SUBSET Tools}

With(f, x, v) == [y \in DOMAIN f \cup {x} |-> IF y = x THEN v ELSE f[y]]
Without(f, x) == [y \in DOMAIN f \ {x} |-> f[y]]

Event(name, tool, old, new, blocked) ==
  [event |-> name, tool |-> tool, old |-> old, new |-> new, blocked |-> blocked]

Init ==
  /\ rows = [tool \in {} |-> None] /\ audits = {}
  /\ check = [k \in {} |-> None] /\ approval = [a \in {} |-> None]
  /\ checks = 0 /\ approvals = 0

-----------------------------------------------------------------------------
(* What check makes of one tool, from its list and the rows it read.       *)

(* classify found no named change: the drift is High all the same.         *)
Blocks(old, new) == (old = new) \/ (<<old, new>> \in BlockingChanges)

FirstSeen(c, tool) == tool \in DOMAIN c.list \ DOMAIN c.read

RenameSources(c, tool) ==
  {s \in DOMAIN c.read \ DOMAIN c.list : c.read[s].approved_schema = c.list[tool]}

Renamed(c, tool) == FirstSeen(c, tool) /\ RenameSources(c, tool) # {}

(* next() over the rows: the first same-shaped one that left the list.     *)
SourceOf(c, tool) == CHOOSE s \in RenameSources(c, tool) : TRUE

Reverted(c, tool) ==
  /\ tool \in DOMAIN c.list \cap DOMAIN c.read
  /\ c.list[tool] = c.read[tool].approved_hash
  /\ c.read[tool].observed_hash # None

Drifted(c, tool) ==
  /\ tool \in DOMAIN c.list \cap DOMAIN c.read
  /\ LET row == c.read[tool] IN
       /\ c.list[tool] # row.approved_hash
       /\ \/ c.list[tool] # row.observed_hash
          \/ ~row.blocked /\ Blocks(row.approved_schema, c.list[tool])

Vanished(c, tool) ==
  /\ tool \in DOMAIN c.read \ DOMAIN c.list
  /\ tool \notin {SourceOf(c, t) : t \in {t \in Tools : Renamed(c, t)}}
  /\ c.read[tool].observed_hash # Removed

(* The audit row written for a tool.                                       *)
Finding(c, tool) ==
  IF Renamed(c, tool) THEN Event("renamed", tool, None, c.list[tool], TRUE)
  ELSE IF Drifted(c, tool)
  THEN Event("drift", tool, c.read[tool].approved_hash, c.list[tool],
             Blocks(c.read[tool].approved_schema, c.list[tool]))
  ELSE Event("removed", tool, None, Removed, FALSE)

(* The list is walked first, the tools that left it after it.              *)
ToAudit(c) ==
  LET listed == {t \in Tools : Renamed(c, t) \/ Drifted(c, t)} \ c.done
      vanished == {t \in Tools : Vanished(c, t)} \ c.done
  IN IF listed # {} THEN listed ELSE vanished

(* Mutant: check commits without having awaited the audit writer.          *)
Audited_FireAndForget(c) == TRUE
Audited(c) == ToAudit(c) = {}

(* Mutant: only the first drift of a row can block it.                     *)
BlockedBy_FirstOnly(row, live) ==
  \/ row.blocked
  \/ row.observed_hash = None /\ Blocks(row.approved_schema, live)
BlockedBy(row, live) == row.blocked \/ Blocks(row.approved_schema, live)

(* The row as the session will hold it after the walk.                     *)
Judged(c, tool) ==
  IF FirstSeen(c, tool)
  THEN [ approved_schema |-> c.list[tool], approved_hash |-> c.list[tool],
         observed_schema |-> IF Renamed(c, tool) THEN c.list[tool] ELSE None,
         observed_hash |-> IF Renamed(c, tool) THEN c.list[tool] ELSE None,
         blocked |-> Renamed(c, tool) ]
  ELSE LET row == c.read[tool] IN
    CASE Reverted(c, tool) ->
           [row EXCEPT !.observed_hash = None, !.observed_schema = None, !.blocked = FALSE]
      [] Drifted(c, tool) ->
           [row EXCEPT !.observed_hash = c.list[tool], !.observed_schema = c.list[tool],
                       !.blocked = BlockedBy(row, c.list[tool])]
      [] Vanished(c, tool) ->
           [row EXCEPT !.observed_hash = Removed, !.observed_schema = None]
      [] OTHER -> row

(* The UPDATE of the unit of work: only the columns that changed.          *)
Flush(row, read, judged) ==
  [col \in DOMAIN row |-> IF judged[col] = read[col] THEN row[col] ELSE judged[col]]

Touched(c) == {t \in DOMAIN c.read : Judged(c, t) # c.read[t]}

-----------------------------------------------------------------------------
(* Mutant: approve selects without FOR UPDATE.                             *)
Locked_NoForUpdate(tool) == FALSE

(* approve holds its row FOR UPDATE until it commits.                      *)
Locked(tool) == \E a \in DOMAIN approval : approval[a].tool = tool

StartCheck(k) ==
  /\ k \notin DOMAIN check
  /\ checks < MaxChecks
  /\ \E list \in Lists :
       check' = With(check, k, [list |-> list, read |-> rows, done |-> {}])
  /\ checks' = checks + 1
  /\ UNCHANGED <<rows, audits, approval, approvals>>

AuditFinding(k) ==
  /\ k \in DOMAIN check
  /\ \E tool \in ToAudit(check[k]) :
       /\ audits' = audits \cup {Finding(check[k], tool)}
       /\ check' = [check EXCEPT ![k].done = @ \cup {tool}]
  /\ UNCHANGED <<rows, approval, checks, approvals>>

(* A row that another session inserted since the read is a primary key     *)
(* conflict (FailCheck); a locked one makes the UPDATE wait.               *)
CommitCheck(k) ==
  /\ k \in DOMAIN check
  /\ LET c == check[k] IN
       /\ Audited(c)
       /\ DOMAIN rows \cap DOMAIN c.list \subseteq DOMAIN c.read
       /\ \A t \in Touched(c) : ~Locked(t)
       /\ rows' = [t \in DOMAIN rows \cup DOMAIN c.list |->
                     IF t \in DOMAIN c.read
                     THEN Flush(rows[t], c.read[t], Judged(c, t))
                     ELSE IF t \in DOMAIN c.list THEN Judged(c, t) ELSE rows[t]]
  /\ check' = Without(check, k)
  /\ UNCHANGED <<audits, approval, checks, approvals>>

(* The audit writer, the commit or the process fails: no row is written,   *)
(* the list is withheld; the audit row under way may have been recorded.   *)
FailCheck(k) ==
  /\ k \in DOMAIN check
  /\ audits' \in {audits} \cup {audits \cup {Finding(check[k], t)} : t \in ToAudit(check[k])}
  /\ check' = Without(check, k)
  /\ UNCHANGED <<rows, approval, checks, approvals>>

-----------------------------------------------------------------------------
Approved(p) == Event("approved", p.tool, p.old, p.hash, FALSE)

(* An overlap can leave an observed schema without its hash.               *)
PromotedHash(row) ==
  IF row.observed_hash = None THEN row.observed_schema ELSE row.observed_hash

(* Mutant: approve does not ask for a pending schema.                      *)
Pending_Any(row) == TRUE
Pending(row) == row.observed_schema # None

(* The SELECT FOR UPDATE of approve; LookupError changes nothing.          *)
StartApproval(a) ==
  /\ a \notin DOMAIN approval
  /\ approvals < MaxApprovals
  /\ \E tool \in DOMAIN rows :
       /\ ~Locked(tool)
       /\ Pending(rows[tool])
       /\ approval' = With(approval, a,
            [ tool |-> tool, old |-> rows[tool].approved_hash,
              schema |-> rows[tool].observed_schema, hash |-> PromotedHash(rows[tool]),
              audited |-> FALSE ])
  /\ approvals' = approvals + 1
  /\ UNCHANGED <<rows, audits, check, checks>>

AuditApproval(a) ==
  /\ a \in DOMAIN approval
  /\ ~approval[a].audited
  /\ audits' = audits \cup {Approved(approval[a])}
  /\ approval' = [approval EXCEPT ![a].audited = TRUE]
  /\ UNCHANGED <<rows, check, checks, approvals>>

CommitApproval(a) ==
  /\ a \in DOMAIN approval
  /\ approval[a].audited
  /\ LET p == approval[a] IN
       rows' = [rows EXCEPT ![p.tool] =
         [ approved_schema |-> p.schema, approved_hash |-> p.hash,
           observed_schema |-> None, observed_hash |-> None, blocked |-> FALSE ]]
  /\ approval' = Without(approval, a)
  /\ UNCHANGED <<audits, check, checks, approvals>>

FailApproval(a) ==
  /\ a \in DOMAIN approval
  /\ audits' \in {audits, audits \cup {Approved(approval[a])}}
  /\ approval' = Without(approval, a)
  /\ UNCHANGED <<rows, check, checks, approvals>>

(* What stage 5 of the pipeline asks before a call.                        *)
IsBlocked(tool) == tool \in DOMAIN rows /\ rows[tool].blocked

Next ==
  \/ \E k \in Checkers :
       StartCheck(k) \/ AuditFinding(k) \/ CommitCheck(k) \/ FailCheck(k)
  \/ \E a \in Admins :
       StartApproval(a) \/ AuditApproval(a) \/ CommitApproval(a) \/ FailApproval(a)

Spec == Init /\ [][Next]_vars

-----------------------------------------------------------------------------
(* Types of the tables and of the coroutines over them; a check only ever  *)
(* read rows that are still there, for check and approve delete none.      *)
TypeOK ==
  /\ rows \in Baselines
  /\ \A e \in audits : e.tool \in Tools /\ e.blocked \in BOOLEAN
  /\ \A k \in DOMAIN check :
       /\ check[k].list \in Lists /\ check[k].read \in Baselines
       /\ DOMAIN check[k].read \subseteq DOMAIN rows
  /\ \A a \in DOMAIN approval : approval[a].tool \in DOMAIN rows
  /\ checks <= MaxChecks /\ approvals <= MaxApprovals

(* Whatever overlaps or fails, no tool is blocked, and no schema waits for *)
(* approval, without an audit row that says so: check awaits the writer    *)
(* before it commits, and approve clears what it promoted.                 *)
BlocksAudited ==
  \A t \in DOMAIN rows :
    /\ rows[t].blocked => \E e \in audits : e.tool = t /\ e.blocked
    /\ rows[t].observed_schema # None =>
         \E e \in audits : e.tool = t /\ e.new = rows[t].observed_schema

(* The trust anchor of a tool only changes by an approval whose APPROVED   *)
(* row names the hash that is replaced and the one that replaces it: two   *)
(* approvals and the checks between them do not overwrite each other.      *)
ApprovalAudited ==
  [][\A t \in DOMAIN rows :
       rows'[t].approved_hash # rows[t].approved_hash =>
         \E e \in audits :
           /\ e.event = "approved" /\ e.tool = t
           /\ e.old = rows[t].approved_hash /\ e.new = rows'[t].approved_hash]_vars

(* A block lost to an overlap (a check that found the row blocked, while   *)
(* an approval unblocked it, does not write the column) lasts until the    *)
(* next check: one whose row stayed as it read it leaves no listed tool    *)
(* callable with a blocking drift, whatever was observed before.           *)
ServedListJudged ==
  [][\A k \in Checkers : CommitCheck(k) =>
       \A t \in DOMAIN check[k].list \cap DOMAIN check[k].read :
         rows[t] = check[k].read[t] =>
           \/ rows'[t].blocked
           \/ check[k].list[t] = rows[t].approved_hash
           \/ ~Blocks(rows[t].approved_schema, check[k].list[t])]_vars

(* A renamed tool stays blocked until it is approved ("baselined but       *)
(* blocked until approval").  It does not: its own schema is stored as the *)
(* approved one, and the next list is taken for a revert to it.            *)
RenameBlocked ==
  [][\A t \in DOMAIN rows :
       /\ rows[t].blocked
       /\ \E e \in audits : e.tool = t /\ e.event = "renamed"
       /\ ~\E e \in audits : e.tool = t /\ e.event = "approved"
       => rows'[t].blocked]_vars
=============================================================================
