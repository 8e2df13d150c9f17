----------------------------- MODULE AuditKeys -----------------------------
(***************************************************************************)
(* Rotation of the audit signing key (services/gateway/audit_keys.py and   *)
(* AuditWriter.rotate), next to ordinary audit writes and to a chain       *)
(* export (audit_export.py), with startup recovery and the backfill of     *)
(* rows without a key id (audit_verification.py).                          *)
(*                                                                         *)
(* The key store is synchronous code: between two of its file operations   *)
(* nothing else runs in the gateway, but the process may die and the       *)
(* operation may raise.  The links of the chain are those of AuditChain; a *)
(* row is here its number, its key id, the key that signed it and, for     *)
(* AUDIT_KEY_ROTATED, the new key.  A key names its rotation as well: each *)
(* operation generates one.                                                *)
(***************************************************************************)
EXTENDS Naturals, FiniteSets, FiniteSetsExt, Sequences

CONSTANTS
  MaxKeys,      \* bound: keys ever generated, the first one included
  MaxSeq,       \* bound: sequence numbers ever drawn
  MaxCrashes,   \* bound: crashes of the gateway
  Faults        \* the faults that may happen, a subset of AllFaults

(* A write of the audit log fails without its row ("insert"), raises with  *)
(* its row committed ("ackLost"), or finds its pointer changed under it    *)
(* and writes its row once more ("twice"): what AuditLedger allows.        *)
AllFaults == {"crash", "file", "insert", "ackLost", "twice"}

ASSUME KeysAssumption == MaxKeys \in Nat \ {0} /\ MaxSeq \in Nat \ {0} /\ MaxCrashes \in Nat
ASSUME FaultsAssumption == Faults \subseteq AllFaults

Keys == 1..MaxKeys
NoKey == 0

VARIABLES
  rows,        \* audit_log in the order of seq
  nextSeq,     \* the sequence behind audit_log.seq
  private,     \* the key in private_path
  pending,     \* the key in pending_path, a set of at most one
  journal,     \* the rotation in journal_path, a set of at most one
  public,      \* the keys with a file in public_dir
  signing,     \* AuditWriter._signing_key and _key_id
  available,   \* AuditWriter._available
  at,          \* the next step of rotate, of recovery or of startup
  serving,     \* startup is over, and the gateway has not died
  writing,     \* an ordinary write: "idle", "waiting" for the lock, "insert"
  generated,   \* keys generated so far
  crashes,
  export,      \* an export under way: [at, from, to, keys, lines]
  unnoticed,   \* history: keys whose rotation was committed and taken to have failed
  repeated     \* history: keys whose rotation was written more than once

files == <<private, pending, journal, public>>
memory == <<signing, available>>
history == <<unnoticed, repeated>>
chain == <<rows, nextSeq, history>>
vars == <<files, memory, chain, at, serving, writing, generated, crashes, export>>

NoExport == [at |-> "idle", from |-> 0, to |-> 0, keys |-> {}, lines |-> <<>>]

(* A chain that predates key ids may hold a row without one.               *)
LegacyRow == [seq |-> 1, key |-> NoKey, signer |-> 1, new |-> NoKey]

Init ==
  /\ rows \in {<<>>, <<LegacyRow>>} /\ nextSeq = Len(rows) + 1
  /\ private = 1 /\ pending = {} /\ journal = {} /\ public = {}
  /\ signing = 1 /\ available = TRUE
  /\ at = "down" /\ serving = FALSE /\ writing = "idle"
  /\ generated = 1 /\ crashes = 0 /\ export = NoExport
  /\ unnoticed = {} /\ repeated = {}

Goto(step) == at' = step

-----------------------------------------------------------------------------
(* One INSERT of the writer: the row is signed with the key in memory.  A  *)
(* rolled back INSERT has drawn its number all the same.                   *)
Insert(new) ==
  /\ nextSeq <= MaxSeq
  /\ rows' = Append(rows, [seq |-> nextSeq, key |-> signing, signer |-> signing, new |-> new])
  /\ nextSeq' = nextSeq + 1

InsertFails ==
  /\ "insert" \in Faults /\ nextSeq <= MaxSeq
  /\ nextSeq' = nextSeq + 1
  /\ UNCHANGED rows

(* Between two awaits of rotate the event loop runs nothing else.          *)
LoopRuns == serving /\ at \in {"idle", "write"}

(* write looks at _available first and waits for the lock then.            *)
BeginWrite ==
  /\ LoopRuns /\ writing = "idle" /\ available
  /\ writing' = "waiting"
  /\ UNCHANGED <<files, memory, chain, at, serving, generated, crashes, export>>

Lock ==
  /\ LoopRuns /\ at = "idle" /\ writing = "waiting"
  /\ writing' = "insert"
  /\ UNCHANGED <<files, memory, chain, at, serving, generated, crashes, export>>

(* A pointer that changed between WATCH and EXEC runs _write_locked again. *)
Write ==
  /\ writing = "insert" /\ LoopRuns
  /\ \/ (Insert(NoKey) \/ InsertFails) /\ writing' = "idle"
     \/ "twice" \in Faults /\ Insert(NoKey) /\ UNCHANGED writing
  /\ UNCHANGED <<files, memory, history, at, serving, generated, crashes, export>>

-----------------------------------------------------------------------------
(* rotate takes the lock.  prepare archives the public key before it       *)
(* stages the private one and the journal.                                 *)
Rotate ==
  /\ LoopRuns /\ at = "idle" /\ writing # "insert" /\ available
  /\ Goto(IF journal = {} THEN "publish" ELSE "unlink")
  /\ UNCHANGED <<files, memory, chain, serving, writing, generated, crashes, export>>

(* Mutant: the public key is archived when the key becomes active only.    *)
Publish_Later ==
  /\ at = "publish" /\ generated < MaxKeys
  /\ generated' = generated + 1
  /\ Goto("stage")
  /\ UNCHANGED <<files, memory, chain, serving, writing, crashes, export>>

Publish ==
  /\ at = "publish" /\ generated < MaxKeys
  /\ generated' = generated + 1
  /\ public' = public \cup {generated + 1}
  /\ Goto("stage")
  /\ UNCHANGED <<private, pending, journal, memory, chain, serving, writing, crashes, export>>

(* Mutant: each staged key has a file of its own.                          *)
Stage_Beside ==
  /\ at = "stage"
  /\ pending' = pending \cup {generated}
  /\ Goto("journal")
  /\ UNCHANGED <<private, journal, public, memory, chain, serving, writing, generated, crashes,
                 export>>

Stage ==
  /\ at = "stage"
  /\ pending' = {generated}
  /\ Goto("journal")
  /\ UNCHANGED <<private, journal, public, memory, chain, serving, writing, generated, crashes,
                 export>>

StageJournal ==
  /\ at = "journal"
  /\ journal' = {[new |-> generated, phase |-> "prepared"]}
  /\ Goto("write")
  /\ UNCHANGED <<private, pending, public, memory, chain, serving, writing, generated, crashes,
                 export>>

(* The rows that carry the operation id of a rotation.                     *)
HandoffRows(new) == {i \in 1..Len(rows) : rows[i].new = new}

(* The AUDIT_KEY_ROTATED row, signed by the old key: the handoff.          *)
Handoff ==
  /\ at = "write"
  /\ Insert(generated)
  /\ Goto("handoff")
  /\ UNCHANGED <<files, memory, history, serving, writing, generated, crashes, export>>

(* The row is committed and _write_locked starts again, as in Write.       *)
HandoffRepeats ==
  /\ "twice" \in Faults /\ at = "write"
  /\ Insert(generated)
  /\ repeated' = repeated \cup {generated}
  /\ UNCHANGED <<files, memory, unnoticed, at, serving, writing, generated, crashes, export>>

(* The write raises, with its row committed or without: handed_off is not  *)
(* set, and the staged files are dropped.                                  *)
HandoffFails ==
  /\ at = "write"
  /\ InsertFails \/ ("ackLost" \in Faults /\ Insert(generated))
  /\ unnoticed' = unnoticed \cup ({generated} \cap {rows'[i].new : i \in 1..Len(rows')})
  /\ Goto("unlink")
  /\ UNCHANGED <<files, memory, repeated, serving, writing, generated, crashes, export>>

Phase(step, phase, next) ==
  /\ at = step
  /\ journal' = {[entry EXCEPT !.phase = phase] : entry \in journal}
  /\ Goto(next)
  /\ UNCHANGED <<private, pending, public, memory, chain, serving, writing, generated, crashes,
                 export>>

MarkHandoff == Phase("handoff", "handoff", "replace")

(* promote: recovery runs it as well.                                      *)
Replace ==
  /\ at = "replace"
  /\ \E new \in pending : private' = new
  /\ pending' = {}
  /\ Goto("promoted")
  /\ UNCHANGED <<journal, public, memory, chain, serving, writing, generated, crashes, export>>

JournalPromoted == Phase("promoted", "promoted", IF serving THEN "swap" ELSE "unlink")

SwapKey ==
  /\ at = "swap"
  /\ signing' = private
  /\ Goto("unlink")
  /\ UNCHANGED <<files, available, chain, serving, writing, generated, crashes, export>>

(* finish: of a rotation, of one that is discarded, and of recovery.       *)
Unlink ==
  /\ at = "unlink"
  /\ pending' = {}
  /\ Goto("close")
  /\ UNCHANGED <<private, journal, public, memory, chain, serving, writing, generated, crashes,
                 export>>

Close ==
  /\ at = "close"
  /\ journal' = {}
  /\ Goto(IF serving THEN "idle" ELSE "initialize")
  /\ UNCHANGED <<private, pending, public, memory, chain, serving, writing, generated, crashes,
                 export>>

(* Mutant: the journal says whether the row was written.                   *)
HandedOff_ByPhase == \E entry \in journal : entry.phase # "prepared"

(* handed_off of rotate: the row was written.                              *)
HandedOff ==
  \/ at \in {"handoff", "replace", "promoted", "swap"}
  \/ at \in {"unlink", "close"} /\ \E entry \in journal : entry.phase = "promoted"

(* A file operation raises.  After the handoff the writer becomes          *)
(* unavailable; before it the staged files are dropped, if they can be.    *)
FileFails ==
  /\ "file" \in Faults /\ serving /\ at \notin {"idle", "write", "swap"}
  /\ available' = (available /\ ~HandedOff)
  /\ Goto(IF HandedOff \/ at \in {"unlink", "close"} THEN "idle" ELSE "unlink")
  /\ UNCHANGED <<files, signing, chain, serving, writing, generated, crashes, export>>

-----------------------------------------------------------------------------
Crash ==
  /\ "crash" \in Faults /\ crashes < MaxCrashes /\ at # "down"
  /\ crashes' = crashes + 1
  /\ serving' = FALSE /\ writing' = "idle" /\ export' = NoExport
  /\ Goto("down")
  /\ UNCHANGED <<files, memory, chain, generated>>

(* An operator restarts a gateway whose /ready says so.                    *)
OperatorRestart ==
  /\ LoopRuns /\ at = "idle" /\ (~available \/ journal # {})
  /\ serving' = FALSE /\ writing' = "idle" /\ export' = NoExport
  /\ Goto("down")
  /\ UNCHANGED <<files, memory, chain, generated, crashes>>

(* Mutant: recovery looks at the phase, not for the row.                   *)
Recover_ByPhase ==
  /\ at = "down"
  /\ IF journal = {}
       THEN Goto("initialize")
       ELSE \E entry \in journal :
              Goto(IF entry.phase = "prepared" \/ private = entry.new THEN "unlink"
                   ELSE "replace")
  /\ UNCHANGED <<files, memory, chain, serving, writing, generated, crashes, export>>

(* recover: one row completes the rotation and none discards it.  It       *)
(* raises, and the gateway does not start, when there are several, or when *)
(* the key to promote is gone.                                             *)
Recover ==
  /\ at = "down"
  /\ IF journal = {}
       THEN Goto("initialize")
       ELSE \E entry \in journal :
              /\ Cardinality(HandoffRows(entry.new)) <= 1
              /\ IF HandoffRows(entry.new) = {} \/ private = entry.new
                   THEN Goto("unlink")
                   ELSE pending = {entry.new} /\ Goto("replace")
  /\ unnoticed' = unnoticed \ {entry.new : entry \in journal}
  /\ UNCHANGED <<files, memory, rows, nextSeq, repeated, serving, writing, generated, crashes,
                 export>>

(* initialize, and the writer that is built with its key.                  *)
Initialize ==
  /\ at = "initialize"
  /\ public' = public \cup {private}
  /\ signing' = private /\ available' = TRUE
  /\ Goto("backfill")
  /\ UNCHANGED <<private, pending, journal, chain, serving, writing, generated, crashes, export>>

(* verify_record, but for the links and the projections: the key of a row  *)
(* is known and it signed the row.                                         *)
VerifyRecord(row, keys, legacy) ==
  LET key == IF row.key = NoKey THEN legacy ELSE row.key
  IN  key # NoKey /\ key \in keys /\ row.signer = key

(* backfill_legacy_key_ids: the whole chain must verify first.  The row of *)
(* the startup activation is one more ordinary write.                      *)
Backfill ==
  /\ at = "backfill"
  /\ IF \E i \in 1..Len(rows) : rows[i].key = NoKey
       THEN /\ \A i \in 1..Len(rows) : VerifyRecord(rows[i], public, signing)
            /\ rows' = [i \in 1..Len(rows) |->
                 [rows[i] EXCEPT !.key = IF @ = NoKey THEN signing ELSE @]]
       ELSE UNCHANGED rows
  /\ serving' = TRUE
  /\ Goto("idle")
  /\ UNCHANGED <<files, memory, nextSeq, history, writing, generated, crashes, export>>

-----------------------------------------------------------------------------
(* The rows from..to, a stretch of rows that are in the order of seq.      *)
Within(from, to) ==
  LET within == {i \in 1..Len(rows) : from <= rows[i].seq /\ rows[i].seq <= to}
  IN  IF within = {} THEN <<>> ELSE SubSeq(rows, Min(within), Max(within))

(* The checks of prepare on the rows from..to.                             *)
Exportable(from, to) ==
  LET range == Within(from, to)
  IN  /\ Len(range) = to - from + 1
      /\ \A i \in 1..Len(range) : /\ range[i].seq = from + i - 1
                                  /\ range[i].key # NoKey
                                  /\ VerifyRecord(range[i], public, NoKey)

(* prepare takes the bounds of the admin, or those of the chain when an    *)
(* earlier transaction read them, and scans the range: any range that is   *)
(* complete by now may be taken, and one it refuses leaves nothing behind. *)
ExportManifest ==
  /\ LoopRuns /\ export.at = "idle"
  /\ \E to \in 1..MaxSeq : \E from \in 1..to :
       /\ Exportable(from, to)
       /\ LET range == Within(from, to)
          IN  export' = [NoExport EXCEPT !.at = "stream", !.from = from, !.to = to,
                           !.keys = {range[i].key : i \in 1..Len(range)}]
  /\ UNCHANGED <<files, memory, chain, at, serving, writing, generated, crashes>>

(* Mutant: the stream is not bounded by the manifest.                      *)
ExportStream_Unbounded ==
  /\ LoopRuns /\ export.at = "stream"
  /\ export' = [export EXCEPT !.at = "done", !.lines = Within(export.from, MaxSeq)]
  /\ UNCHANGED <<files, memory, chain, at, serving, writing, generated, crashes>>

ExportStream ==
  /\ LoopRuns /\ export.at = "stream"
  /\ export' = [export EXCEPT !.at = "done", !.lines = Within(export.from, export.to)]
  /\ UNCHANGED <<files, memory, chain, at, serving, writing, generated, crashes>>

ExportTaken ==
  /\ export.at = "done"
  /\ export' = NoExport
  /\ UNCHANGED <<files, memory, chain, at, serving, writing, generated, crashes>>

(* verify_file: what an auditor checks with nothing but the file.  The     *)
(* count of the manifest is that of its bounds.                            *)
VerifyFile(file) ==
  LET lines == file.lines
  IN  /\ \A i \in 1..Len(lines) : /\ lines[i].seq = file.from + i - 1
                                  /\ VerifyRecord(lines[i], file.keys, NoKey)
      /\ Len(lines) = file.to - file.from + 1
      /\ {lines[i].key : i \in 1..Len(lines)} = file.keys

-----------------------------------------------------------------------------
RotationStep ==
  \/ Publish \/ Stage \/ StageJournal \/ Handoff \/ HandoffRepeats \/ HandoffFails
  \/ MarkHandoff \/ Replace \/ JournalPromoted \/ SwapKey \/ Unlink \/ Close

StartupStep == Recover \/ Initialize \/ Backfill

Next ==
  \/ BeginWrite \/ Lock \/ Write \/ Rotate \/ RotationStep \/ FileFails
  \/ Crash \/ OperatorRestart \/ StartupStep
  \/ ExportManifest \/ ExportStream \/ ExportTaken

Spec == Init /\ [][Next]_vars

(* Started rotations and startups run to their end, as does a write that   *)
(* has the lock, and an operator restarts a gateway that asks for it.      *)
FairSpec ==
  /\ Spec
  /\ WF_vars(RotationStep \/ StartupStep) /\ WF_vars(Lock) /\ WF_vars(Write)
  /\ WF_vars(OperatorRestart)

-----------------------------------------------------------------------------
(* Files, memory, rows and control have these types.                       *)
TypeOK ==
  /\ private \in Keys /\ public \subseteq Keys /\ signing \in Keys
  /\ pending \in SUBSET Keys /\ Cardinality(pending) <= 1
  /\ journal \in SUBSET [new : Keys, phase : {"prepared", "handoff", "promoted"}]
  /\ rows \in Seq([seq : 1..MaxSeq, key : Keys \cup {NoKey}, signer : Keys,
                   new : Keys \cup {NoKey}])
  /\ nextSeq \in 1..(MaxSeq + 1) /\ generated \in Keys /\ crashes \in 0..MaxCrashes
  /\ available \in BOOLEAN /\ serving \in BOOLEAN
  /\ writing \in {"idle", "waiting", "insert"}
  /\ at \in {"down", "initialize", "backfill", "idle", "publish", "stage", "journal", "write",
             "handoff", "replace", "promoted", "swap", "unlink", "close"}
  /\ export.at \in {"idle", "stream", "done"}
  /\ unnoticed \subseteq Keys /\ repeated \subseteq Keys

(* The key that the last rotation on record hands over to, but for those   *)
(* that the gateway took to have failed.                                   *)
Rotations == {i \in 1..Len(rows) : rows[i].new \notin {NoKey} \cup unnoticed}
NewestKey ==
  IF Rotations = {} THEN 1
  ELSE rows[CHOOSE i \in Rotations : \A j \in Rotations : j <= i].new

(* "Once the chain commits the new fingerprint, continuing on an ambiguous *)
(* key would make later verification non-deterministic": a writer that is  *)
(* available outside the write of a rotation signs with the newest key on  *)
(* record, which is the one on disk and one whose public key is archived.  *)
(* A write that raised with its row committed hands over to no key until   *)
(* a startup finds the row.                                                *)
KeyFollowsRotation ==
  serving /\ available /\ at \in {"idle", "publish", "stage", "journal"}
    => signing = NewestKey /\ private = NewestKey /\ NewestKey \in public

(* "Rotation never makes historical rows unverifiable": once the gateway   *)
(* has served, every row verifies with the archived public keys, whatever  *)
(* crashed or failed.                                                      *)
RowsVerifiable ==
  serving => \A i \in 1..Len(rows) : VerifyRecord(rows[i], public, NoKey)

(* Startup can complete or discard a journaled rotation, whatever crashed  *)
(* or failed, unless its row was written twice or its write raised with    *)
(* the row committed and dropped the staged key.                           *)
RecoveryPossible ==
  at = "down" => \A entry \in journal :
    /\ entry.new \notin repeated => Cardinality(HandoffRows(entry.new)) <= 1
    /\ HandoffRows(entry.new) # {} /\ private # entry.new
         => pending = {entry.new} \/ entry.new \in unnoticed

(* An export that prepare accepted is one that an auditor accepts, with    *)
(* writes and rotations between its transactions.                          *)
ExportVerifies == export.at = "done" => VerifyFile(export)

(* Every rotation on record whose write returned ends on disk, or is       *)
(* followed by another one, but for one that was written twice: a crash    *)
(* leaves it to a recovery that refuses it.                                *)
RotationReachesDisk ==
  \A k \in Keys :
    (Rotations # {} /\ NewestKey = k) ~> private = k \/ NewestKey # k \/ k \in repeated
=============================================================================
