--------------------------- MODULE AuditVerifier ---------------------------
(***************************************************************************)
(* The incremental chain verifier (services/gateway/audit_verifier.py, run *)
(* by scripts/audit_verifier_daemon.py) next to the live writer of         *)
(* AuditChain.  A pass reads the checkpoint and its anchor row, scans the  *)
(* rows after it in one snapshot, and saves the last good row; the writer  *)
(* and other passes (an operator's --once) run in between.  Signatures and *)
(* projections hold here: no row is altered after its commit, so a pass    *)
(* fails exactly on a row that does not continue the chain.                *)
(***************************************************************************)
EXTENDS AuditChain

CONSTANTS
  Verifiers,        \* the processes that run passes
  Daemons,          \* those that run pass after pass for ever
  Killable          \* those that may be killed in the middle of a pass

ASSUME DaemonsAssumption == Daemons \subseteq Verifiers /\ Killable \subseteq Verifiers

VARIABLES
  checkpoint,   \* verifier_checkpoint.last_verified_seq; 0 is no row
  pass,         \* per verifier: where its pass is and what it has read
  alarm         \* a failure was logged and counted

verifierVars == <<checkpoint, pass, alarm>>
allVars == <<vars, verifierVars>>

Resting == [at |-> "idle", from |-> 0, good |-> 0]

VerifierInit ==
  /\ Init
  /\ checkpoint = 0
  /\ pass = [v \in Verifiers |-> Resting]
  /\ alarm = FALSE

(* session.get(VerifierCheckpoint) and the anchor it names.                *)
ReadCheckpoint(v) ==
  /\ pass[v].at = "idle"
  /\ pass' = [pass EXCEPT ![v] = [at |-> "scan", from |-> checkpoint, good |-> checkpoint]]
  /\ UNCHANGED <<checkpoint, alarm>>

(* Mutants: the anchor is not read; a row is only checked against itself.  *)
Verifies_NoAnchor(from, i) ==
  LET expected == IF i = from + 1 THEN Genesis ELSE rows[i - 1].curr
  IN  rows[i].prev = expected /\ rows[i].curr = Hash(expected, rows[i].payload)

Verifies_SelfOnly(from, i) == rows[i].curr = Hash(rows[i].prev, rows[i].payload)

(* verify_record on row i, after a pass whose running hash is that of row  *)
(* i - 1: the anchor's curr_hash is read, never verified again.            *)
Verifies(from, i) ==
  LET expected == IF i = 1 THEN Genesis ELSE rows[i - 1].curr
  IN  rows[i].prev = expected /\ rows[i].curr = Hash(expected, rows[i].payload)

GoodFrom(from) ==
  {k \in from..Len(rows) : \A i \in (from + 1)..k : Verifies(from, i)}

(* The scan stops at the first row that fails and reports it.              *)
Scan(v) ==
  /\ pass[v].at = "scan"
  /\ \E last \in GoodFrom(pass[v].from) :
       /\ \A k \in GoodFrom(pass[v].from) : k <= last
       /\ pass' = [pass EXCEPT ![v].at = "save", ![v].good = last]
       /\ alarm' = (alarm \/ last < Len(rows))
  /\ UNCHANGED checkpoint

(* Mutants: the checkpoint moves to the newest row; a pass that verified a *)
(* single row does not save it.                                            *)
Save_Newest(v) ==
  /\ pass[v].at = "save"
  /\ checkpoint' = Len(rows)
  /\ pass' = [pass EXCEPT ![v] = Resting]
  /\ UNCHANGED alarm

Save_OffByOne(v) ==
  /\ pass[v].at = "save"
  /\ checkpoint' = IF pass[v].good > pass[v].from + 1 THEN pass[v].good ELSE checkpoint
  /\ pass' = [pass EXCEPT ![v] = Resting]
  /\ UNCHANGED alarm

(* A pass that verified rows writes its last good row over the checkpoint. *)
(* The first one inserts it, which fails when another pass did so before.  *)
Save(v) ==
  /\ pass[v].at = "save"
  /\ LET verified == pass[v].good > pass[v].from
         conflict == pass[v].from = 0 /\ checkpoint # 0
     IN  checkpoint' = IF verified /\ ~conflict THEN pass[v].good ELSE checkpoint
  /\ pass' = [pass EXCEPT ![v] = Resting]
  /\ UNCHANGED alarm

AbortPass(v) ==
  /\ v \in Killable
  /\ pass[v].at # "idle"
  /\ pass' = [pass EXCEPT ![v] = Resting]
  /\ UNCHANGED <<checkpoint, alarm>>

VerifierStep(v) == ReadCheckpoint(v) \/ Scan(v) \/ Save(v)

VerifierNext ==
  \/ LossyNext /\ UNCHANGED verifierVars
  \/ \E v \in Verifiers : (VerifierStep(v) \/ AbortPass(v)) /\ UNCHANGED vars

VerifierSpec == VerifierInit /\ [][VerifierNext]_allVars

(* The daemon runs passes for ever (while True: verify, sleep); an operator*)
(* who runs --once need not.                                               *)
FairVerifierSpec ==
  /\ VerifierSpec
  /\ \A v \in Daemons : WF_allVars(VerifierStep(v) /\ UNCHANGED vars)

-----------------------------------------------------------------------------
(* Checkpoint, passes and alarm have these types.                          *)
VerifierTypeOK ==
  /\ TypeOK
  /\ checkpoint \in 0..MaxRows
  /\ pass \in [Verifiers -> [at : {"idle", "scan", "save"},
                             from : 0..MaxRows, good : 0..MaxRows]]
  /\ alarm \in BOOLEAN

(* However passes, writes, forks and aborted passes interleave, every row  *)
(* up to the checkpoint continues the chain: the checkpoint never moves    *)
(* past a break, although no pass looks at the rows before it again.       *)
CheckpointSound ==
  /\ VerifierTypeOK
  /\ \A i \in 1..checkpoint : LinkOK(i)

(* The alarm is never raised over a chain without a break, in particular   *)
(* not over rows committed while a pass was under way.                     *)
NoFalseAlarm == alarm => ~ChainLinear

(* A break, wherever the daemon was when it appeared, is reported.         *)
BreakReported == ~ChainLinear ~> alarm

(* Unless the chain breaks, every committed row is verified in the end.    *)
EveryRowVerified ==
  \A n \in 1..MaxRows : Len(rows) >= n ~> checkpoint >= n \/ ~ChainLinear
=============================================================================
