-------------------------- MODULE AuditChainProofs --------------------------
(***************************************************************************)
(* Proofs about AuditChain, for every set of payloads, every bound on the  *)
(* rows and every set of faults: of Spec under the faults the writer       *)
(* handles, of LossySpec under the Forks as well.  Then, proofs about the  *)
(* passes of AuditVerifier next to that writer, for every set of           *)
(* verifiers.                                                              *)
(***************************************************************************)
EXTENDS AuditVerifier, SequenceTheorems, TLAPS

USE DEF Locations, locals, End, Continue

(* The hash of any two values of the right types is a hash.                *)
LEMMA HashType ==
  ASSUME NEW h \in Hashes, NEW e \in Payloads
  PROVE  Hash(h, e) \in Hashes
  BY AppendProperties DEF Hash, Hashes

(* The genesis hash is a hash.                                             *)
LEMMA GenesisType == Genesis \in Hashes
  BY EmptySeq DEF Genesis, Hashes

(* One committed row: the types it keeps and the hash it leaves behind.    *)
LEMMA CommitFacts ==
  ASSUME TypeOK, Commit
  PROVE  /\ NewRow \in Row
         /\ rows' \in Seq(Row)
         /\ Len(rows') = Len(rows) + 1
         /\ rows'[Len(rows')] = NewRow
         /\ \A i \in 1..Len(rows) : rows'[i] = rows[i]
         /\ LastHash' = Hash(prev, payload)
  <1>1. NewRow \in Row
    BY HashType DEF TypeOK, NewRow, Row
  <1>2. /\ rows' \in Seq(Row) /\ rows' # << >>
        /\ Len(rows') = Len(rows) + 1
        /\ rows'[Len(rows')] = NewRow
        /\ \A i \in 1..Len(rows) : rows'[i] = rows[i]
    BY <1>1, AppendProperties DEF TypeOK, Commit
  <1>3. LastHash' = rows'[Len(rows')].curr
    BY <1>2 DEF LastHash
  <1> QED  BY <1>1, <1>2, <1>3 DEF NewRow, TypeOK

(* The hash a write reads from PostgreSQL is a hash.                       *)
LEMMA LastHashType ==
  ASSUME TypeOK  PROVE LastHash \in Hashes
  <1>1. CASE rows = << >>
    BY <1>1, GenesisType DEF LastHash
  <1>2. CASE rows # << >>
    <2>1. rows[Len(rows)] \in Row
      BY <1>2, EmptySeq, LenProperties DEF TypeOK
    <2> QED  BY <1>2, <2>1 DEF LastHash, Row
  <1> QED  BY <1>1, <1>2

(* An EXEC whose answer was never read leaves a hash or nothing.           *)
LEMMA UnknownExecType ==
  ASSUME TypeOK  PROVE PointerAfterUnknownExec \subseteq SUBSET Hashes
  BY HashType DEF TypeOK, PointerAfterUnknownExec

(* A fresh writer on an empty database has well-typed state.               *)
LEMMA InitTypes == Init => TypeOK
  <1>1. << >> \in Seq(Row)
    BY EmptySeq
  <1>2. Init => rows \in Seq(Row)
    BY <1>1, Zenon DEF Init
  <1>3. Init => pointer \in SUBSET Hashes /\ prev \in Hashes
    BY GenesisType DEF Init
  <1>4. Init => inserted \in Nat
    BY DEF Init
  <1> QED  BY <1>2, <1>3, <1>4, Zenon DEF Init, TypeOK

(* No step, no fault takes a variable out of its type.                     *)
LEMMA TypeStep ==
  ASSUME TypeOK, [LossyNext]_vars  PROVE TypeOK'
  <1> USE DEF TypeOK
  <1>1. ASSUME NEW e \in Payloads, StartWrite(e)  PROVE TypeOK'
    BY <1>1 DEF StartWrite
  <1>2. CASE Watch  BY <1>2 DEF Watch
  <1>3. CASE GetPointer  BY <1>3 DEF GetPointer
  <1>4. CASE SelectLast  BY <1>4, LastHashType DEF SelectLast
  <1>5. CASE InsertRow  BY <1>5, CommitFacts DEF InsertRow
  <1>6. CASE Exec  BY <1>6, HashType DEF Exec
  <1>7. CASE ExecWatchError  BY <1>7 DEF ExecWatchError
  <1>8. CASE ReadFails  BY <1>8 DEF ReadFails
  <1>9. CASE ExecFails  BY <1>9, UnknownExecType DEF ExecFails
  <1>10. CASE Invalidate  BY <1>10 DEF Invalidate
  <1>11. CASE ExecLinkLoss  BY <1>11, UnknownExecType DEF ExecLinkLoss
  <1>12. CASE DatabaseFails  BY <1>12 DEF DatabaseFails
  <1>13. CASE InsertAckLost  BY <1>13, CommitFacts DEF InsertAckLost
  <1>14. ASSUME Interrupted, up' \in BOOLEAN  PROVE TypeOK'
    <2>1. rows' \in Seq(Row)
      BY <1>14, CommitFacts DEF Interrupted
    <2>2. pointer' \in SUBSET Hashes
      BY <1>14, UnknownExecType DEF Interrupted
    <2> QED  BY <1>14, <2>1, <2>2 DEF Interrupted
  <1>15. CASE Cancel  BY <1>14, <1>15 DEF Cancel
  <1>16. CASE Crash  BY <1>14, <1>16 DEF Crash
  <1>17. CASE Restart  BY <1>17 DEF Restart
  <1>18. CASE PointerEvicted  BY <1>18 DEF PointerEvicted
  <1>19. CASE UNCHANGED vars  BY <1>19 DEF vars
  <1> QED
    BY <1>1, <1>2, <1>3, <1>4, <1>5, <1>6, <1>7, <1>8, <1>9, <1>10, <1>11,
       <1>12, <1>13, <1>15, <1>16, <1>17, <1>18, <1>19 DEF LossyNext, Next, Forks

(* The writer's state keeps its types under every fault.                   *)
THEOREM TypeCorrect == LossySpec => []TypeOK
  <1>1. Init => TypeOK
    BY InitTypes
  <1>2. TypeOK /\ [LossyNext]_vars => TypeOK'
    BY TypeStep
  <1> QED  BY <1>1, <1>2, PTL DEF LossySpec
-----------------------------------------------------------------------------
(* A row that continues the last one extends a linear chain.               *)
LEMMA CommitLinear ==
  ASSUME TypeOK, ChainLinear, Commit, prev = LastHash
  PROVE  ChainLinear'
  <1> DEFINE n == Len(rows)
  <1>1. /\ n \in Nat /\ Len(rows') = n + 1
        /\ rows'[n + 1] = NewRow
        /\ \A i \in 1..n : rows'[i] = rows[i]
    BY CommitFacts, LenProperties DEF TypeOK
  <1> SUFFICES ASSUME NEW i \in 1..(n + 1)  PROVE LinkOK(i)'
    BY <1>1 DEF ChainLinear
  <1>2. CASE i = n + 1
    <2>1. rows'[i].prev = LastHash /\ rows'[i].curr = Hash(rows'[i].prev, rows'[i].payload)
      BY <1>1, <1>2 DEF NewRow
    <2>2. LastHash = IF i = 1 THEN Genesis ELSE rows'[i - 1].curr
      <3>1. CASE n = 0
        BY <1>1, <1>2, <3>1, EmptySeq DEF LastHash, TypeOK
      <3>2. CASE n # 0
        BY <1>1, <1>2, <3>2, EmptySeq DEF LastHash, TypeOK
      <3> QED  BY <3>1, <3>2
    <2> QED  BY <2>1, <2>2 DEF LinkOK, Hash, Genesis
  <1>3. CASE i \in 1..n
    <2>1. LinkOK(i) /\ rows'[i] = rows[i]
      BY <1>1, <1>3 DEF ChainLinear
    <2>2. i # 1 => rows'[i - 1] = rows[i - 1]
      BY <1>1, <1>3
    <2> QED  BY <2>1, <2>2 DEF LinkOK, Hash, Genesis
  <1> QED  BY <1>1, <1>2, <1>3

(* Nothing about the chain changes when the rows do not.                   *)
LEMMA ChainUnchanged ==
  ASSUME UNCHANGED rows
  PROVE  /\ ChainLinear => ChainLinear'
         /\ LastHash' = LastHash
  BY DEF ChainLinear, LinkOK, LastHash, Hash, Genesis

(* The strengthening is preserved by every step.                           *)
LEMMA WriterInvStep ==
  ASSUME TypeOK', WriterInv, [Next]_vars
  PROVE  WriterInv'
  <1> USE DEF PrevIsLast, RowCommitted, PointerFresh, ReturnedIsRecorded
  <1>0. TypeOK /\ ChainLinear
    BY DEF WriterInv
  <1>1. ASSUME NEW e \in Payloads, StartWrite(e)  PROVE WriterInv'
    BY <1>1, ChainUnchanged DEF StartWrite, WriterInv
  <1>2. CASE Watch
    BY <1>2, ChainUnchanged DEF Watch, WriterInv
  <1>3. CASE GetPointer
    <2>1. ~dirty /\ pointer # {} => prev' = LastHash
      BY <1>3 DEF GetPointer, WriterInv
    <2> QED  BY <1>3, <2>1, ChainUnchanged DEF GetPointer, WriterInv
  <1>4. CASE SelectLast
    BY <1>4, ChainUnchanged DEF SelectLast, WriterInv
  <1>5. CASE InsertRow
    <2>1. ChainLinear'
      BY <1>0, <1>5, CommitLinear DEF InsertRow, WriterInv
    <2>2. RowCommitted'
      BY <1>0, <1>5, CommitFacts, EmptySeq DEF InsertRow, NewRow, TypeOK
    <2> QED  BY <1>5, <2>1, <2>2 DEF InsertRow, WriterInv
  <1>6. CASE Exec
    BY <1>6, ChainUnchanged DEF Exec, WriterInv
  <1>7. CASE ExecWatchError
    BY <1>7, ChainUnchanged DEF ExecWatchError, WriterInv
  <1>8. CASE ReadFails
    BY <1>8, ChainUnchanged DEF ReadFails, WriterInv
  <1>9. CASE ExecFails
    BY <1>9, ChainUnchanged DEF ExecFails, WriterInv
  <1>10. CASE Invalidate
    BY <1>10, ChainUnchanged DEF Invalidate, WriterInv
  <1>11. CASE DatabaseFails
    BY <1>11, ChainUnchanged DEF DatabaseFails, WriterInv
  <1>12. CASE Crash
    <2>1. ChainLinear'
      <3>1. CASE pc = "insert" /\ Commit
        BY <1>0, <3>1, CommitLinear DEF WriterInv
      <3>2. CASE UNCHANGED rows
        BY <1>0, <3>2, ChainUnchanged
      <3> QED  BY <1>12, <3>1, <3>2 DEF Crash, Interrupted
    <2>2. ReturnedIsRecorded'
      BY <1>12, ChainUnchanged DEF Crash, Interrupted, WriterInv
    <2>3. PrevIsLast' /\ RowCommitted' /\ PointerFresh'
      BY <1>12 DEF Crash, Interrupted
    <2> QED  BY <2>1, <2>2, <2>3 DEF WriterInv
  <1>13. CASE Restart
    BY <1>13, ChainUnchanged DEF Restart, WriterInv
  <1>14. CASE PointerEvicted
    BY <1>14, ChainUnchanged DEF PointerEvicted, WriterInv
  <1>15. CASE UNCHANGED vars
    BY <1>15, ChainUnchanged DEF vars, WriterInv
  <1> QED
    BY <1>1, <1>2, <1>3, <1>4, <1>5, <1>6, <1>7, <1>8, <1>9, <1>10, <1>11,
       <1>12, <1>13, <1>14, <1>15 DEF Next

(* Under every fault the writer handles, the chain never forks and what    *)
(* write() returned is the last row: ChainLinear, ReturnedIsRecorded and   *)
(* the invariants they need.  LossySpec does not satisfy it: TLC finds a   *)
(* fork.                                                                   *)
THEOREM WriterCorrect == Spec => []WriterInv
  <1>1. Init => WriterInv
    <2> SUFFICES ASSUME Init  PROVE WriterInv
      OBVIOUS
    <2>1. TypeOK
      BY InitTypes
    <2>2. rows = << >> /\ Len(rows) = 0 /\ dirty /\ up /\ pc = "idle" /\ outcome = "free"
      BY EmptySeq DEF Init
    <2> QED
      BY <2>1, <2>2 DEF WriterInv, ChainLinear, PrevIsLast, RowCommitted,
                        PointerFresh, ReturnedIsRecorded
  <1>2. WriterInv /\ [Next]_vars => WriterInv'
    BY WriterInvStep, TypeStep DEF WriterInv, LossyNext
  <1> QED  BY <1>1, <1>2, PTL DEF Spec

(* The chain is linear under every fault the writer handles.               *)
COROLLARY ChainNeverForks == Spec => []ChainLinear
  <1>1. WriterInv => ChainLinear
    BY DEF WriterInv
  <1> QED  BY <1>1, WriterCorrect, PTL

-----------------------------------------------------------------------------
(* Every step of the writer is a step of the ledger or a stutter.          *)
LEMMA LedgerStep ==
  ASSUME WriterInv, [Next]_vars
  PROVE  [Ledger!Next]_(Ledger!ledgerVars)
  <1> USE DEF CallPhase, Ledger!Next, Ledger!ledgerVars
  <1>0. TypeOK /\ PrevIsLast /\ RowCommitted
    BY DEF WriterInv
  <1>1. ASSUME NEW e \in Payloads, StartWrite(e)  PROVE Ledger!Call(e)
    BY <1>0, <1>1, ChainUnchanged DEF StartWrite, Ledger!Call, TypeOK
  <1>2. ASSUME pc = "insert", Commit, UNCHANGED payload
        PROVE  LastHash' = Append(LastHash, payload)
    BY <1>0, <1>2, CommitFacts DEF PrevIsLast, Hash
  <1>3. CASE InsertRow
    <2>1. inserted + 1 # 0
      BY <1>0 DEF TypeOK
    <2> QED
      BY <1>2, <1>3, <2>1 DEF InsertRow, Ledger!Record
  <1>4. CASE Exec
    <2>1. inserted # 0
      BY <1>0, <1>4 DEF Exec, RowCommitted
    <2> QED  BY <1>4, <2>1, ChainUnchanged DEF Exec, Ledger!Return
  <1>5. CASE UNCHANGED <<rows, payload, pc, inserted, outcome>>
    BY <1>5, ChainUnchanged
  <1>6. CASE Watch \/ GetPointer \/ SelectLast \/ ExecWatchError \/ ExecFails
    BY <1>6, ChainUnchanged
       DEF Watch, GetPointer, SelectLast, ExecWatchError, ExecFails
  <1>7. CASE ReadFails \/ DatabaseFails \/ Invalidate
    BY <1>7, ChainUnchanged
       DEF ReadFails, DatabaseFails, Invalidate, Ledger!Raise
  <1>8. CASE Crash
    <2>1. CASE pc = "insert" /\ Commit
      BY <1>2, <1>8, <2>1 DEF Crash, Interrupted, Ledger!Record
    <2>2. CASE pc # "idle" /\ UNCHANGED rows
      BY <1>8, <2>2, ChainUnchanged DEF Crash, Interrupted, Ledger!Raise
    <2>3. CASE pc = "idle"
      BY <1>8, <2>3, ChainUnchanged DEF Crash, Interrupted
    <2> QED  BY <1>8, <2>1, <2>2, <2>3 DEF Crash, Interrupted
  <1> QED
    BY <1>1, <1>3, <1>4, <1>5, <1>6, <1>7, <1>8
       DEF Next, vars, Restart, PointerEvicted

(* Under every fault it handles, the writer implements the ledger its      *)
(* callers rely on: a call that returns was recorded, and the hash of the  *)
(* last row always commits to exactly the payloads recorded before it.     *)
THEOREM WriterImplementsLedger == Spec => LedgerSpec
  <1>1. Init => Ledger!Init
    BY DEF Init, Ledger!Init, LastHash, Genesis, CallPhase
  <1>2. WriterInv /\ [Next]_vars => [Ledger!Next]_(Ledger!ledgerVars)
    BY LedgerStep
  <1> QED
    BY <1>1, <1>2, WriterCorrect, PTL DEF Spec, LedgerSpec, Ledger!Spec

-----------------------------------------------------------------------------
(* A commit keeps every hash committed and adds that of its own row.       *)
LEMMA CommitGrows ==
  ASSUME TypeOK, Commit
  PROVE  \A h : Committed(h) \/ h = Hash(prev, payload) => Committed(h)'
  <1>1. /\ Len(rows) \in Nat /\ Len(rows') = Len(rows) + 1
        /\ rows'[Len(rows')] = NewRow
        /\ \A i \in 1..Len(rows) : rows'[i] = rows[i]
    BY CommitFacts, LenProperties DEF TypeOK
  <1>2. \A h : Committed(h) => Committed(h)'
    BY <1>1 DEF Committed
  <1>3. NewRow.curr = Hash(prev, payload)
    BY DEF NewRow
  <1>4. \E i \in 1..Len(rows') : rows'[i].curr = Hash(prev, payload)
    BY <1>1, <1>3
  <1> QED  BY <1>2, <1>4 DEF Committed

(* A row whose prev_hash is committed extends the tree.                    *)
LEMMA CommitRooted ==
  ASSUME TypeOK, ChainRooted, Commit, prev = Genesis \/ Committed(prev)
  PROVE  ChainRooted'
  <1> DEFINE n == Len(rows)
  <1>1. /\ n \in Nat /\ Len(rows') = n + 1
        /\ rows'[n + 1] = NewRow /\ NewRow.prev = prev
        /\ \A i \in 1..n : rows'[i] = rows[i]
    BY CommitFacts, LenProperties DEF TypeOK, NewRow
  <1> SUFFICES ASSUME NEW i \in 1..(n + 1), rows'[i].prev # Genesis
               PROVE  \E j \in 1..(i - 1) : rows'[j].curr = rows'[i].prev
    BY <1>1 DEF ChainRooted, Genesis
  <1>2. CASE i = n + 1
    BY <1>1, <1>2 DEF Committed
  <1>3. CASE i \in 1..n
    <2>1. PICK j \in 1..(i - 1) : rows[j].curr = rows[i].prev
      BY <1>1, <1>3 DEF ChainRooted
    <2> QED  BY <1>1, <1>3, <2>1
  <1> QED  BY <1>1, <1>2, <1>3

(* The hash read from PostgreSQL is genesis or committed.                  *)
LEMMA LastHashCommitted ==
  ASSUME TypeOK  PROVE LastHash = Genesis \/ Committed(LastHash)
  <1>1. CASE rows = << >>
    BY <1>1 DEF LastHash
  <1>2. CASE rows # << >>
    <2>1. Len(rows) \in 1..Len(rows)
      BY <1>2, EmptySeq DEF TypeOK
    <2> QED  BY <1>2, <2>1 DEF LastHash, Committed
  <1> QED  BY <1>1, <1>2

(* Nothing about the tree changes when the rows do not.                    *)
LEMMA RootedUnchanged ==
  ASSUME UNCHANGED rows
  PROVE  /\ ChainRooted => ChainRooted'
         /\ \A h : Committed(h)' <=> Committed(h)
  BY DEF ChainRooted, Committed, Genesis

(* The tree and the pointer into it are preserved by every step.           *)
LEMMA RootedStep ==
  ASSUME TypeOK', RootedInv, [LossyNext]_vars
  PROVE  RootedInv'
  <1> DEFINE ReadOK == /\ pc = "insert" => prev = Genesis \/ Committed(prev)
                       /\ pc = "exec" => Committed(Hash(prev, payload))
  <1>0. TypeOK /\ ChainRooted /\ PointerCommitted /\ ReadOK
    BY DEF RootedInv
  <1> SUFFICES ChainRooted' /\ PointerCommitted' /\ ReadOK'
    BY DEF RootedInv
  <1>1. CASE GetPointer
    BY <1>0, <1>1, RootedUnchanged DEF GetPointer, PointerCommitted, Genesis
  <1>2. CASE SelectLast
    BY <1>0, <1>2, RootedUnchanged, LastHashCommitted
       DEF SelectLast, PointerCommitted, Genesis
  <1>3. CASE InsertRow
    BY <1>0, <1>3, CommitRooted, CommitGrows DEF InsertRow, PointerCommitted, Hash
  <1>4. CASE InsertAckLost
    BY <1>0, <1>4, CommitRooted, CommitGrows
       DEF InsertAckLost, PointerCommitted
  <1>5. CASE UNCHANGED rows /\ pc' # "insert" /\ pc' # "exec"
             /\ pointer' \subseteq pointer \cup (IF pc = "exec" THEN {Hash(prev, payload)} ELSE {})
    BY <1>0, <1>5, RootedUnchanged DEF PointerCommitted
  <1>6. CASE UNCHANGED <<rows, pc, payload, prev>> /\ pointer' \subseteq pointer
    BY <1>0, <1>6, RootedUnchanged DEF PointerCommitted, Genesis, Hash
  <1>7. ASSUME Interrupted  PROVE ChainRooted' /\ PointerCommitted' /\ ReadOK'
    <2>1. CASE pc = "insert" /\ Commit /\ UNCHANGED pointer
      BY <1>0, <1>7, <2>1, CommitRooted, CommitGrows
         DEF Interrupted, PointerCommitted
    <2>2. CASE UNCHANGED rows
      BY <1>5, <1>7, <2>2 DEF Interrupted, PointerAfterUnknownExec
    <2> QED  BY <1>7, <2>1, <2>2 DEF Interrupted
  <1>8. CASE Cancel \/ Crash
    BY <1>7, <1>8 DEF Cancel, Crash
  <1>9. CASE Restart \/ PointerEvicted \/ UNCHANGED vars
    BY <1>6, <1>9 DEF Restart, PointerEvicted, vars
  <1>10. CASE Exec \/ ExecFails \/ ExecLinkLoss
    BY <1>5, <1>10 DEF Exec, ExecFails, ExecLinkLoss, PointerAfterUnknownExec
  <1>11. CASE Watch \/ ExecWatchError \/ ReadFails \/ DatabaseFails \/ Invalidate
    BY <1>5, <1>11 DEF Watch, ExecWatchError, ReadFails, DatabaseFails, Invalidate
  <1>12. ASSUME NEW e \in Payloads, StartWrite(e)
         PROVE  ChainRooted' /\ PointerCommitted' /\ ReadOK'
    BY <1>5, <1>12 DEF StartWrite
  <1> QED
    BY <1>1, <1>2, <1>3, <1>4, <1>8, <1>9, <1>10, <1>11, <1>12
       DEF LossyNext, Next, Forks

(* Under every fault at once, forks included, the audit log is one tree    *)
(* rooted in the genesis hash and the pointer names a committed row.       *)
THEOREM WriterRooted == LossySpec => []RootedInv
  <1>1. Init => RootedInv
    <2> SUFFICES ASSUME Init  PROVE RootedInv
      OBVIOUS
    <2>1. Len(rows) = 0 /\ pointer = {} /\ pc = "idle"
      BY EmptySeq DEF Init
    <2> QED  BY <2>1, InitTypes DEF RootedInv, ChainRooted, PointerCommitted
  <1>2. RootedInv /\ [LossyNext]_vars => RootedInv'
    BY RootedStep, TypeStep DEF RootedInv
  <1> QED  BY <1>1, <1>2, PTL DEF LossySpec

-----------------------------------------------------------------------------
(* Committed rows stay as they are, and there are no more than the bound.  *)
LEMMA RowsGrow ==
  ASSUME TypeOK, Len(rows) <= MaxRows, [LossyNext]_vars
  PROVE  /\ Len(rows) \in Nat /\ Len(rows') \in Nat
         /\ Len(rows) <= Len(rows') /\ Len(rows') <= MaxRows
         /\ \A i \in 1..Len(rows) : rows'[i] = rows[i]
  <1>1. CASE UNCHANGED rows
    BY <1>1 DEF TypeOK
  <1>2. CASE Commit
    <2>1. Len(rows) < MaxRows /\ Len(rows) \in Nat
      BY <1>2, LenProperties DEF Commit, TypeOK
    <2> QED  BY <1>2, <2>1, CommitFacts, MaxRowsAssumption
  <1>3. UNCHANGED rows \/ Commit
    BY DEF LossyNext, Next, Forks, StartWrite, Watch, GetPointer, SelectLast, InsertRow, Exec,
           ExecWatchError, ReadFails, ExecFails, Invalidate, ExecLinkLoss, DatabaseFails,
           InsertAckLost, Interrupted, Cancel, Crash, Restart, PointerEvicted, vars
  <1> QED  BY <1>1, <1>2, <1>3

(* Rows that were good, or broken, when they were committed stay so.       *)
LEMMA LinksKept ==
  ASSUME Len(rows) \in Nat, Len(rows') \in Nat, Len(rows) <= Len(rows'),
         \A i \in 1..Len(rows) : rows'[i] = rows[i]
  PROVE  /\ \A i \in 1..Len(rows) : LinkOK(i) => LinkOK(i)'
         /\ ~ChainLinear => ~ChainLinear'
  <1>1. \A i \in 1..Len(rows) : LinkOK(i)' <=> LinkOK(i)
    <2> SUFFICES ASSUME NEW i \in 1..Len(rows)  PROVE LinkOK(i)' <=> LinkOK(i)
      OBVIOUS
    <2>1. rows'[i] = rows[i] /\ (i # 1 => rows'[i - 1] = rows[i - 1])
      OBVIOUS
    <2> QED  BY <2>1 DEF LinkOK, Hash, Genesis
  <1>2. \A i \in 1..Len(rows) : i \in 1..Len(rows')
    OBVIOUS
  <1> QED  BY <1>1, <1>2 DEF ChainLinear

(* Rows up to n are committed and continue the chain.                      *)
GoodUpTo(n) == n \in 0..Len(rows) /\ \A i \in 1..n : LinkOK(i)

Passes == [Verifiers -> [at : {"idle", "scan", "save"}, from : 0..MaxRows, good : 0..MaxRows]]

(* A pass starts at a checkpoint, and ends at a row, that is good; a pass  *)
(* that rests holds row 0.                                                 *)
PassesInv ==
  /\ TypeOK /\ Len(rows) <= MaxRows
  /\ pass \in Passes /\ alarm \in BOOLEAN
  /\ GoodUpTo(checkpoint)
  /\ \A v \in Verifiers : GoodUpTo(pass[v].from) /\ GoodUpTo(pass[v].good)
  /\ alarm => ~ChainLinear

(* The writer, at its worst, only adds rows.                               *)
LEMMA WriterKeepsPasses ==
  ASSUME PassesInv, [LossyNext]_vars, UNCHANGED verifierVars  PROVE PassesInv'
  <1>1. TypeOK'
    BY TypeStep DEF PassesInv
  <1>2. /\ Len(rows) \in Nat /\ Len(rows') \in Nat
        /\ Len(rows) <= Len(rows') /\ Len(rows') <= MaxRows
        /\ \A i \in 1..Len(rows) : rows'[i] = rows[i]
    BY RowsGrow DEF PassesInv
  <1>3. /\ \A i \in 1..Len(rows) : LinkOK(i) => LinkOK(i)'
        /\ ~ChainLinear => ~ChainLinear'
    BY <1>2, LinksKept
  <1>4. ASSUME NEW n, GoodUpTo(n)
        PROVE  n \in 0..Len(rows') /\ \A i \in 1..n : LinkOK(i)'
    BY <1>2, <1>3, <1>4 DEF GoodUpTo
  <1>5. GoodUpTo(checkpoint)'
    BY <1>4 DEF PassesInv, verifierVars, GoodUpTo
  <1>6. \A v \in Verifiers : GoodUpTo(pass[v].from)' /\ GoodUpTo(pass[v].good)'
    BY <1>4 DEF PassesInv, verifierVars, GoodUpTo
  <1> QED  BY <1>1, <1>2, <1>3, <1>5, <1>6 DEF PassesInv, verifierVars

(* What a scan from a good row finds: the last row before a break.         *)
LEMMA ScanFinds ==
  ASSUME Len(rows) \in Nat, NEW from, GoodUpTo(from), NEW last \in GoodFrom(from),
         \A k \in GoodFrom(from) : k <= last
  PROVE  GoodUpTo(last) /\ (last < Len(rows) => ~ChainLinear)
  <1>1. last \in from..Len(rows) /\ \A i \in (from + 1)..last : Verifies(from, i)
    BY DEF GoodFrom
  <1>2. \A i : Verifies(from, i) <=> LinkOK(i)
    BY DEF Verifies, LinkOK
  <1>3. \A i \in 1..last : LinkOK(i)
    BY <1>1, <1>2 DEF GoodUpTo
  <1>4. ASSUME last < Len(rows), ChainLinear  PROVE FALSE
    <2>1. LinkOK(last + 1)
      BY <1>1, <1>4 DEF ChainLinear, GoodUpTo
    <2>2. \A i \in (from + 1)..(last + 1) : i \in (from + 1)..last \/ i = last + 1
      BY <1>1 DEF GoodUpTo
    <2>3. last + 1 \in GoodFrom(from)
      BY <1>1, <1>2, <1>4, <2>1, <2>2 DEF GoodFrom, GoodUpTo
    <2> QED  BY <1>1, <2>3 DEF GoodUpTo
  <1> QED  BY <1>1, <1>3, <1>4 DEF GoodUpTo

(* A step of a pass saves, reads or reports what is so.                    *)
LEMMA PassKeepsPasses ==
  ASSUME PassesInv, NEW v \in Verifiers, VerifierStep(v) \/ AbortPass(v), UNCHANGED vars
  PROVE  PassesInv'
  <1>1. TypeOK' /\ UNCHANGED rows
    BY DEF PassesInv, vars, TypeOK
  <1>2. \A n : GoodUpTo(n)' <=> GoodUpTo(n)
    BY <1>1 DEF GoodUpTo, LinkOK, Hash, Genesis
  <1>3. ChainLinear' <=> ChainLinear
    BY <1>1 DEF ChainLinear, LinkOK, Hash, Genesis
  <1>4. Len(rows) \in Nat
    BY LenProperties DEF PassesInv, TypeOK
  <1>5. \A n : GoodUpTo(n) => n \in 0..MaxRows
    BY <1>4, MaxRowsAssumption DEF GoodUpTo, PassesInv
  <1>6. GoodUpTo(0)
    BY <1>4 DEF GoodUpTo
  <1>7. ASSUME NEW p \in [at : {"idle", "scan", "save"}, from : 0..MaxRows, good : 0..MaxRows],
               pass' = [pass EXCEPT ![v] = p], GoodUpTo(p.from), GoodUpTo(p.good)
        PROVE  /\ pass' \in Passes
               /\ \A w \in Verifiers : GoodUpTo(pass'[w].from) /\ GoodUpTo(pass'[w].good)
    BY <1>7 DEF PassesInv, Passes
  <1>8. Resting \in [at : {"idle", "scan", "save"}, from : 0..MaxRows, good : 0..MaxRows]
        /\ GoodUpTo(Resting.from) /\ GoodUpTo(Resting.good)
    BY <1>5, <1>6 DEF Resting
  <1>9. CASE ReadCheckpoint(v)
    <2> DEFINE p == [at |-> "scan", from |-> checkpoint, good |-> checkpoint]
    <2>1. p \in [at : {"idle", "scan", "save"}, from : 0..MaxRows, good : 0..MaxRows]
          /\ GoodUpTo(p.from) /\ GoodUpTo(p.good)
      BY <1>5 DEF PassesInv
    <2>2. pass' = [pass EXCEPT ![v] = p] /\ UNCHANGED <<checkpoint, alarm>>
      BY <1>9 DEF ReadCheckpoint
    <2> QED  BY <1>1, <1>2, <1>3, <1>7, <2>1, <2>2 DEF PassesInv
  <1>10. CASE Scan(v)
    <2>1. PICK last \in GoodFrom(pass[v].from) :
            /\ \A k \in GoodFrom(pass[v].from) : k <= last
            /\ pass' = [pass EXCEPT ![v].at = "save", ![v].good = last]
            /\ alarm' = (alarm \/ last < Len(rows))
            /\ UNCHANGED checkpoint
      BY <1>10 DEF Scan
    <2>2. GoodUpTo(last) /\ (last < Len(rows) => ~ChainLinear)
      BY <1>4, <2>1, ScanFinds DEF PassesInv
    <2> DEFINE p == [pass[v] EXCEPT !.at = "save", !.good = last]
    <2>3. p \in [at : {"idle", "scan", "save"}, from : 0..MaxRows, good : 0..MaxRows]
          /\ p.from = pass[v].from /\ p.good = last /\ pass' = [pass EXCEPT ![v] = p]
      BY <1>5, <2>1, <2>2 DEF PassesInv, Passes
    <2>4. GoodUpTo(p.from) /\ GoodUpTo(p.good)
      BY <2>2, <2>3 DEF PassesInv
    <2> HIDE DEF p
    <2>5. /\ pass' \in Passes
          /\ \A w \in Verifiers : GoodUpTo(pass'[w].from) /\ GoodUpTo(pass'[w].good)
      BY <1>7, <2>3, <2>4
    <2>6. alarm' \in BOOLEAN /\ (alarm' => ~ChainLinear)
      BY <2>1, <2>2 DEF PassesInv
    <2> QED  BY <1>1, <1>2, <1>3, <2>1, <2>5, <2>6 DEF PassesInv
  <1>11. CASE Save(v)
    <2>1. /\ checkpoint' \in {checkpoint, pass[v].good}
          /\ pass' = [pass EXCEPT ![v] = Resting] /\ UNCHANGED alarm
      BY <1>11 DEF Save
    <2>2. GoodUpTo(checkpoint')
      BY <2>1 DEF PassesInv
    <2> QED  BY <1>1, <1>2, <1>3, <1>7, <1>8, <2>1, <2>2 DEF PassesInv
  <1>12. CASE AbortPass(v)
    <2>1. pass' = [pass EXCEPT ![v] = Resting] /\ UNCHANGED <<checkpoint, alarm>>
      BY <1>12 DEF AbortPass
    <2> QED  BY <1>1, <1>2, <1>3, <1>7, <1>8, <2>1 DEF PassesInv
  <1> QED  BY <1>9, <1>10, <1>11, <1>12 DEF VerifierStep

(* The passes invariant holds next to a writer under every fault.          *)
LEMMA PassesInvariant == VerifierSpec => []PassesInv
  <1>1. VerifierInit => PassesInv
    <2> SUFFICES ASSUME VerifierInit  PROVE PassesInv
      OBVIOUS
    <2>1. Len(rows) = 0 /\ TypeOK /\ checkpoint = 0 /\ alarm = FALSE
      BY InitTypes, EmptySeq DEF VerifierInit, Init
    <2>2. pass = [v \in Verifiers |-> Resting]
      BY DEF VerifierInit
    <2>3. \A v \in Verifiers : pass[v] = Resting
      BY <2>2
    <2>4. pass \in Passes
      BY <2>2, MaxRowsAssumption DEF Passes, Resting
    <2>5. GoodUpTo(0)
      BY <2>1 DEF GoodUpTo
    <2>6. Resting.from = 0 /\ Resting.good = 0
      BY DEF Resting
    <2>7. \A v \in Verifiers : GoodUpTo(pass[v].from) /\ GoodUpTo(pass[v].good)
      BY <2>3, <2>5, <2>6
    <2>8. Len(rows) <= MaxRows
      BY <2>1, MaxRowsAssumption
    <2> QED  BY <2>1, <2>4, <2>5, <2>7, <2>8 DEF PassesInv
  <1>2. PassesInv /\ [VerifierNext]_allVars => PassesInv'
    <2>1. ASSUME PassesInv, LossyNext, UNCHANGED verifierVars  PROVE PassesInv'
      BY <2>1, WriterKeepsPasses
    <2>2. ASSUME PassesInv, NEW v \in Verifiers, VerifierStep(v) \/ AbortPass(v), UNCHANGED vars
          PROVE  PassesInv'
      BY <2>2, PassKeepsPasses
    <2>3. ASSUME PassesInv, UNCHANGED allVars  PROVE PassesInv'
      BY <2>3, WriterKeepsPasses DEF allVars
    <2> QED  BY <2>1, <2>2, <2>3 DEF VerifierNext
  <1> QED  BY <1>1, <1>2, PTL DEF VerifierSpec

(* However passes interleave with a writer that may fork the chain, and    *)
(* wherever they are killed, the checkpoint never passes a break: save     *)
(* only stores what a scan from a good anchor verified.                    *)
THEOREM CheckpointNeverPassesBreak == VerifierSpec => []CheckpointSound
  <1>1. PassesInv => CheckpointSound
    <2> SUFFICES ASSUME PassesInv  PROVE CheckpointSound
      OBVIOUS
    <2>1. Len(rows) \in Nat
      BY LenProperties DEF PassesInv, TypeOK
    <2>2. checkpoint \in 0..MaxRows /\ \A i \in 1..checkpoint : LinkOK(i)
      BY <2>1, MaxRowsAssumption DEF PassesInv, GoodUpTo
    <2> QED  BY <2>2 DEF PassesInv, Passes, CheckpointSound, VerifierTypeOK
  <1> QED  BY <1>1, PassesInvariant, PTL

(* The verifier never cries wolf: a scan stops before the end of its       *)
(* snapshot only at a row that breaks the chain.                           *)
THEOREM AlarmsTrue == VerifierSpec => []NoFalseAlarm
  <1>1. PassesInv => NoFalseAlarm
    BY DEF PassesInv, NoFalseAlarm
  <1> QED  BY <1>1, PassesInvariant, PTL
=============================================================================
