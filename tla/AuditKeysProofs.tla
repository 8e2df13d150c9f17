--------------------------- MODULE AuditKeysProofs ---------------------------
(***************************************************************************)
(* Proofs about AuditKeys, under every set of faults and for any bounds.   *)
(***************************************************************************)
EXTENDS AuditKeys, FiniteSetTheorems, WellFoundedInduction, TLAPS

RowOf == [seq : 1..MaxSeq, key : Keys \cup {NoKey}, signer : Keys, new : Keys \cup {NoKey}]

(* The keys that some rotation on record hands over to, and what a reader  *)
(* for the newest key passes over.                                         *)
HandedKeys == {rows[i].new : i \in 1..Len(rows)}
Overlooked == unnoticed \cup {NoKey}

(* k is the key of the last row of c whose key is not in S, or the first   *)
(* key if there is none.                                                   *)
Latest(c, S, k) ==
  /\ \A i \in 1..Len(c) :
       c[i].new \notin S /\ (\A j \in (i + 1)..Len(c) : c[j].new \in S) => c[i].new = k
  /\ (\A i \in 1..Len(c) : c[i].new \in S) => k = 1

(* The types that the arguments below need.                                *)
Shapes ==
  /\ private \in Keys /\ public \subseteq Keys /\ signing \in Keys /\ generated \in Keys
  /\ nextSeq \in 1..(MaxSeq + 1) /\ rows \in Seq(RowOf)
  /\ journal \subseteq [new : Keys, phase : {"prepared", "handoff", "promoted"}]
  /\ at \in {"down", "initialize", "backfill", "idle", "publish", "stage", "journal", "write",
             "handoff", "replace", "promoted", "swap", "unlink", "close"}
  /\ unnoticed \subseteq Keys /\ repeated \subseteq Keys

(* A rotation that is not written again has one row; a row with a key id   *)
(* was signed by that key, which is archived.                              *)
Ledger ==
  /\ \A i \in 1..Len(rows) : rows[i].new # NoKey => rows[i].new \in public /\ rows[i].new <= generated
  /\ \A i, j \in 1..Len(rows) :
       rows[i].new = rows[j].new /\ rows[i].new \notin repeated \cup {NoKey} => i = j
  /\ \A k \in unnoticed : k <= generated
  /\ \A i \in 1..Len(rows) :
       rows[i].key # NoKey => rows[i].signer = rows[i].key /\ rows[i].key \in public
  /\ serving => \A i \in 1..Len(rows) : rows[i].key # NoKey

(* A journaled rotation has no row, or one that was not noticed and leaves *)
(* the private key the newest, or one that is the newest and whose key is  *)
(* private or staged.                                                      *)
Unwritten(new) == new \notin HandedKeys /\ Latest(rows, Overlooked, private)
Missed(new) ==
  /\ new \in HandedKeys /\ new \in unnoticed
  /\ Latest(rows, Overlooked \ {new}, new) /\ Latest(rows, Overlooked, private)
Handed(new) ==
  /\ new \in HandedKeys /\ new \notin unnoticed
  /\ Latest(rows, Overlooked, new) /\ (private = new \/ pending = {new})

(* What survives a crash.                                                  *)
Durable ==
  /\ \A e, f \in journal : e = f
  /\ journal = {} => Latest(rows, Overlooked, private)
  /\ \A e \in journal : e.new <= generated /\ (Unwritten(e.new) \/ Missed(e.new) \/ Handed(e.new))

(* Where rotate, recovery and startup are, and what holds there.           *)
Control ==
  /\ serving => at \notin {"down", "initialize", "backfill"}
  /\ ~serving => at \in {"down", "initialize", "backfill", "replace", "promoted", "unlink", "close"}
  /\ at \in {"publish", "stage", "journal", "initialize", "backfill"} => journal = {}
  /\ at \in {"stage", "journal"} => generated \notin HandedKeys
  /\ at \in {"stage", "journal", "write"} => generated \in public /\ generated \notin unnoticed
  /\ at \in {"journal", "write"} => pending = {generated}
  /\ at = "write" =>
       /\ journal = {[new |-> generated, phase |-> "prepared"]}
       /\ Latest(rows, Overlooked \cup {generated}, private)
       /\ generated \in HandedKeys => generated \in repeated
  /\ at \in {"handoff", "replace"} => \E e \in journal : Handed(e.new) /\ pending = {e.new}
  /\ at \in {"promoted", "swap"} => \E e \in journal : Handed(e.new) /\ private = e.new
  /\ at \in {"unlink", "close"} => Latest(rows, Overlooked, private)
  /\ serving /\ available /\ at \notin {"handoff", "replace", "promoted", "swap"} =>
       signing = private /\ (at # "write" => Latest(rows, Overlooked, private))
  /\ serving \/ at = "backfill" => private \in public /\ signing \in public
  /\ at = "backfill" => signing = private

(* The rest of the types: one staged key, the flags and the counters.      *)
Flags ==
  /\ pending \subseteq Keys /\ \A p, q \in pending : p = q
  /\ available \in BOOLEAN /\ serving \in BOOLEAN /\ crashes \in 0..MaxCrashes
  /\ writing \in {"idle", "waiting", "insert"}

ExportOf ==
  [at : {"idle", "stream", "done"}, from : Nat, to : Nat, keys : SUBSET Keys,
   lines : Seq(RowOf)]

(* An export reads below the next number only, and what its manifest was   *)
(* computed from is what it will stream.                                   *)
Exports ==
  /\ \A i \in 1..Len(rows) : rows[i].seq < nextSeq
  /\ export \in ExportOf
  /\ ~serving => export.at = "idle"
  /\ export.at = "stream" => export.to < nextSeq
  /\ export.at = "stream" =>
       VerifyFile([export EXCEPT !.lines = Within(export.from, export.to)])
  /\ export.at = "done" => VerifyFile(export)

(* The inductive invariant.                                                *)
KeysInv == Shapes /\ Ledger /\ Durable /\ Control /\ Flags /\ Exports

-----------------------------------------------------------------------------
(* A set of numbers up to n has a least and a greatest element.            *)
LEMMA Extremes ==
  ASSUME NEW n \in Nat, NEW S, S \subseteq 1..n, S # {}
  PROVE  Min(S) \in S /\ Max(S) \in S /\ \A i \in S : i <= Max(S)
  <1>0. S \subseteq Nat /\ \A i \in S : i \in Nat /\ n - i \in Nat
    OBVIOUS
  <1>1. ASSUME NEW T, T \subseteq Nat, T # {}
        PROVE  \E x \in T : \A y \in T : x <= y
    <2>1. PICK x \in T : \A y \in T : <<y, x>> \notin OpToRel(<, Nat)
      BY <1>1, NatLessThanWellFounded, WFMin
    <2>2. \A y \in T : ~(y < x)
      BY <1>1, <2>1 DEF OpToRel
    <2> QED  BY <1>1, <2>2
  <1>2. Min(S) \in S
    <2>1. \E x \in S : \A y \in S : x <= y
      BY <1>0, <1>1
    <2> QED  BY <2>1 DEF Min
  <1>3. Max(S) \in S /\ \A i \in S : i <= Max(S)
    <2> DEFINE T == {n - i : i \in S}
    <2>1. T \subseteq Nat /\ T # {} /\ \A i \in S : n - i \in T
      BY <1>0
    <2>2. PICK x \in T : \A y \in T : x <= y
      BY <1>1, <2>1
    <2>3. PICK m \in S : x = n - m
      OBVIOUS
    <2> HIDE DEF T
    <2>4. \A i \in S : n - m <= n - i
      BY <2>1, <2>2, <2>3
    <2>5. \A i \in S : m >= i
      BY <1>0, <2>4
    <2>6. Max(S) \in S /\ \A i \in S : Max(S) >= i
      BY <2>5 DEF Max
    <2> QED  BY <1>0, <2>6
  <1> QED  BY <1>2, <1>3

(* Rows that name the same keys have the same latest key.                  *)
LEMMA SameLatest ==
  ASSUME NEW c, NEW d, NEW S, NEW T, NEW k, Latest(c, S, k), Len(c) \in Nat, Len(d) = Len(c),
         \A i \in 1..Len(c) : d[i].new = c[i].new /\ (c[i].new \in S <=> c[i].new \in T)
  PROVE  Latest(d, T, k)
  <1>1. ASSUME NEW i \in 1..Len(d), d[i].new \notin T, \A j \in (i + 1)..Len(d) : d[j].new \in T
        PROVE  d[i].new = k
    <2>1. \A j \in (i + 1)..Len(c) : j \in 1..Len(c)
      OBVIOUS
    <2>2. \A j \in (i + 1)..Len(c) : c[j].new \in S
      BY <1>1, <2>1
    <2> QED  BY <1>1, <2>2 DEF Latest
  <1>2. ASSUME \A i \in 1..Len(d) : d[i].new \in T  PROVE k = 1
    BY <1>2 DEF Latest
  <1> QED  BY <1>1, <1>2 DEF Latest

(* A key without rows may be passed over, or not.                          *)
LEMMA AbsentKey ==
  ASSUME Shapes, NEW new, new \notin HandedKeys, NEW S, NEW k
  PROVE  /\ Latest(rows, S, k) => Latest(rows, S \cup {new}, k) /\ Latest(rows, S \ {new}, k)
         /\ Latest(rows, S \cup {new}, k) => Latest(rows, S, k)
  <1>1. Len(rows) \in Nat /\ \A i \in 1..Len(rows) : rows[i].new # new
    BY DEF Shapes, HandedKeys
  <1>2. \A i \in 1..Len(rows) : /\ rows[i].new \in S <=> rows[i].new \in S \cup {new}
                                /\ rows[i].new \in S <=> rows[i].new \in S \ {new}
    BY <1>1
  <1>3. Latest(rows, S, k) => Latest(rows, S \cup {new}, k)
    BY <1>1, <1>2, SameLatest
  <1>4. Latest(rows, S, k) => Latest(rows, S \ {new}, k)
    BY <1>1, <1>2, SameLatest
  <1>5. Latest(rows, S \cup {new}, k) => Latest(rows, S, k)
    BY <1>1, <1>2, SameLatest
  <1> QED  BY <1>3, <1>4, <1>5

(* What one more row changes.                                              *)
LEMMA AddedRow ==
  ASSUME Shapes, NEW row \in RowOf, rows' = Append(rows, row)
  PROVE  /\ Len(rows') = Len(rows) + 1 /\ rows' \in Seq(RowOf)
         /\ rows'[Len(rows) + 1] = row /\ \A i \in 1..Len(rows) : rows'[i] = rows[i]
         /\ HandedKeys' = HandedKeys \cup {row.new}
         /\ \A S, k : row.new \in S /\ Latest(rows, S, k) => Latest(rows', S, k)
         /\ \A S : row.new \notin S => Latest(rows', S, row.new)
  <1> DEFINE d == rows'
             c == rows
  <1>1. /\ Len(c) \in Nat /\ Len(d) = Len(c) + 1 /\ d \in Seq(RowOf)
        /\ d[Len(c) + 1] = row /\ \A i \in 1..Len(c) : d[i] = c[i]
    BY DEF Shapes
  <1>2. HandedKeys' = HandedKeys \cup {row.new}
    BY <1>1 DEF HandedKeys
  <1> HIDE DEF c, d
  <1>3. \A i \in 1..Len(d) : i \in 1..Len(c) \/ i = Len(d)
    BY <1>1
  <1>4. \A i \in 1..Len(c) : i \in 1..Len(d)
    BY <1>1
  <1>5. Len(d) \in 1..Len(d) /\ d[Len(d)] = row
    BY <1>1
  <1>6. ASSUME NEW S, NEW k, row.new \in S, Latest(c, S, k)  PROVE Latest(d, S, k)
    <2>1. ASSUME NEW i \in 1..Len(d), d[i].new \notin S, \A j \in (i + 1)..Len(d) : d[j].new \in S
          PROVE  d[i].new = k
      <3>1. i \in 1..Len(c)
        BY <1>3, <1>5, <1>6, <2>1
      <3>2. \A j \in (i + 1)..Len(c) : j \in (i + 1)..Len(d) /\ j \in 1..Len(c)
        BY <1>1, <3>1
      <3>3. \A j \in (i + 1)..Len(c) : c[j].new \in S
        BY <1>1, <2>1, <3>2
      <3> QED  BY <1>1, <1>6, <2>1, <3>1, <3>3 DEF Latest
    <2>2. ASSUME \A i \in 1..Len(d) : d[i].new \in S  PROVE k = 1
      <3>1. \A i \in 1..Len(c) : c[i].new \in S
        BY <1>1, <1>4, <2>2
      <3> QED  BY <1>6, <3>1 DEF Latest
    <2> QED  BY <2>1, <2>2 DEF Latest
  <1>7. ASSUME NEW S, row.new \notin S  PROVE Latest(d, S, row.new)
    <2>1. ASSUME NEW i \in 1..Len(d), \A j \in (i + 1)..Len(d) : d[j].new \in S
          PROVE  d[i].new = row.new
      <3>1. CASE i \in 1..Len(c)
        <4>1. Len(d) \in (i + 1)..Len(d)
          BY <1>1, <3>1
        <4> QED  BY <1>5, <1>7, <2>1, <4>1
      <3> QED  BY <1>3, <1>5, <3>1
    <2>2. ~ \A i \in 1..Len(d) : d[i].new \in S
      BY <1>5, <1>7
    <2> QED  BY <2>1, <2>2 DEF Latest
  <1> QED  BY <1>1, <1>2, <1>6, <1>7 DEF c, d

(* The greatest element of a set of numbers is the one CHOOSE finds.       *)
LEMMA Greatest ==
  ASSUME NEW S, S \subseteq Nat, NEW i \in S, \A j \in S : j <= i
  PROVE  (CHOOSE k \in S : \A j \in S : j <= k) = i
  <1> DEFINE top == CHOOSE k \in S : \A j \in S : j <= k
  <1>1. \E k \in S : \A j \in S : j <= k
    OBVIOUS
  <1>2. top \in S /\ \A j \in S : j <= top
    BY <1>1
  <1> HIDE DEF top
  <1>3. top = i
    BY <1>2
  <1> QED  BY <1>3 DEF top

(* The latest key that is not passed over is the newest one.               *)
LEMMA LatestIsNewest ==
  ASSUME Shapes, NEW k, Latest(rows, Overlooked, k)
  PROVE  NewestKey = k
  <1>1. Len(rows) \in Nat /\ Rotations \subseteq 1..Len(rows)
    BY DEF Shapes, Rotations
  <1>2. \A i \in 1..Len(rows) : i \in Rotations <=> rows[i].new \notin Overlooked
    BY DEF Rotations, Overlooked
  <1>3. CASE Rotations = {}
    BY <1>2, <1>3 DEF NewestKey, Latest
  <1>4. CASE Rotations # {}
    <2>1. PICK m \in Rotations : \A i \in Rotations : i <= m
      BY <1>1, <1>4, Extremes
    <2>2. m \in 1..Len(rows) /\ \A j \in (m + 1)..Len(rows) : j \in 1..Len(rows) /\ j \notin Rotations
      BY <1>1, <2>1
    <2>3. rows[m].new = k
      BY <1>2, <2>1, <2>2 DEF Latest
    <2>4. (CHOOSE i \in Rotations : \A j \in Rotations : j <= i) = m
      <3>1. Rotations \subseteq Nat
        BY <1>1
      <3> QED  BY <2>1, <3>1, Greatest
    <2> QED  BY <1>4, <2>3, <2>4 DEF NewestKey
  <1> QED  BY <1>3, <1>4

(* Keys are numbers.                                                       *)
LEMMA Numbers ==
  /\ Keys \subseteq Nat /\ Keys \cup {NoKey} \subseteq Nat /\ NoKey = 0 /\ NoKey \notin Keys /\ 1 \in Keys
  /\ \A k \in Keys : k >= 1 /\ (k < MaxKeys => k + 1 \in Keys)
  BY KeysAssumption DEF Keys, NoKey

(* So is what the rows of rotations name.                                  *)
LEMMA RowFacts ==
  ASSUME Shapes
  PROVE  generated \in Nat /\ \A i \in 1..Len(rows) : rows[i].new \in Nat
  <1>1. \A i \in 1..Len(rows) : rows[i] \in RowOf
    BY DEF Shapes
  <1>2. \A i \in 1..Len(rows) : rows[i].new \in Keys \cup {NoKey}
    BY <1>1 DEF RowOf
  <1>3. Keys \cup {NoKey} \subseteq Nat
    BY Numbers
  <1> QED  BY <1>2, <1>3 DEF Shapes

(* A row that is inserted is signed by the key in memory.                  *)
LEMMA Inserted ==
  ASSUME Shapes, NEW new \in Keys \cup {NoKey}, Insert(new)
  PROVE  /\ nextSeq' \in 1..(MaxSeq + 1) /\ rows' \in Seq(RowOf)
         /\ \E row \in RowOf : /\ rows' = Append(rows, row) /\ row.new = new
                                /\ row.key = signing /\ row.signer = signing
  <1> DEFINE row == [seq |-> nextSeq, key |-> signing, signer |-> signing, new |-> new]
  <1>1. row \in RowOf /\ row.new = new /\ row.key = signing /\ row.signer = signing
    BY KeysAssumption DEF RowOf, Shapes, Insert
  <1> QED  BY <1>1, KeysAssumption DEF Insert, Shapes

(* The backfill touches nothing but the key ids that were missing.         *)
LEMMA Backfilled ==
  ASSUME Shapes, Backfill
  PROVE  /\ Len(rows') = Len(rows) /\ rows' \in Seq(RowOf)
         /\ \A i \in 1..Len(rows) :
              /\ rows'[i].seq = rows[i].seq
              /\ rows'[i].new = rows[i].new /\ rows'[i].signer = rows[i].signer
              /\ rows'[i].key = (IF rows[i].key = NoKey THEN signing ELSE rows[i].key)
  <1> DEFINE filled(i) == [rows[i] EXCEPT !.key = IF @ = NoKey THEN signing ELSE @]
  <1>1. Len(rows) \in Nat /\ \A i \in 1..Len(rows) : rows[i] \in RowOf
    BY DEF Shapes
  <1>2. \A i \in 1..Len(rows) :
          /\ filled(i) \in RowOf /\ filled(i).seq = rows[i].seq
          /\ filled(i).new = rows[i].new /\ filled(i).signer = rows[i].signer
          /\ filled(i).key = (IF rows[i].key = NoKey THEN signing ELSE rows[i].key)
    BY <1>1 DEF RowOf, Shapes
  <1>3. CASE \E i \in 1..Len(rows) : rows[i].key = NoKey
    <2>1. rows' = [i \in 1..Len(rows) |-> filled(i)]
      BY <1>3 DEF Backfill
    <2> HIDE DEF filled
    <2>2. rows' \in Seq(RowOf) /\ Len(rows') = Len(rows)
      BY <1>1, <1>2, <2>1
    <2> QED  BY <1>2, <2>1, <2>2
  <1>4. CASE \A i \in 1..Len(rows) : rows[i].key # NoKey
    BY <1>1, <1>4 DEF Backfill, Shapes
  <1> QED  BY <1>3, <1>4

(* A phase that is written leaves the rotation of the journal.             *)
LEMMA PhaseFacts ==
  ASSUME Shapes, NEW step, NEW phase, NEW next, Phase(step, phase, next)
  PROVE  /\ \A e \in journal' : \E f \in journal : e.new = f.new
         /\ \A f \in journal : \E e \in journal' : e.new = f.new
         /\ (\A e, f \in journal : e = f) => \A e, f \in journal' : e = f
  <1>1. \A f \in journal : [f EXCEPT !.phase = phase].new = f.new
    BY DEF Shapes
  <1>2. journal' = {[f EXCEPT !.phase = phase] : f \in journal}
    BY DEF Phase
  <1> QED  BY <1>1, <1>2

-----------------------------------------------------------------------------
-----------------------------------------------------------------------------
(* No step takes a variable out of its type.                               *)
LEMMA ShapesStep ==
  ASSUME Shapes, Control, [Next]_vars  PROVE Shapes'
  <1> USE DEF files, memory, chain, history, Goto, InsertFails, LoopRuns
  <1> USE Numbers, KeysAssumption DEF Shapes
  <1>1. ASSUME BeginWrite  PROVE Shapes'
    BY <1>1 DEF BeginWrite
  <1>2. ASSUME Lock  PROVE Shapes'
    BY <1>2 DEF Lock
  <1>3. ASSUME Write  PROVE Shapes'
    <2>1. CASE Insert(NoKey)
      BY <1>3, <2>1, Inserted DEF Write
    <2>2. CASE InsertFails
      BY <1>3, <2>2 DEF Write
    <2> QED  BY <1>3, <2>1, <2>2 DEF Write
  <1>4. ASSUME Rotate  PROVE Shapes'
    BY <1>4 DEF Rotate
  <1>5. ASSUME Publish  PROVE Shapes'
    BY <1>5 DEF Publish
  <1>6. ASSUME Stage  PROVE Shapes'
    BY <1>6 DEF Stage
  <1>7. ASSUME StageJournal  PROVE Shapes'
    BY <1>7 DEF StageJournal
  <1>8. ASSUME Handoff  PROVE Shapes'
    BY <1>8, Inserted DEF Handoff
  <1>9. ASSUME HandoffFails  PROVE Shapes'
    <2>1. nextSeq' \in 1..(MaxSeq + 1) /\ rows' \in Seq(RowOf)
      <3>1. CASE Insert(generated)
        BY <3>1, Inserted
      <3>2. CASE InsertFails
        BY <3>2
      <3> QED  BY <1>9, <3>1, <3>2 DEF HandoffFails
    <2> QED  BY <1>9, <2>1 DEF HandoffFails
  <1>10. ASSUME MarkHandoff  PROVE Shapes'
    BY <1>10 DEF MarkHandoff, Phase
  <1>11. ASSUME Replace  PROVE Shapes'
    <2>1. private' \in Keys
      BY <1>11 DEF Replace, Control
    <2> QED  BY <1>11, <2>1 DEF Replace
  <1>12. ASSUME JournalPromoted  PROVE Shapes'
    BY <1>12 DEF JournalPromoted, Phase
  <1>13. ASSUME SwapKey  PROVE Shapes'
    BY <1>13 DEF SwapKey
  <1>14. ASSUME Unlink  PROVE Shapes'
    BY <1>14 DEF Unlink
  <1>15. ASSUME Close  PROVE Shapes'
    BY <1>15 DEF Close
  <1>16. ASSUME FileFails  PROVE Shapes'
    BY <1>16 DEF FileFails
  <1>17. ASSUME Crash  PROVE Shapes'
    BY <1>17 DEF Crash
  <1>18. ASSUME OperatorRestart  PROVE Shapes'
    BY <1>18 DEF OperatorRestart
  <1>19. ASSUME Recover  PROVE Shapes'
    BY <1>19 DEF Recover
  <1>20. ASSUME Initialize  PROVE Shapes'
    BY <1>20 DEF Initialize
  <1>21. ASSUME Backfill  PROVE Shapes'
    BY <1>21, Backfilled DEF Backfill
  <1>22. ASSUME HandoffRepeats  PROVE Shapes'
    BY <1>22, Inserted DEF HandoffRepeats
  <1>23. ASSUME ExportManifest  PROVE Shapes'
    BY <1>23 DEF ExportManifest
  <1>24. ASSUME ExportStream  PROVE Shapes'
    BY <1>24 DEF ExportStream
  <1>25. ASSUME ExportTaken  PROVE Shapes'
    BY <1>25 DEF ExportTaken
  <1>26. ASSUME UNCHANGED vars  PROVE Shapes'
    BY <1>26 DEF vars
  <1> QED  BY <1>1, <1>2, <1>3, <1>4, <1>5, <1>6, <1>7, <1>8, <1>9, <1>10,
              <1>11, <1>12, <1>13, <1>14, <1>15, <1>16, <1>17, <1>18, <1>19, <1>20,
              <1>21, <1>22, <1>23, <1>24, <1>25, <1>26
           DEF Next, RotationStep, StartupStep

-----------------------------------------------------------------------------
(* A step that adds no row leaves the ledger sound.                        *)
LEMMA LedgerKept ==
  ASSUME Shapes, Ledger, UNCHANGED rows, public \subseteq public', repeated \subseteq repeated',
         unnoticed' \subseteq unnoticed \cup {generated},
         generated' \in Nat, generated <= generated', serving' => serving
  PROVE  Ledger'
  <1>1. generated \in Nat /\ unnoticed \subseteq Nat /\ \A i \in 1..Len(rows) : rows[i].new \in Nat
    BY RowFacts, Numbers DEF Shapes
  <1>2. \A i \in 1..Len(rows) :
          rows[i].new # NoKey => rows[i].new \in public' /\ rows[i].new <= generated'
    BY <1>1 DEF Ledger
  <1>3. \A k \in unnoticed' : k <= generated'
    BY <1>1 DEF Ledger
  <1>4. \A i, j \in 1..Len(rows) :
          rows[i].new = rows[j].new /\ rows[i].new \notin repeated' \cup {NoKey} => i = j
    BY DEF Ledger
  <1>5. \A i \in 1..Len(rows) :
          rows[i].key # NoKey => rows[i].signer = rows[i].key /\ rows[i].key \in public'
    BY DEF Ledger
  <1>6. serving' => \A i \in 1..Len(rows) : rows[i].key # NoKey
    BY DEF Ledger
  <1> QED  BY <1>2, <1>3, <1>4, <1>5, <1>6 DEF Ledger

(* So does a row that is signed by an archived key and names no key, or    *)
(* the staged one, which is archived and has no other row unless it is     *)
(* repeated.                                                               *)
LEMMA LedgerAdded ==
  ASSUME Shapes, Ledger, UNCHANGED <<public, generated, serving>>, signing \in public,
         unnoticed' \subseteq unnoticed \cup {generated}, repeated \subseteq repeated',
         NEW new \in Keys \cup {NoKey}, Insert(new),
         new # NoKey => new = generated /\ new \in public,
         new # NoKey /\ new \in HandedKeys => new \in repeated'
  PROVE  Ledger'
  <1>1. PICK row \in RowOf : /\ rows' = Append(rows, row) /\ row.new = new
                           /\ row.key = signing /\ row.signer = signing
    BY Inserted
  <1> DEFINE last == Len(rows) + 1
  <1>2. /\ Len(rows) \in Nat /\ Len(rows') = last /\ rows'[last] = row
        /\ \A i \in 1..Len(rows) : rows'[i] = rows[i]
    BY <1>1, AddedRow DEF Shapes
  <1>3. signing # NoKey /\ generated \in Nat /\ unnoticed \subseteq Nat
    BY Numbers DEF Shapes
  <1> HIDE DEF last
  <1>4. 1..Len(rows') = 1..Len(rows) \cup {last}
    BY <1>2 DEF last
  <1>5. \A i \in 1..Len(rows') : rows'[i].new # NoKey => rows'[i].new \in public /\ rows'[i].new <= generated
    BY <1>1, <1>2, <1>3, <1>4 DEF Ledger
  <1>6. ASSUME NEW i \in 1..Len(rows'), NEW j \in 1..Len(rows'), rows'[i].new = rows'[j].new,
               rows'[i].new \notin repeated' \cup {NoKey}
        PROVE  i = j
    <2>1. \A k \in 1..Len(rows) : rows[k].new = new => new \in repeated' \cup {NoKey}
      BY DEF HandedKeys
    <2>2. CASE i \in 1..Len(rows) /\ j \in 1..Len(rows)
      BY <1>2, <1>6, <2>2 DEF Ledger
    <2>3. CASE i = last /\ j \in 1..Len(rows)
      BY <1>1, <1>2, <1>6, <2>1, <2>3
    <2>4. CASE j = last /\ i \in 1..Len(rows)
      BY <1>1, <1>2, <1>6, <2>1, <2>4
    <2> QED  BY <1>4, <2>2, <2>3, <2>4
  <1>7. \A k \in unnoticed' : k <= generated
    <2>1. \A k \in unnoticed : k <= generated
      BY DEF Ledger
    <2> QED  BY <1>3, <2>1
  <1>8. \A i \in 1..Len(rows') :
          /\ rows'[i].key # NoKey => rows'[i].signer = rows'[i].key /\ rows'[i].key \in public
          /\ serving => rows'[i].key # NoKey
    BY <1>1, <1>2, <1>3, <1>4 DEF Ledger
  <1> QED  BY <1>5, <1>6, <1>7, <1>8 DEF Ledger

(* Every step leaves the ledger sound.                                     *)
LEMMA LedgerStep ==
  ASSUME Shapes, Ledger, Control, [Next]_vars  PROVE Ledger'
  <1> USE DEF files, memory, chain, history, Goto, InsertFails, LoopRuns
  <1>1. ASSUME BeginWrite  PROVE Ledger'
    BY <1>1, LedgerKept, Numbers DEF BeginWrite, Shapes
  <1>2. ASSUME Lock  PROVE Ledger'
    BY <1>2, LedgerKept, Numbers DEF Lock, Shapes
  <1>3. ASSUME Write  PROVE Ledger'
    <2>1. CASE Insert(NoKey)
      BY <1>3, <2>1, Numbers, LedgerAdded DEF Write, Control
    <2>2. CASE InsertFails
      BY <1>3, <2>2, Numbers, LedgerKept DEF Write, Shapes
    <2> QED  BY <1>3, <2>1, <2>2 DEF Write
  <1>4. ASSUME Rotate  PROVE Ledger'
    BY <1>4, LedgerKept, Numbers DEF Rotate, Shapes
  <1>5. ASSUME Publish  PROVE Ledger'
    BY <1>5, LedgerKept, Numbers DEF Publish, Shapes
  <1>6. ASSUME Stage  PROVE Ledger'
    BY <1>6, LedgerKept, Numbers DEF Stage, Shapes
  <1>7. ASSUME StageJournal  PROVE Ledger'
    BY <1>7, LedgerKept, Numbers DEF StageJournal, Shapes
  <1>8. ASSUME Handoff  PROVE Ledger'
    <2>1. Insert(generated) /\ generated \in Keys
      BY <1>8 DEF Handoff, Shapes
    <2> QED  BY <1>8, <2>1, LedgerAdded DEF Handoff, Control
  <1>9. ASSUME HandoffFails  PROVE Ledger'
    <2>1. unnoticed' \subseteq unnoticed \cup {generated}
      BY <1>9 DEF HandoffFails
    <2>2. CASE InsertFails
      BY <1>9, <2>1, <2>2, LedgerKept, Numbers DEF HandoffFails, Shapes
    <2>3. CASE Insert(generated)
      <3>1. generated \in Keys
        BY DEF Shapes
      <3> QED  BY <1>9, <2>1, <2>3, <3>1, LedgerAdded DEF HandoffFails, Control
    <2> QED  BY <1>9, <2>2, <2>3 DEF HandoffFails
  <1>10. ASSUME MarkHandoff  PROVE Ledger'
    BY <1>10, LedgerKept, Numbers DEF MarkHandoff, Phase, Shapes
  <1>11. ASSUME Replace  PROVE Ledger'
    BY <1>11, LedgerKept, Numbers DEF Replace, Shapes
  <1>12. ASSUME JournalPromoted  PROVE Ledger'
    BY <1>12, LedgerKept, Numbers DEF JournalPromoted, Phase, Shapes
  <1>13. ASSUME SwapKey  PROVE Ledger'
    BY <1>13, LedgerKept, Numbers DEF SwapKey, Shapes
  <1>14. ASSUME Unlink  PROVE Ledger'
    BY <1>14, LedgerKept, Numbers DEF Unlink, Shapes
  <1>15. ASSUME Close  PROVE Ledger'
    BY <1>15, LedgerKept, Numbers DEF Close, Shapes
  <1>16. ASSUME FileFails  PROVE Ledger'
    BY <1>16, LedgerKept, Numbers DEF FileFails, Shapes
  <1>17. ASSUME Crash  PROVE Ledger'
    BY <1>17, LedgerKept, Numbers DEF Crash, Shapes
  <1>18. ASSUME OperatorRestart  PROVE Ledger'
    BY <1>18, LedgerKept, Numbers DEF OperatorRestart, Shapes
  <1>19. ASSUME Recover  PROVE Ledger'
    BY <1>19, LedgerKept, Numbers DEF Recover, Shapes
  <1>20. ASSUME Initialize  PROVE Ledger'
    BY <1>20, LedgerKept, Numbers DEF Initialize, Shapes
  <1>21. ASSUME Backfill  PROVE Ledger'
    <2>1. /\ UNCHANGED <<public, generated, unnoticed, repeated>> /\ Len(rows') = Len(rows)
          /\ \A i \in 1..Len(rows) : rows'[i].new = rows[i].new
      BY <1>21, Backfilled DEF Backfill
    <2>2. \A i \in 1..Len(rows) : rows'[i].key # NoKey /\ rows'[i].key = rows'[i].signer /\ rows'[i].key \in public
      <3>1. CASE \E i \in 1..Len(rows) : rows[i].key = NoKey
        BY <1>21, <3>1, Backfilled, Numbers DEF Backfill, VerifyRecord, Shapes
      <3>2. CASE \A i \in 1..Len(rows) : rows[i].key # NoKey
        BY <1>21, <3>2, Backfilled DEF Backfill, Ledger
      <3> QED  BY <3>1, <3>2
    <2> QED  BY <2>1, <2>2 DEF Ledger
  <1>22. ASSUME HandoffRepeats  PROVE Ledger'
    <2>1. Insert(generated) /\ generated \in Keys
      BY <1>22 DEF HandoffRepeats, Shapes
    <2> QED  BY <1>22, <2>1, LedgerAdded DEF HandoffRepeats, Control
  <1>23. ASSUME ExportManifest  PROVE Ledger'
    BY <1>23, LedgerKept, Numbers DEF ExportManifest, Shapes
  <1>24. ASSUME ExportStream  PROVE Ledger'
    BY <1>24, LedgerKept, Numbers DEF ExportStream, Shapes
  <1>25. ASSUME ExportTaken  PROVE Ledger'
    BY <1>25, LedgerKept, Numbers DEF ExportTaken, Shapes
  <1>26. ASSUME UNCHANGED vars  PROVE Ledger'
    BY <1>26, LedgerKept, Numbers DEF vars, Shapes
  <1> QED  BY <1>1, <1>2, <1>3, <1>4, <1>5, <1>6, <1>7, <1>8, <1>9, <1>10,
              <1>11, <1>12, <1>13, <1>14, <1>15, <1>16, <1>17, <1>18, <1>19, <1>20,
              <1>21, <1>22, <1>23, <1>24, <1>25, <1>26
           DEF Next, RotationStep, StartupStep

-----------------------------------------------------------------------------
(* A step that leaves rows and history alone leaves what they say.         *)
LEMMA Unread ==
  ASSUME UNCHANGED <<rows, unnoticed>>
  PROVE  HandedKeys' = HandedKeys /\ Overlooked' = Overlooked /\ rows' = rows /\ unnoticed' = unnoticed
  BY DEF HandedKeys, Overlooked

(* An ordinary row is passed over.                                         *)
LEMMA OrdinaryAdded ==
  ASSUME Shapes, Insert(NoKey), UNCHANGED unnoticed
  PROVE  /\ Overlooked' = Overlooked /\ \A k \in Keys : k \in HandedKeys' <=> k \in HandedKeys
         /\ \A k : Latest(rows, Overlooked, k) => Latest(rows', Overlooked, k)
         /\ \A n \in Keys : \A k : Latest(rows, Overlooked \ {n}, k) => Latest(rows', Overlooked \ {n}, k)
         /\ \A n, k : Latest(rows, Overlooked \cup {n}, k) => Latest(rows', Overlooked \cup {n}, k)
  <1>1. PICK row \in RowOf : rows' = Append(rows, row) /\ row.new = NoKey
    BY Inserted, Numbers
  <1>2. /\ HandedKeys' = HandedKeys \cup {NoKey}
        /\ \A S, k : NoKey \in S /\ Latest(rows, S, k) => Latest(rows', S, k)
    BY <1>1, AddedRow
  <1>3. /\ NoKey \in Overlooked /\ \A n \in Keys : NoKey \in Overlooked \ {n}
        /\ \A n : NoKey \in Overlooked \cup {n}
    BY Numbers DEF Overlooked
  <1>4. Overlooked' = Overlooked
    BY DEF Overlooked
  <1>5. \A k \in Keys : k \in HandedKeys' <=> k \in HandedKeys
    BY <1>2, Numbers
  <1> QED  BY <1>2, <1>3, <1>4, <1>5

(* The row of a rotation names the latest key, unless it is passed over.   *)
LEMMA RotationAdded ==
  ASSUME Shapes, Control, at = "write", Insert(generated)
  PROVE  /\ generated \in HandedKeys' /\ Latest(rows', Overlooked, generated)
         /\ Latest(rows', Overlooked \cup {generated}, private)
         /\ HandedKeys' = HandedKeys \cup {generated}
  <1>1. PICK row \in RowOf : rows' = Append(rows, row) /\ row.new = generated
    BY Inserted DEF Shapes
  <1>2. /\ HandedKeys' = HandedKeys \cup {generated}
        /\ \A S, k : generated \in S /\ Latest(rows, S, k) => Latest(rows', S, k)
        /\ \A S : generated \notin S => Latest(rows', S, generated)
    BY <1>1, AddedRow
  <1>3. generated \notin Overlooked
    BY Numbers DEF Shapes, Control, Overlooked
  <1>4. Latest(rows, Overlooked \cup {generated}, private)
    BY DEF Control
  <1> QED  BY <1>2, <1>3, <1>4

(* What is journaled while the row of a rotation is written.               *)
LEMMA WriteFacts ==
  ASSUME Shapes, Durable, Control, at = "write"
  PROVE  /\ generated \in Keys /\ generated \in Nat /\ pending = {generated} /\ generated \notin unnoticed
         /\ Overlooked \ {generated} = Overlooked
         /\ \A e \in journal : e.new = generated
         /\ \E e \in journal : e.new = generated
         /\ \A e, f \in journal : e = f
         /\ serving
         /\ \/ generated \notin HandedKeys /\ Latest(rows, Overlooked, private)
            \/ generated \in HandedKeys /\ Latest(rows, Overlooked, generated)
  <1>1. generated \in Keys /\ generated \in Nat /\ generated # NoKey
    BY Numbers DEF Shapes
  <1>2. journal = {[new |-> generated, phase |-> "prepared"]} /\ pending = {generated}
        /\ generated \notin unnoticed /\ serving
    BY DEF Control
  <1>3. Overlooked \ {generated} = Overlooked
    BY <1>1, <1>2 DEF Overlooked
  <1>4. \A e \in journal : e.new = generated
    BY <1>2
  <1>5. PICK e \in journal : e.new = generated
    BY <1>2
  <1>6. Unwritten(e.new) \/ Missed(e.new) \/ Handed(e.new)
    BY DEF Durable
  <1>7. \/ generated \notin HandedKeys /\ Latest(rows, Overlooked, private)
        \/ generated \in HandedKeys /\ Latest(rows, Overlooked, generated)
    BY <1>2, <1>5, <1>6 DEF Unwritten, Missed, Handed
  <1> QED  BY <1>1, <1>2, <1>3, <1>4, <1>5, <1>7

(* A row that was written and seen to fail is passed over from then on.    *)
LEMMA FailedFacts ==
  ASSUME Shapes, Durable, Control, HandoffFails
  PROVE  /\ Overlooked' \ {generated} = Overlooked
         /\ Latest(rows', Overlooked', private)
         /\ \/ generated \notin HandedKeys'
            \/ /\ generated \in HandedKeys' /\ generated \in unnoticed'
               /\ Latest(rows', Overlooked, generated)
  <1>0. at = "write" /\ unnoticed' = unnoticed \cup ({generated} \cap HandedKeys')
    BY DEF HandoffFails, HandedKeys
  <1>1. /\ Overlooked \ {generated} = Overlooked
        /\ \/ generated \notin HandedKeys /\ Latest(rows, Overlooked, private)
           \/ generated \in HandedKeys /\ Latest(rows, Overlooked, generated)
    BY <1>0, WriteFacts
  <1>2. Overlooked' \ {generated} = Overlooked
    BY <1>0, <1>1 DEF Overlooked
  <1>3. CASE Insert(generated)
    <2>1. /\ generated \in HandedKeys' /\ Latest(rows', Overlooked, generated)
          /\ Latest(rows', Overlooked \cup {generated}, private)
      BY <1>0, <1>3, RotationAdded
    <2>2. Overlooked' = Overlooked \cup {generated} /\ generated \in unnoticed'
      BY <1>0, <2>1 DEF Overlooked
    <2> QED  BY <1>2, <2>1, <2>2
  <1>4. CASE InsertFails
    <2>1. rows' = rows /\ HandedKeys' = HandedKeys
      BY <1>4 DEF InsertFails, HandedKeys
    <2>2. CASE generated \in HandedKeys
      <3>1. Overlooked' = Overlooked \cup {generated} /\ generated \in unnoticed'
        BY <1>0, <2>1, <2>2 DEF Overlooked
      <3>2. Latest(rows, Overlooked \cup {generated}, private)
        BY <1>0 DEF Control
      <3> QED  BY <1>1, <1>2, <2>1, <2>2, <3>1, <3>2
    <2>3. CASE generated \notin HandedKeys
      <3>1. Overlooked' = Overlooked
        BY <1>0, <2>1, <2>3 DEF Overlooked
      <3> QED  BY <1>1, <1>2, <2>1, <2>3, <3>1
    <2> QED  BY <2>2, <2>3
  <1> QED  BY <1>3, <1>4 DEF HandoffFails

(* Recovery discards a rotation without a row, or one that is the private  *)
(* key already, and completes any other with the staged key.               *)
LEMMA RecoverFacts ==
  ASSUME Shapes, Durable, Recover, journal # {}
  PROVE  \E e \in journal :
           /\ \/ Unwritten(e.new)' /\ at' = "unlink"
              \/ Handed(e.new)' /\ private = e.new /\ at' = "unlink"
              \/ Handed(e.new)' /\ pending = {e.new} /\ at' = "replace"
           /\ Latest(rows, Overlooked', private) \/ at' = "replace"
  <1>1. PICK e \in journal :
          IF HandoffRows(e.new) = {} \/ private = e.new
            THEN at' = "unlink"
            ELSE pending = {e.new} /\ at' = "replace"
    BY DEF Recover, Goto
  <1>2. journal = {e}
    BY DEF Durable
  <1>3. UNCHANGED <<rows, private, pending, journal>> /\ e.new # NoKey
    BY Numbers DEF Recover, Shapes, files
  <1>4. unnoticed' = unnoticed \ {e.new}
    <2>1. unnoticed' = unnoticed \ {entry.new : entry \in journal}
      BY DEF Recover
    <2> QED  BY <1>2, <2>1
  <1>5. Overlooked' = Overlooked \ {e.new}
    BY <1>3, <1>4 DEF Overlooked
  <1>6. HandedKeys' = HandedKeys /\ e.new \notin unnoticed'
        /\ (HandoffRows(e.new) = {} <=> e.new \notin HandedKeys)
    BY <1>3, <1>4 DEF HandedKeys, HandoffRows
  <1>7. CASE Unwritten(e.new)
    <2>1. e.new \notin HandedKeys /\ Latest(rows, Overlooked, private)
      BY <1>7 DEF Unwritten
    <2>2. Latest(rows, Overlooked \ {e.new}, private)
      BY <2>1, AbsentKey
    <2>3. Unwritten(e.new)'
      BY <1>3, <1>5, <1>6, <2>1, <2>2 DEF Unwritten
    <2> QED  BY <1>1, <1>5, <1>6, <2>1, <2>2, <2>3
  <1>8. CASE Missed(e.new) \/ Handed(e.new)
    <2>1. e.new \in HandedKeys /\ Latest(rows, Overlooked', e.new)
      <3>1. CASE Missed(e.new)
        BY <1>5, <3>1 DEF Missed
      <3>2. CASE Handed(e.new)
        <4>1. Overlooked' = Overlooked
          BY <1>3, <1>5, <3>2 DEF Handed, Overlooked
        <4> QED  BY <3>2, <4>1 DEF Handed
      <3> QED  BY <1>8, <3>1, <3>2
    <2>2. private = e.new \/ pending = {e.new}
      BY <1>1, <1>6, <2>1
    <2>3. Handed(e.new)'
      BY <1>3, <1>6, <2>1, <2>2 DEF Handed
    <2> QED  BY <1>1, <1>6, <2>1, <2>3
  <1> QED  BY <1>7, <1>8 DEF Durable

(* At most one key is the latest.                                          *)
LEMMA LatestUnique ==
  ASSUME Shapes, NEW k, NEW l, Latest(rows, Overlooked, k), Latest(rows, Overlooked, l)
  PROVE  k = l
  <1>1. NewestKey = k
    BY LatestIsNewest
  <1>2. NewestKey = l
    BY LatestIsNewest
  <1> QED  BY <1>1, <1>2

(* The backfill leaves the latest key alone.                               *)
LEMMA LatestBackfilled ==
  ASSUME Shapes, Backfill, NEW S, NEW k, Latest(rows, S, k)
  PROVE  Latest(rows', S, k)
  <1>1. Len(rows) \in Nat /\ Len(rows') = Len(rows) /\ \A i \in 1..Len(rows) : rows'[i].new = rows[i].new
    BY Backfilled DEF Shapes
  <1> QED  BY <1>1, SameLatest

-----------------------------------------------------------------------------
(* Whatever step comes before a crash, the files and the ledger agree.     *)
LEMMA DurableStep ==
  ASSUME Shapes, Ledger, Durable, Control, [Next]_vars  PROVE Durable'
  <1> USE DEF files, memory, chain, history, Goto, LoopRuns
  <1>1. ASSUME BeginWrite  PROVE Durable'
    BY <1>1, Unread DEF BeginWrite, Durable, Unwritten, Missed, Handed
  <1>2. ASSUME Lock  PROVE Durable'
    BY <1>2, Unread DEF Lock, Durable, Unwritten, Missed, Handed
  <1>3. ASSUME Write  PROVE Durable'
    <2>1. UNCHANGED <<private, pending, journal, unnoticed, generated>>
      BY <1>3 DEF Write
    <2>2. \A e \in journal : e.new \in Keys
      BY DEF Shapes
    <2>3. CASE Insert(NoKey)
      BY <2>1, <2>2, <2>3, OrdinaryAdded DEF Durable, Unwritten, Missed, Handed
    <2>4. CASE InsertFails
      BY <2>1, <2>4, Unread DEF InsertFails, Durable, Unwritten, Missed, Handed
    <2> QED  BY <1>3, <2>3, <2>4 DEF Write
  <1>4. ASSUME Rotate  PROVE Durable'
    BY <1>4, Unread DEF Rotate, Durable, Unwritten, Missed, Handed
  <1>5. ASSUME Publish  PROVE Durable'
    <2>1. journal = {} /\ UNCHANGED <<rows, unnoticed, private, journal>>
      BY <1>5 DEF Publish, Control
    <2> QED  BY <2>1, Unread DEF Durable
  <1>6. ASSUME Stage  PROVE Durable'
    <2>1. journal = {} /\ UNCHANGED <<rows, unnoticed, private, journal>>
      BY <1>6 DEF Stage, Control
    <2> QED  BY <2>1, Unread DEF Durable
  <1>7. ASSUME StageJournal  PROVE Durable'
    <2>1. /\ UNCHANGED <<rows, private, pending, unnoticed, generated>>
          /\ journal' = {[new |-> generated, phase |-> "prepared"]}
      BY <1>7 DEF StageJournal
    <2>2. Unwritten(generated)' /\ generated \in Nat
      BY <1>7, <2>1, Unread, Numbers DEF StageJournal, Control, Durable, Unwritten, Shapes
    <2>3. \A e \in journal' : e.new = generated
      BY <2>1
    <2>4. \A e, f \in journal' : e = f
      BY <2>1
    <2> QED  BY <2>1, <2>2, <2>3, <2>4 DEF Durable, Unwritten
  <1>8. ASSUME Handoff  PROVE Durable'
    <2>1. at = "write" /\ Insert(generated) /\ UNCHANGED <<private, pending, journal, unnoticed, generated>>
      BY <1>8 DEF Handoff
    <2>2. generated \in HandedKeys' /\ Latest(rows', Overlooked, generated) /\ Overlooked' = Overlooked
      BY <2>1, RotationAdded DEF Overlooked
    <2>3. Handed(generated)'
      BY <2>1, <2>2, WriteFacts DEF Handed
    <2> QED  BY <2>1, <2>3, WriteFacts DEF Durable, Handed
  <1>9. ASSUME HandoffRepeats  PROVE Durable'
    <2>1. at = "write" /\ Insert(generated) /\ UNCHANGED <<private, pending, journal, unnoticed, generated>>
      BY <1>9 DEF HandoffRepeats
    <2>2. generated \in HandedKeys' /\ Latest(rows', Overlooked, generated) /\ Overlooked' = Overlooked
      BY <2>1, RotationAdded DEF Overlooked
    <2>3. Handed(generated)'
      BY <2>1, <2>2, WriteFacts DEF Handed
    <2> QED  BY <2>1, <2>3, WriteFacts DEF Durable, Handed
  <1>10. ASSUME HandoffFails  PROVE Durable'
    <2>1. UNCHANGED <<private, pending, journal, generated>> /\ at = "write"
      BY <1>10 DEF HandoffFails
    <2>2. Unwritten(generated)' \/ Missed(generated)'
      BY <1>10, <2>1, FailedFacts DEF Unwritten, Missed
    <2> QED  BY <2>1, <2>2, WriteFacts DEF Durable, Unwritten, Missed
  <1>11. ASSUME MarkHandoff  PROVE Durable'
    <2>1. /\ \A e \in journal' : \E f \in journal : e.new = f.new
          /\ (\A e, f \in journal : e = f) => \A e, f \in journal' : e = f
          /\ \A f \in journal : \E e \in journal' : e.new = f.new
      BY <1>11, PhaseFacts DEF MarkHandoff
    <2>2. UNCHANGED <<rows, unnoticed, private, pending, generated>>
      BY <1>11 DEF MarkHandoff, Phase
    <2> QED  BY <2>1, <2>2, Unread DEF Durable, Unwritten, Missed, Handed
  <1>12. ASSUME Replace  PROVE Durable'
    <2>1. PICK e \in journal : Handed(e.new) /\ pending = {e.new}
      BY <1>12 DEF Replace, Control
    <2>2. private' = e.new /\ pending' = {} /\ UNCHANGED <<rows, unnoticed, journal, generated>>
      BY <1>12, <2>1 DEF Replace
    <2>3. Handed(e.new)'
      BY <2>1, <2>2, Unread DEF Handed
    <2> QED  BY <2>2, <2>3 DEF Durable, Handed
  <1>13. ASSUME JournalPromoted  PROVE Durable'
    <2>1. /\ \A e \in journal' : \E f \in journal : e.new = f.new
          /\ (\A e, f \in journal : e = f) => \A e, f \in journal' : e = f
          /\ \A f \in journal : \E e \in journal' : e.new = f.new
      BY <1>13, PhaseFacts DEF JournalPromoted
    <2>2. UNCHANGED <<rows, unnoticed, private, pending, generated>>
      BY <1>13 DEF JournalPromoted, Phase
    <2> QED  BY <2>1, <2>2, Unread DEF Durable, Unwritten, Missed, Handed
  <1>14. ASSUME SwapKey  PROVE Durable'
    BY <1>14, Unread DEF SwapKey, Durable, Unwritten, Missed, Handed
  <1>15. ASSUME Unlink  PROVE Durable'
    <2>1. pending' = {} /\ UNCHANGED <<rows, unnoticed, private, journal, generated>>
          /\ Latest(rows, Overlooked, private)
      BY <1>15 DEF Unlink, Control
    <2>2. \A k : Latest(rows, Overlooked, k) => private = k
      BY <2>1, LatestUnique
    <2> QED  BY <2>1, <2>2, Unread DEF Durable, Unwritten, Missed, Handed
  <1>16. ASSUME Close  PROVE Durable'
    <2>1. /\ journal' = {} /\ UNCHANGED <<rows, unnoticed, private>>
          /\ Latest(rows, Overlooked, private)
      BY <1>16 DEF Close, Control
    <2> QED  BY <2>1, Unread DEF Durable
  <1>17. ASSUME FileFails  PROVE Durable'
    BY <1>17, Unread DEF FileFails, Durable, Unwritten, Missed, Handed
  <1>18. ASSUME Crash  PROVE Durable'
    BY <1>18, Unread DEF Crash, Durable, Unwritten, Missed, Handed
  <1>19. ASSUME OperatorRestart  PROVE Durable'
    BY <1>19, Unread DEF OperatorRestart, Durable, Unwritten, Missed, Handed
  <1>20. ASSUME Recover  PROVE Durable'
    <2>1. UNCHANGED <<rows, private, pending, journal, generated>>
      BY <1>20 DEF Recover
    <2>2. CASE journal = {}
      <3>1. unnoticed' = unnoticed
        BY <1>20, <2>2 DEF Recover
      <3> QED  BY <2>1, <2>2, <3>1, Unread DEF Durable
    <2>3. CASE journal # {}
      <3>1. PICK e \in journal : Unwritten(e.new)' \/ Handed(e.new)'
        BY <1>20, <2>3, RecoverFacts
      <3> QED  BY <2>1, <3>1 DEF Durable, Unwritten, Handed
    <2> QED  BY <2>2, <2>3
  <1>21. ASSUME Initialize  PROVE Durable'
    BY <1>21, Unread DEF Initialize, Durable, Unwritten, Missed, Handed
  <1>22. ASSUME Backfill  PROVE Durable'
    <2>1. journal = {} /\ UNCHANGED <<private, journal, unnoticed>>
      BY <1>22 DEF Backfill, Control
    <2>2. Latest(rows', Overlooked, private)
      BY <1>22, <2>1, LatestBackfilled DEF Durable
    <2> QED  BY <2>1, <2>2 DEF Durable, Overlooked
  <1>23. ASSUME ExportManifest  PROVE Durable'
    BY <1>23, Unread, ZenonT(30) DEF ExportManifest, Durable, Unwritten, Missed, Handed
  <1>24. ASSUME ExportStream  PROVE Durable'
    BY <1>24, Unread DEF ExportStream, Durable, Unwritten, Missed, Handed
  <1>25. ASSUME ExportTaken  PROVE Durable'
    BY <1>25, Unread DEF ExportTaken, Durable, Unwritten, Missed, Handed
  <1>26. ASSUME UNCHANGED vars  PROVE Durable'
    BY <1>26, Unread DEF vars, Durable, Unwritten, Missed, Handed
  <1> QED  BY <1>1, <1>2, <1>3, <1>4, <1>5, <1>6, <1>7, <1>8, <1>9, <1>10, <1>11, <1>12, <1>13,
              <1>14, <1>15, <1>16, <1>17, <1>18, <1>19, <1>20, <1>21, <1>22, <1>23, <1>24,
              <1>25, <1>26
           DEF Next, RotationStep, StartupStep

-----------------------------------------------------------------------------
(* Every step of rotate, recovery and startup finds what it relies on.     *)
LEMMA ControlStep ==
  ASSUME Shapes, Ledger, Durable, Control, [Next]_vars  PROVE Control'
  <1> USE DEF files, memory, chain, history, Goto, LoopRuns
  <1>1. ASSUME BeginWrite  PROVE Control'
    BY <1>1, Unread DEF BeginWrite, Control, Handed
  <1>2. ASSUME Lock  PROVE Control'
    BY <1>2, Unread DEF Lock, Control, Handed
  <1>3. ASSUME Write  PROVE Control'
    <2>1. /\ UNCHANGED <<private, pending, journal, public, unnoticed, generated, signing, available,
                         at, serving, repeated>>
          /\ serving /\ at \in {"idle", "write"}
      BY <1>3 DEF Write
    <2>2. generated \in Keys
      BY DEF Shapes
    <2>3. CASE Insert(NoKey)
      BY <2>1, <2>2, <2>3, OrdinaryAdded DEF Control
    <2>4. CASE InsertFails
      BY <2>1, <2>4, Unread DEF InsertFails, Control
    <2> QED  BY <1>3, <2>3, <2>4 DEF Write
  <1>4. ASSUME Rotate  PROVE Control'
    <2>1. at \in {"idle"} /\ available /\ serving
      BY <1>4 DEF Rotate
    <2> QED  BY <1>4, <2>1, Unread DEF Rotate, Control, Handed
  <1>5. ASSUME Publish  PROVE Control'
    <2>1. generated' = generated + 1 /\ generated \in Nat
      BY <1>5, Numbers DEF Publish, Shapes
    <2>2. generated' \notin HandedKeys /\ generated' \notin unnoticed
      <3>1. \A i \in 1..Len(rows) : rows[i].new # NoKey => rows[i].new <= generated
        BY DEF Ledger
      <3>2. \A k \in unnoticed : k <= generated
        BY DEF Ledger
      <3> QED  BY <2>1, <3>1, <3>2, RowFacts, Numbers DEF HandedKeys
    <2> QED  BY <1>5, <2>1, <2>2, Unread DEF Publish, Control
  <1>6. ASSUME Stage  PROVE Control'
    BY <1>6, Unread DEF Stage, Control, Handed
  <1>7. ASSUME StageJournal  PROVE Control'
    <2>1. /\ at = "journal" /\ at' = "write" /\ serving
          /\ UNCHANGED <<rows, private, pending, public, unnoticed, repeated, generated, signing, serving>>
          /\ journal' = {[new |-> generated, phase |-> "prepared"]}
      BY <1>7 DEF StageJournal, Control
    <2>2. generated \notin HandedKeys /\ Latest(rows, Overlooked, private)
      BY <2>1 DEF Control, Durable
    <2>3. Latest(rows, Overlooked \cup {generated}, private)
      BY <2>2, AbsentKey
    <2> QED  BY <1>7, <2>1, <2>2, <2>3, Unread DEF StageJournal, Control
  <1>8. ASSUME Handoff  PROVE Control'
    <2>1. /\ at = "write" /\ Insert(generated) /\ at' = "handoff"
          /\ UNCHANGED <<private, pending, journal, unnoticed, public, generated, signing, serving>>
      BY <1>8 DEF Handoff
    <2>2. Handed(generated)'
      <3>1. generated \in HandedKeys' /\ Latest(rows', Overlooked, generated) /\ Overlooked' = Overlooked
        BY <2>1, RotationAdded DEF Overlooked
      <3> QED  BY <2>1, <3>1, WriteFacts DEF Handed
    <2>3. PICK e \in journal : e.new = generated
      BY <2>1, WriteFacts
    <2>4. Handed(e.new)' /\ pending' = {e.new} /\ e \in journal'
      BY <2>1, <2>2, <2>3, WriteFacts DEF Handed
    <2> QED  BY <2>1, <2>4, WriteFacts DEF Control
  <1>9. ASSUME HandoffRepeats  PROVE Control'
    <2>1. /\ at = "write" /\ Insert(generated) /\ generated \in repeated'
          /\ UNCHANGED <<private, pending, journal, unnoticed, public, generated, signing, serving, at,
                         available>>
      BY <1>9 DEF HandoffRepeats
    <2>2. Latest(rows', Overlooked \cup {generated}, private) /\ Overlooked' = Overlooked
      BY <2>1, RotationAdded DEF Overlooked
    <2> QED  BY <2>1, <2>2 DEF Control
  <1>10. ASSUME HandoffFails  PROVE Control'
    <2>1. /\ at = "write" /\ at' = "unlink" /\ serving
          /\ UNCHANGED <<private, pending, journal, public, generated, signing, serving, available>>
      BY <1>10, WriteFacts DEF HandoffFails
    <2>2. Latest(rows', Overlooked', private)
      BY <1>10, FailedFacts
    <2> QED  BY <2>1, <2>2 DEF Control
  <1>11. ASSUME MarkHandoff  PROVE Control'
    <2>1. PICK e \in journal : Handed(e.new) /\ pending = {e.new}
      BY <1>11 DEF MarkHandoff, Phase, Control
    <2>2. /\ at' = "replace"
          /\ UNCHANGED <<rows, unnoticed, private, pending, public, generated, signing, available, serving>>
          /\ at = "handoff"
      BY <1>11 DEF MarkHandoff, Phase
    <2>3. PICK f \in journal' : f.new = e.new
      BY <1>11, PhaseFacts DEF MarkHandoff
    <2>4. Handed(f.new)' /\ pending' = {f.new}
      BY <2>1, <2>2, <2>3, Unread DEF Handed
    <2> QED  BY <2>2, <2>4 DEF Control
  <1>12. ASSUME Replace  PROVE Control'
    <2>1. PICK e \in journal : Handed(e.new) /\ pending = {e.new}
      BY <1>12 DEF Replace, Control
    <2>2. /\ private' = e.new /\ pending' = {} /\ at = "replace" /\ at' = "promoted"
          /\ UNCHANGED <<rows, unnoticed, journal, public, generated, signing, available, serving>>
      BY <1>12, <2>1 DEF Replace
    <2>3. Handed(e.new)' /\ e \in journal'
      BY <2>1, <2>2, Unread DEF Handed
    <2>4. e.new \in public
      <3>1. e.new # NoKey
        BY Numbers DEF Shapes
      <3> QED  BY <2>1, <3>1 DEF Handed, HandedKeys, Ledger
    <2> QED  BY <2>2, <2>3, <2>4 DEF Control
  <1>13. ASSUME JournalPromoted  PROVE Control'
    <2>1. PICK e \in journal : Handed(e.new) /\ private = e.new
      BY <1>13 DEF JournalPromoted, Phase, Control
    <2>2. /\ at = "promoted" /\ at' = (IF serving THEN "swap" ELSE "unlink")
          /\ UNCHANGED <<rows, unnoticed, private, pending, public, generated, signing, available, serving>>
      BY <1>13 DEF JournalPromoted, Phase
    <2>3. PICK f \in journal' : f.new = e.new
      BY <1>13, PhaseFacts DEF JournalPromoted
    <2>4. Handed(f.new)' /\ private' = f.new /\ Latest(rows', Overlooked', private')
      BY <2>1, <2>2, <2>3, Unread DEF Handed
    <2> QED  BY <2>2, <2>4 DEF Control
  <1>14. ASSUME SwapKey  PROVE Control'
    <2>1. PICK e \in journal : Handed(e.new) /\ private = e.new
      BY <1>14 DEF SwapKey, Control
    <2>2. Latest(rows, Overlooked, private)
      BY <2>1 DEF Handed
    <2> QED  BY <1>14, <2>2, Unread DEF SwapKey, Control
  <1>15. ASSUME Unlink  PROVE Control'
    BY <1>15, Unread DEF Unlink, Control, Handed
  <1>16. ASSUME Close  PROVE Control'
    <2>1. at = "close" /\ at' = (IF serving THEN "idle" ELSE "initialize") /\ journal' = {}
      BY <1>16 DEF Close
    <2> QED  BY <1>16, <2>1, Unread DEF Close, Control
  <1>17. ASSUME FileFails  PROVE Control'
    <2>1. /\ UNCHANGED <<rows, unnoticed, private, pending, journal, public, generated, signing, serving>>
          /\ serving /\ at \notin {"idle", "write", "swap"}
          /\ available' = (available /\ ~HandedOff)
          /\ at' = (IF HandedOff \/ at \in {"unlink", "close"} THEN "idle" ELSE "unlink")
      BY <1>17 DEF FileFails
    <2>2. at \in {"handoff", "replace", "promoted"} => HandedOff
      BY DEF HandedOff
    <2>3. at \in {"publish", "stage", "journal"} => ~HandedOff /\ Latest(rows, Overlooked, private)
      BY DEF HandedOff, Control, Durable
    <2>4. at' \in {"idle", "unlink"} /\ (at' = "unlink" => at \in {"publish", "stage", "journal"})
      <3>1. at \in {"publish", "stage", "journal", "handoff", "replace", "promoted", "unlink", "close"}
        BY <2>1 DEF Shapes, Control
      <3> QED  BY <2>1, <2>2, <3>1
    <2>5. available' => /\ available /\ at \notin {"handoff", "replace", "promoted", "swap"}
      BY <2>1, <2>2
    <2> QED  BY <2>1, <2>3, <2>4, <2>5, Unread DEF Control
  <1>18. ASSUME Crash  PROVE Control'
    BY <1>18, Unread DEF Crash, Control, Handed
  <1>19. ASSUME OperatorRestart  PROVE Control'
    BY <1>19, Unread DEF OperatorRestart, Control, Handed
  <1>20. ASSUME Recover  PROVE Control'
    <2>1. /\ UNCHANGED <<rows, private, pending, journal, public, generated, serving, signing, available>>
          /\ at = "down" /\ ~serving
      BY <1>20 DEF Recover, Control
    <2>2. CASE journal = {}
      <3>1. at' = "initialize"
        BY <1>20, <2>2 DEF Recover
      <3> QED  BY <2>1, <2>2, <3>1 DEF Control
    <2>3. CASE journal # {}
      <3>1. PICK e \in journal :
              /\ at' = "unlink" \/ (Handed(e.new)' /\ pending = {e.new} /\ at' = "replace")
              /\ Latest(rows, Overlooked', private) \/ at' = "replace"
        BY <1>20, <2>3, RecoverFacts
      <3> QED  BY <2>1, <3>1 DEF Control
    <2> QED  BY <2>2, <2>3
  <1>21. ASSUME Initialize  PROVE Control'
    BY <1>21, Unread DEF Initialize, Control, Handed
  <1>22. ASSUME Backfill  PROVE Control'
    <2>1. journal = {} /\ at = "backfill" /\ at' = "idle" /\ serving'
          /\ UNCHANGED <<private, pending, journal, public, signing, unnoticed>>
          /\ private \in public /\ signing \in public /\ signing = private
      BY <1>22 DEF Backfill, Control
    <2>2. Latest(rows', Overlooked', private)
      BY <1>22, <2>1, LatestBackfilled DEF Durable, Overlooked
    <2> QED  BY <2>1, <2>2 DEF Control
  <1>23. ASSUME ExportManifest  PROVE Control'
    BY <1>23, Unread DEF ExportManifest, Control, Handed
  <1>24. ASSUME ExportStream  PROVE Control'
    BY <1>24, Unread DEF ExportStream, Control, Handed
  <1>25. ASSUME ExportTaken  PROVE Control'
    BY <1>25, Unread DEF ExportTaken, Control, Handed
  <1>26. ASSUME UNCHANGED vars  PROVE Control'
    BY <1>26, Unread DEF vars, Control, Handed
  <1> QED  BY <1>1, <1>2, <1>3, <1>4, <1>5, <1>6, <1>7, <1>8, <1>9, <1>10, <1>11, <1>12, <1>13,
              <1>14, <1>15, <1>16, <1>17, <1>18, <1>19, <1>20, <1>21, <1>22, <1>23, <1>24,
              <1>25, <1>26
           DEF Next, RotationStep, StartupStep
-----------------------------------------------------------------------------
(* The rows of a range are rows of the log.                                *)
LEMMA WithinRows ==
  ASSUME Shapes, NEW from \in Nat, NEW to \in Nat
  PROVE  /\ Within(from, to) \in Seq(RowOf)
         /\ \A i \in 1..Len(Within(from, to)) : \E j \in 1..Len(rows) : Within(from, to)[i] = rows[j]
  <1> DEFINE within == {i \in 1..Len(rows) : from <= rows[i].seq /\ rows[i].seq <= to}
  <1>1. Within(from, to) = IF within = {} THEN <<>> ELSE SubSeq(rows, Min(within), Max(within))
    BY DEF Within
  <1>2. Len(rows) \in Nat /\ rows \in Seq(RowOf)
    BY DEF Shapes
  <1>3. within # {} => Min(within) \in 1..Len(rows) /\ Max(within) \in 1..Len(rows)
    BY <1>2, Extremes
  <1> HIDE DEF within
  <1>4. ASSUME NEW lo \in 1..Len(rows), NEW hi \in 1..Len(rows)
        PROVE  /\ SubSeq(rows, lo, hi) \in Seq(RowOf)
               /\ \A i \in 1..Len(SubSeq(rows, lo, hi)) :
                    \E j \in 1..Len(rows) : SubSeq(rows, lo, hi)[i] = rows[j]
    <2>1. SubSeq(rows, lo, hi) \in Seq(RowOf)
      BY <1>2
    <2>2. ASSUME NEW i \in 1..Len(SubSeq(rows, lo, hi))
          PROVE  \E j \in 1..Len(rows) : SubSeq(rows, lo, hi)[i] = rows[j]
      <3>1. lo + i - 1 \in 1..Len(rows) /\ SubSeq(rows, lo, hi)[i] = rows[lo + i - 1]
        BY <1>2
      <3> QED  BY <3>1
    <2> QED  BY <2>1, <2>2
  <1>5. CASE within = {}
    BY <1>1, <1>5
  <1>6. CASE within # {}
    <2>1. PICK lo \in 1..Len(rows), hi \in 1..Len(rows) : Within(from, to) = SubSeq(rows, lo, hi)
      BY <1>1, <1>3, <1>6
    <2> QED  BY <1>4, <2>1
  <1> QED  BY <1>5, <1>6

(* A row past the range does not change what is in it.                     *)
LEMMA WithinKept ==
  ASSUME Shapes, NEW row \in RowOf, rows' = Append(rows, row),
         NEW from \in Nat, NEW to \in Nat, to < row.seq
  PROVE  Within(from, to)' = Within(from, to)
  <1> DEFINE within == {i \in 1..Len(rows) : from <= rows[i].seq /\ rows[i].seq <= to}
             after == {i \in 1..Len(rows') : from <= rows'[i].seq /\ rows'[i].seq <= to}
  <1>1. /\ Within(from, to) = IF within = {} THEN <<>> ELSE SubSeq(rows, Min(within), Max(within))
        /\ Within(from, to)' = IF after = {} THEN <<>> ELSE SubSeq(rows', Min(after), Max(after))
    BY DEF Within
  <1>2. Len(rows) \in Nat /\ rows \in Seq(RowOf) /\ row.seq \in Nat
    BY KeysAssumption DEF Shapes, RowOf
  <1>3. /\ Len(rows') = Len(rows) + 1 /\ rows'[Len(rows) + 1] = row
        /\ \A i \in 1..Len(rows) : rows'[i] = rows[i]
    BY <1>2
  <1>4. after = within
    BY <1>2, <1>3
  <1>5. within # {} => Min(within) \in 1..Len(rows) /\ Max(within) \in 1..Len(rows)
    BY <1>2, Extremes
  <1> HIDE DEF within, after
  <1>6. \A lo, hi \in 1..Len(rows) : SubSeq(rows', lo, hi) = SubSeq(rows, lo, hi)
    BY <1>2, <1>3
  <1>7. CASE within = {}
    BY <1>1, <1>4, <1>7
  <1>8. CASE within # {}
    BY <1>1, <1>4, <1>5, <1>6, <1>8
  <1> QED  BY <1>7, <1>8

(* An export without a step of its own keeps what it relies on.            *)
LEMMA ExportsKept ==
  ASSUME Shapes, Exports, UNCHANGED <<rows, export>>, nextSeq <= nextSeq',
         nextSeq' \in Nat, serving => serving'
  PROVE  Exports'
  <1>1. /\ \A i \in 1..Len(rows) : rows[i] \in RowOf
        /\ nextSeq \in Nat
    BY KeysAssumption DEF Shapes
  <1>2. \A i \in 1..Len(rows) : rows[i].seq \in Nat
    BY <1>1, KeysAssumption DEF RowOf
  <1>3. Within(export.from, export.to)' = Within(export.from, export.to)
    BY DEF Within
  <1>4. VerifyFile(export)' = VerifyFile(export)
    BY DEF VerifyFile
  <1>5. VerifyFile([export EXCEPT !.lines = Within(export.from, export.to)])' =
        VerifyFile([export EXCEPT !.lines = Within(export.from, export.to)])
    BY <1>3 DEF VerifyFile
  <1>6. export.to \in Nat
    BY DEF Exports, ExportOf
  <1>7. \A i \in 1..Len(rows) : rows[i].seq < nextSeq'
    BY <1>1, <1>2 DEF Exports
  <1>8. export.at = "stream" => export.to < nextSeq'
    BY <1>1, <1>6 DEF Exports
  <1> QED  BY <1>4, <1>5, <1>7, <1>8 DEF Exports

(* An export that ends or is interrupted leaves nothing to rely on.        *)
LEMMA ExportsClosed ==
  ASSUME Shapes, Exports, UNCHANGED <<rows, nextSeq>>, export' = NoExport
  PROVE  Exports'
  <1>1. NoExport \in ExportOf /\ NoExport.at = "idle"
    BY DEF NoExport, ExportOf
  <1> QED  BY <1>1 DEF Exports

(* Nor does a row that is written meanwhile reach it.                      *)
LEMMA ExportsAdded ==
  ASSUME Shapes, Exports, UNCHANGED <<export, serving>>, NEW new \in Keys \cup {NoKey},
         Insert(new)
  PROVE  Exports'
  <1>1. PICK row \in RowOf : rows' = Append(rows, row) /\ row.seq = nextSeq
    <2> DEFINE row == [seq |-> nextSeq, key |-> signing, signer |-> signing, new |-> new]
    <2>1. row \in RowOf /\ row.seq = nextSeq
      BY KeysAssumption DEF RowOf, Shapes, Insert
    <2>2. rows' = Append(rows, row)
      BY DEF Insert
    <2> QED  BY <2>1, <2>2
  <1>2. /\ Len(rows) \in Nat /\ Len(rows') = Len(rows) + 1 /\ rows'[Len(rows) + 1] = row
        /\ \A i \in 1..Len(rows) : rows'[i] = rows[i] /\ rows[i] \in RowOf
    BY <1>1 DEF Shapes
  <1>3. nextSeq \in Nat /\ nextSeq' = nextSeq + 1 /\ \A i \in 1..Len(rows) : rows[i].seq \in Nat
    <2>1. nextSeq \in Nat
      BY KeysAssumption DEF Shapes
    <2>2. nextSeq' = nextSeq + 1
      BY DEF Insert
    <2>3. \A i \in 1..Len(rows) : rows[i].seq \in 1..MaxSeq
      BY <1>2 DEF RowOf
    <2> QED  BY <2>1, <2>2, <2>3, KeysAssumption
  <1>4. \A i \in 1..Len(rows') : rows'[i].seq < nextSeq'
    BY <1>1, <1>2, <1>3 DEF Exports
  <1>5. export.from \in Nat /\ export.to \in Nat
    BY DEF Exports, ExportOf
  <1>6. export.at = "stream" => Within(export.from, export.to)' = Within(export.from, export.to)
    <2>1. ASSUME NEW f \in Nat, NEW t \in Nat, t < nextSeq
          PROVE  Within(f, t)' = Within(f, t)
      BY <1>1, <2>1, WithinKept
    <2>2. export.at = "stream" => export.to < nextSeq
      BY DEF Exports
    <2>3. PICK f \in Nat, t \in Nat : f = export.from /\ t = export.to
      BY <1>5
    <2>4. Within(export.from, export.to) = Within(f, t)
      BY <2>3
    <2>5. export'.from = f /\ export'.to = t
      BY <2>3
    <2>6. Within(export.from, export.to)' = Within(f, t)'
      BY <2>5 DEF Within
    <2> QED  BY <2>1, <2>2, <2>3, <2>4, <2>6
  <1>7. VerifyFile(export)' = VerifyFile(export)
    BY DEF VerifyFile
  <1>8. export.at = "stream" =>
          VerifyFile([export EXCEPT !.lines = Within(export.from, export.to)])' =
          VerifyFile([export EXCEPT !.lines = Within(export.from, export.to)])
    BY <1>6 DEF VerifyFile
  <1>9. export.at = "stream" => export.to < nextSeq'
    BY <1>3, <1>5 DEF Exports
  <1> QED  BY <1>4, <1>7, <1>8, <1>9 DEF Exports

(* A range that prepare accepts is one that an auditor accepts.            *)
LEMMA AcceptedVerifies ==
  ASSUME Shapes, NEW e \in ExportOf, Exportable(e.from, e.to)
  PROVE  LET range == Within(e.from, e.to)
             keys == {range[i].key : i \in 1..Len(range)}
         IN  /\ keys \in SUBSET Keys
             /\ VerifyFile([e EXCEPT !.at = "stream", !.keys = keys, !.lines = range])
  <1> DEFINE range == Within(e.from, e.to)
             keys == {range[i].key : i \in 1..Len(range)}
             file == [e EXCEPT !.at = "stream", !.keys = keys, !.lines = range]
  <1>1. range \in Seq(RowOf)
    BY WithinRows DEF ExportOf
  <1>2. \A i \in 1..Len(range) : range[i] \in RowOf
    BY <1>1
  <1>3. /\ Len(range) = e.to - e.from + 1
        /\ \A i \in 1..Len(range) : /\ range[i].seq = e.from + i - 1
                                    /\ range[i].key # NoKey /\ range[i].signer = range[i].key
    BY DEF Exportable, VerifyRecord
  <1>4. file.from = e.from /\ file.to = e.to /\ file.keys = keys /\ file.lines = range
    BY DEF ExportOf
  <1>5. keys \in SUBSET Keys
    BY <1>2, <1>3 DEF RowOf
  <1> HIDE DEF range
  <1>6. \A i \in 1..Len(range) : range[i].key \in keys
    OBVIOUS
  <1> HIDE DEF keys, file
  <1>7. VerifyFile(file)
    <2>1. \A i \in 1..Len(range) : /\ range[i].seq = file.from + i - 1
                                   /\ VerifyRecord(range[i], file.keys, NoKey)
      BY <1>3, <1>4, <1>6 DEF VerifyRecord
    <2>2. {range[i].key : i \in 1..Len(range)} = file.keys
      BY <1>4 DEF keys
    <2> QED  BY <1>3, <1>4, <2>1, <2>2 DEF VerifyFile
  <1> QED  BY <1>5, <1>7 DEF range, keys, file

-----------------------------------------------------------------------------
(* One key at most is ever staged, and every flag keeps its type.          *)
LEMMA FlagsStep ==
  ASSUME Shapes, Flags, [Next]_vars  PROVE Flags'
  <1> USE KeysAssumption DEF files, memory, Goto, Flags
  <1>1. ASSUME BeginWrite  PROVE Flags'
    BY <1>1 DEF BeginWrite
  <1>2. ASSUME Lock  PROVE Flags'
    BY <1>2 DEF Lock
  <1>3. ASSUME Write  PROVE Flags'
    BY <1>3 DEF Write
  <1>4. ASSUME Rotate  PROVE Flags'
    BY <1>4 DEF Rotate
  <1>5. ASSUME Publish  PROVE Flags'
    BY <1>5 DEF Publish
  <1>6. ASSUME Stage  PROVE Flags'
    BY <1>6 DEF Stage, Shapes
  <1>7. ASSUME StageJournal  PROVE Flags'
    BY <1>7 DEF StageJournal
  <1>8. ASSUME Handoff  PROVE Flags'
    BY <1>8 DEF Handoff
  <1>9. ASSUME HandoffFails  PROVE Flags'
    BY <1>9 DEF HandoffFails
  <1>10. ASSUME MarkHandoff  PROVE Flags'
    BY <1>10 DEF MarkHandoff, Phase
  <1>11. ASSUME Replace  PROVE Flags'
    BY <1>11 DEF Replace
  <1>12. ASSUME JournalPromoted  PROVE Flags'
    BY <1>12 DEF JournalPromoted, Phase
  <1>13. ASSUME SwapKey  PROVE Flags'
    BY <1>13 DEF SwapKey
  <1>14. ASSUME Unlink  PROVE Flags'
    BY <1>14 DEF Unlink
  <1>15. ASSUME Close  PROVE Flags'
    BY <1>15 DEF Close
  <1>16. ASSUME FileFails  PROVE Flags'
    BY <1>16 DEF FileFails
  <1>17. ASSUME Crash  PROVE Flags'
    <2>1. crashes' \in 0..MaxCrashes
      BY <1>17 DEF Crash
    <2>2. UNCHANGED <<pending, available>> /\ serving' = FALSE /\ writing' = "idle"
      BY <1>17 DEF Crash
    <2> QED  BY <2>1, <2>2
  <1>18. ASSUME OperatorRestart  PROVE Flags'
    BY <1>18 DEF OperatorRestart
  <1>19. ASSUME Recover  PROVE Flags'
    BY <1>19 DEF Recover
  <1>20. ASSUME Initialize  PROVE Flags'
    BY <1>20 DEF Initialize
  <1>21. ASSUME Backfill  PROVE Flags'
    BY <1>21 DEF Backfill
  <1>22. ASSUME HandoffRepeats  PROVE Flags'
    BY <1>22 DEF HandoffRepeats
  <1>23. ASSUME ExportManifest  PROVE Flags'
    BY <1>23 DEF ExportManifest
  <1>24. ASSUME ExportStream  PROVE Flags'
    BY <1>24 DEF ExportStream
  <1>25. ASSUME ExportTaken  PROVE Flags'
    BY <1>25 DEF ExportTaken
  <1>26. ASSUME UNCHANGED vars  PROVE Flags'
    BY <1>26 DEF vars
  <1> QED  BY <1>1, <1>2, <1>3, <1>4, <1>5, <1>6, <1>7, <1>8, <1>9, <1>10,
              <1>11, <1>12, <1>13, <1>14, <1>15, <1>16, <1>17, <1>18, <1>19, <1>20,
              <1>21, <1>22, <1>23, <1>24, <1>25, <1>26
           DEF Next, RotationStep, StartupStep

-----------------------------------------------------------------------------
(* Every step keeps what an export under way relies on.                    *)
LEMMA ExportsStep ==
  ASSUME Shapes, Control, Flags, Exports, [Next]_vars  PROVE Exports'
  <1> USE DEF files, memory, chain, history, Goto
  <1>N. nextSeq \in Nat /\ nextSeq <= nextSeq + 1 /\ nextSeq + 1 \in Nat
    BY KeysAssumption DEF Shapes
  <1>1. ASSUME BeginWrite  PROVE Exports'
    BY <1>1, <1>N, ExportsKept DEF BeginWrite
  <1>2. ASSUME Lock  PROVE Exports'
    BY <1>2, <1>N, ExportsKept DEF Lock
  <1>3. ASSUME Write  PROVE Exports'
    <2>1. CASE Insert(NoKey)
      BY <1>3, <2>1, ExportsAdded DEF Write
    <2>2. CASE InsertFails
      BY <1>3, <1>N, <2>2, ExportsKept DEF Write, InsertFails
    <2> QED  BY <1>3, <2>1, <2>2 DEF Write
  <1>4. ASSUME Rotate  PROVE Exports'
    BY <1>4, <1>N, ExportsKept DEF Rotate
  <1>5. ASSUME Publish  PROVE Exports'
    BY <1>5, <1>N, ExportsKept DEF Publish
  <1>6. ASSUME Stage  PROVE Exports'
    BY <1>6, <1>N, ExportsKept DEF Stage
  <1>7. ASSUME StageJournal  PROVE Exports'
    BY <1>7, <1>N, ExportsKept DEF StageJournal
  <1>8. ASSUME Handoff  PROVE Exports'
    BY <1>8, ExportsAdded DEF Handoff, Shapes
  <1>9. ASSUME HandoffFails  PROVE Exports'
    <2>1. CASE InsertFails
      BY <1>9, <1>N, <2>1, ExportsKept DEF HandoffFails, InsertFails
    <2>2. CASE Insert(generated)
      BY <1>9, <2>2, ExportsAdded DEF HandoffFails, Shapes
    <2> QED  BY <1>9, <2>1, <2>2 DEF HandoffFails
  <1>10. ASSUME MarkHandoff  PROVE Exports'
    BY <1>10, <1>N, ExportsKept DEF MarkHandoff, Phase
  <1>11. ASSUME Replace  PROVE Exports'
    BY <1>11, <1>N, ExportsKept DEF Replace
  <1>12. ASSUME JournalPromoted  PROVE Exports'
    BY <1>12, <1>N, ExportsKept DEF JournalPromoted, Phase
  <1>13. ASSUME SwapKey  PROVE Exports'
    BY <1>13, <1>N, ExportsKept DEF SwapKey
  <1>14. ASSUME Unlink  PROVE Exports'
    BY <1>14, <1>N, ExportsKept DEF Unlink
  <1>15. ASSUME Close  PROVE Exports'
    BY <1>15, <1>N, ExportsKept DEF Close
  <1>16. ASSUME FileFails  PROVE Exports'
    BY <1>16, <1>N, ExportsKept DEF FileFails
  <1>17. ASSUME Crash  PROVE Exports'
    BY <1>17, ExportsClosed DEF Crash
  <1>18. ASSUME OperatorRestart  PROVE Exports'
    BY <1>18, ExportsClosed DEF OperatorRestart
  <1>19. ASSUME Recover  PROVE Exports'
    BY <1>19, <1>N, ExportsKept DEF Recover
  <1>20. ASSUME Initialize  PROVE Exports'
    BY <1>20, <1>N, ExportsKept DEF Initialize
  <1>21. ASSUME Backfill  PROVE Exports'
    <2>1. ~serving /\ export.at = "idle"
      BY <1>21 DEF Backfill, Control, Exports
    <2>2. \A i \in 1..Len(rows') : rows'[i].seq < nextSeq'
      BY <1>21, Backfilled DEF Backfill, Exports
    <2> QED  BY <1>21, <2>1, <2>2 DEF Backfill, Exports
  <1>22. ASSUME HandoffRepeats  PROVE Exports'
    BY <1>22, ExportsAdded DEF HandoffRepeats, Shapes
  <1>23. ASSUME ExportManifest  PROVE Exports'
    <2> DEFINE Taken(from, to) ==
                 /\ Exportable(from, to)
                 /\ export' = [NoExport EXCEPT !.at = "stream", !.from = from, !.to = to,
                                 !.keys = {Within(from, to)[i].key : i \in 1..Len(Within(from, to))}]
    <2>0. PICK to \in 1..MaxSeq : \E from \in 1..to : Taken(from, to)
      BY <1>23 DEF ExportManifest
    <2>1. PICK from \in 1..to : Taken(from, to)
      BY <2>0
    <2>2. from \in Nat /\ to \in Nat /\ from <= to /\ UNCHANGED <<rows, nextSeq, serving, public>> /\ serving
      BY <1>23, KeysAssumption DEF ExportManifest, LoopRuns
    <2> DEFINE range == Within(from, to)
               keys == {range[i].key : i \in 1..Len(range)}
               e == [NoExport EXCEPT !.from = from, !.to = to]
               file == [e EXCEPT !.at = "stream", !.keys = keys, !.lines = range]
    <2>3. e \in ExportOf /\ e.from = from /\ e.to = to
      <3>1. <<>> \in Seq(RowOf)
        OBVIOUS
      <3> QED  BY <2>2, <3>1 DEF NoExport, ExportOf
    <2>4. keys \in SUBSET Keys /\ VerifyFile(file)
      BY <2>1, <2>3, AcceptedVerifies, ZenonT(30)
    <2>5. to < nextSeq
      <3>1. to - from + 1 \in 1..Len(range) /\ range[to - from + 1].seq = to
        BY <2>1, <2>2 DEF Exportable
      <3>2. PICK j \in 1..Len(rows) : range[to - from + 1] = rows[j]
        BY <2>2, <3>1, WithinRows
      <3> HIDE DEF range
      <3> QED  BY <3>1, <3>2 DEF Exports
    <2>6. export' = [NoExport EXCEPT !.at = "stream", !.from = from, !.to = to, !.keys = keys]
      BY <2>1
    <2>7. range \in Seq(RowOf)
      BY <2>2, WithinRows
    <2> HIDE DEF keys
    <2>8. /\ export' \in ExportOf /\ export'.at = "stream"
          /\ export'.from = from /\ export'.to = to /\ export'.keys = keys
      <3>1. <<>> \in Seq(RowOf)
        OBVIOUS
      <3>2. export' = [at |-> "stream", from |-> from, to |-> to, keys |-> keys, lines |-> <<>>]
        BY <2>6 DEF NoExport
      <3> QED  BY <2>2, <2>4, <3>1, <3>2 DEF ExportOf
    <2>9. file.from = from /\ file.to = to /\ file.keys = keys /\ file.lines = range
      BY DEF NoExport
    <2>10. Within(export.from, export.to)' = range
      BY <2>2, <2>8 DEF Within
    <2> HIDE DEF range, file
    <2>11. VerifyFile([export EXCEPT !.lines = Within(export.from, export.to)])'
      BY <2>4, <2>8, <2>9, <2>10 DEF VerifyFile, ExportOf
    <2> QED  BY <2>2, <2>5, <2>8, <2>11 DEF Exports
  <1>24. ASSUME ExportStream  PROVE Exports'
    <2> DEFINE range == Within(export.from, export.to)
    <2>1. export.at = "stream" /\ export' = [export EXCEPT !.at = "done", !.lines = range]
      BY <1>24 DEF ExportStream
    <2>2. VerifyFile([export EXCEPT !.lines = range])
      BY <2>1 DEF Exports
    <2>3. range \in Seq(RowOf)
      BY WithinRows DEF Exports, ExportOf
    <2> HIDE DEF range
    <2>4. export' \in ExportOf /\ export'.at = "done"
      BY <2>1, <2>3 DEF Exports, ExportOf
    <2>5. VerifyFile(export')
      <3> DEFINE file == [export EXCEPT !.lines = range]
      <3>1. /\ export'.from = file.from /\ export'.to = file.to
            /\ export'.keys = file.keys /\ export'.lines = file.lines
        BY <2>1 DEF Exports, ExportOf
      <3> QED  BY <2>2, <3>1 DEF VerifyFile
    <2> QED  BY <1>24, <2>4, <2>5 DEF ExportStream, LoopRuns, Exports
  <1>25. ASSUME ExportTaken  PROVE Exports'
    BY <1>25, ExportsClosed DEF ExportTaken
  <1>26. ASSUME UNCHANGED vars  PROVE Exports'
    BY <1>26, <1>N, ExportsKept DEF vars
  <1> QED  BY <1>1, <1>2, <1>3, <1>4, <1>5, <1>6, <1>7, <1>8, <1>9, <1>10,
              <1>11, <1>12, <1>13, <1>14, <1>15, <1>16, <1>17, <1>18, <1>19, <1>20,
              <1>21, <1>22, <1>23, <1>24, <1>25, <1>26
           DEF Next, RotationStep, StartupStep

-----------------------------------------------------------------------------
(* The gateway starts with one key, and at most a row from before key ids. *)
LEMMA InitKeys == Init => KeysInv
  <1> SUFFICES ASSUME Init  PROVE KeysInv
    OBVIOUS
  <1>1. LegacyRow \in RowOf /\ LegacyRow.new = NoKey /\ LegacyRow.key = NoKey
    BY Numbers, KeysAssumption DEF LegacyRow, RowOf
  <1>2. /\ rows \in Seq(RowOf) /\ Len(rows) \in {0, 1}
        /\ \A i \in 1..Len(rows) : rows[i].new = NoKey /\ rows[i].key = NoKey
    <2>1. CASE rows = <<>>
      BY <2>1
    <2>2. CASE rows = <<LegacyRow>>
      <3>1. <<LegacyRow>> \in Seq(RowOf) /\ Len(<<LegacyRow>>) = 1 /\ <<LegacyRow>>[1] = LegacyRow
        BY <1>1
      <3> QED  BY <1>1, <2>2, <3>1
    <2> QED  BY <2>1, <2>2 DEF Init
  <1>3. Latest(rows, Overlooked, private)
    <2>1. private = 1 /\ NoKey \in Overlooked
      BY DEF Init, Overlooked
    <2> QED  BY <1>2, <2>1 DEF Latest
  <1>4. unnoticed = {} /\ repeated = {}
    BY DEF Init
  <1>5. Shapes
    BY <1>2, Numbers, KeysAssumption DEF Init, Shapes
  <1>6. Flags
    <2>1. pending = {} /\ available = TRUE /\ serving = FALSE /\ crashes = 0 /\ writing = "idle"
      BY DEF Init
    <2>2. crashes \in 0..MaxCrashes
      BY <2>1, KeysAssumption
    <2>3. available \in BOOLEAN /\ serving \in BOOLEAN
      BY <2>1, Zenon
    <2>4. pending \subseteq Keys /\ \A p, q \in pending : p = q
      BY <2>1
    <2> QED  BY <2>1, <2>2, <2>3, <2>4, Zenon DEF Flags
  <1>7. \A i \in 1..Len(rows) : rows[i].seq < nextSeq
    BY <1>2 DEF Init, LegacyRow
  <1>8. Exports
    <2>1. <<>> \in Seq(RowOf)
      OBVIOUS
    <2> QED  BY <1>7, <2>1 DEF Init, Exports, ExportOf, NoExport
  <1> QED  BY <1>2, <1>3, <1>4, <1>5, <1>6, <1>8 DEF Init, KeysInv, Ledger, Durable, Control

(* The invariant is inductive.                                             *)
THEOREM KeysSound == Spec => []KeysInv
  <1>1. KeysInv /\ [Next]_vars => KeysInv'
    BY ShapesStep, LedgerStep, DurableStep, ControlStep, FlagsStep, ExportsStep DEF KeysInv
  <1> QED  BY <1>1, InitKeys, PTL DEF Spec

(* A writer that is available outside the write of a rotation signs with   *)
(* the newest key on record, the one on disk, whose public key is          *)
(* archived, whatever fails, with or without its row; only a rotation      *)
(* whose write raised with its row committed does not count.               *)
THEOREM SigningKeyFollows == Spec => []KeyFollowsRotation
  <1>1. ASSUME KeysInv, serving, available, at \in {"idle", "publish", "stage", "journal"}
        PROVE  signing = NewestKey /\ private = NewestKey /\ NewestKey \in public
    <2>1. Shapes /\ signing = private /\ Latest(rows, Overlooked, private) /\ private \in public
      BY <1>1 DEF KeysInv, Control
    <2>2. NewestKey = private
      BY <2>1, LatestIsNewest
    <2> QED  BY <2>1, <2>2
  <1>2. KeysInv => KeyFollowsRotation
    BY <1>1 DEF KeyFollowsRotation
  <1> QED  BY <1>2, KeysSound, PTL

(* Once the gateway has served, every row verifies with the archived keys. *)
THEOREM HistoryVerifiable == Spec => []RowsVerifiable
  <1>1. KeysInv => RowsVerifiable
    BY DEF KeysInv, Ledger, RowsVerifiable, VerifyRecord
  <1> QED  BY <1>1, KeysSound, PTL

(* Wherever rotate or recovery dies and whatever its write did, the next   *)
(* startup can complete or discard the rotation of the journal, unless     *)
(* its row was written twice or its write raised with the row committed.   *)
THEOREM RotationRecoverable == Spec => []RecoveryPossible
  <1>1. ASSUME KeysInv, NEW e \in journal
        PROVE  /\ e.new \notin repeated => Cardinality(HandoffRows(e.new)) <= 1
               /\ HandoffRows(e.new) # {} /\ private # e.new => pending = {e.new} \/ e.new \in unnoticed
    <2>1. e.new # NoKey
      BY <1>1, Numbers DEF KeysInv, Shapes
    <2>2. ASSUME e.new \notin repeated  PROVE Cardinality(HandoffRows(e.new)) <= 1
      <3>1. \A i, j \in HandoffRows(e.new) : i = j
        BY <1>1, <2>1, <2>2 DEF KeysInv, Ledger, HandoffRows
      <3>2. HandoffRows(e.new) = {} \/ \E i \in HandoffRows(e.new) : HandoffRows(e.new) = {i}
        BY <3>1
      <3>3. CASE HandoffRows(e.new) = {}
        BY <3>3, FS_EmptySet
      <3>4. ASSUME NEW i, HandoffRows(e.new) = {i}  PROVE Cardinality(HandoffRows(e.new)) <= 1
        <4>1. Cardinality({i}) = 1
          BY FS_Singleton, Zenon
        <4> QED  BY <3>4, <4>1
      <3> QED  BY <3>2, <3>3, <3>4
    <2>3. HandoffRows(e.new) # {} => e.new \in HandedKeys
      BY DEF HandoffRows, HandedKeys
    <2>4. Unwritten(e.new) \/ Missed(e.new) \/ Handed(e.new)
      BY <1>1 DEF KeysInv, Durable
    <2>5. HandoffRows(e.new) # {} /\ private # e.new => pending = {e.new} \/ e.new \in unnoticed
      BY <2>3, <2>4 DEF Unwritten, Missed, Handed
    <2> QED  BY <2>2, <2>5
  <1>2. KeysInv => RecoveryPossible
    BY <1>1 DEF RecoveryPossible
  <1> QED  BY <1>2, KeysSound, PTL

(* Files, memory, rows and control keep their types.                       *)
THEOREM TypeCorrect == Spec => []TypeOK
  <1>1. ASSUME KeysInv  PROVE Cardinality(pending) <= 1
    <2>1. pending = {} \/ \E k \in pending : pending = {k}
      BY <1>1 DEF KeysInv, Flags
    <2>2. CASE pending = {}
      BY <2>2, FS_EmptySet
    <2>3. ASSUME NEW k \in pending, pending = {k}  PROVE Cardinality(pending) <= 1
      <3>1. Cardinality({k}) = 1
        BY FS_Singleton, Zenon
      <3> QED  BY <2>3, <3>1
    <2> QED  BY <2>1, <2>2, <2>3
  <1>2. KeysInv => TypeOK
    BY <1>1 DEF KeysInv, Shapes, Flags, Exports, ExportOf, RowOf, TypeOK
  <1> QED  BY <1>2, KeysSound, PTL

(* Whatever is written, rotated or interrupted between the transactions of *)
(* an export, the file that it ends with is one that an auditor accepts.   *)
THEOREM ExportsVerify == Spec => []ExportVerifies
  <1>1. KeysInv => ExportVerifies
    BY DEF KeysInv, Exports, ExportVerifies
  <1> QED  BY <1>1, KeysSound, PTL
==============================================================================
