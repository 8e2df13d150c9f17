----------------------------- MODULE AuditChain -----------------------------
(***************************************************************************)
(* The hash-chained audit writer of services/gateway/audit_log.py          *)
(* (AuditWriter.write, _write_locked, _prev_hash, _insert).                *)
(*                                                                         *)
(* One gateway process holds one AuditWriter.  Its asyncio lock admits one *)
(* write at a time, so the state of the write in progress (pc, payload,    *)
(* prev) is the state of the lock holder.  Every await of the write is an  *)
(* action of its own: WATCH, the pointer GET, the fall-back SELECT, the    *)
(* committed INSERT, MULTI/EXEC and, after a failed EXEC, the DEL.  At     *)
(* each of them Redis or PostgreSQL may fail, the task may be cancelled,   *)
(* and the process may crash.                                              *)
(*                                                                         *)
(* SHA-256 is taken to be free of collisions: the hash of a row is modelled*)
(* as the sequence of payloads it digests, the genesis hash as the empty   *)
(* sequence.                                                               *)
(***************************************************************************)
EXTENDS Naturals, Sequences

CONSTANTS
  Payloads,    \* what a row records; two writes may record the same payload
  Faults,      \* the faults the environment may inject, a subset of AllFaults
  MaxRows      \* bound: rows committed to audit_log

AllFaults ==
  { "evict",        \* Redis drops the pointer key
    "redisError",   \* a Redis command raises (an EXEC with or without effect)
    "linkLoss",     \* the connection drops under EXEC; redis-py, which is
                    \* watching, raises it as a WatchError
    "dbError",      \* the INSERT raises and nothing is committed
    "ackLost",      \* the INSERT raises although the row is committed
    "cancel",       \* CancelledError at an await of the write
    "crash" }       \* the gateway process dies

ASSUME FaultsAssumption == Faults \subseteq AllFaults
ASSUME MaxRowsAssumption == MaxRows \in Nat

VARIABLES
  rows,        \* the committed rows of audit_log, in seq order (PostgreSQL)
  pointer,     \* the set of at most one hash at latest_audit_hash (Redis)
  dirty,       \* AuditWriter._pointer_dirty
  up,          \* the gateway process is running
  pc,          \* where the lock holder is; "idle" when the lock is free
  payload,     \* payload of the write in progress
  prev,        \* prev_hash of the attempt in progress
  touched,     \* the watched key was modified since WATCH
  inserted,    \* rows the write in progress has committed so far
  outcome      \* how the last write ended: "free" before the first one

vars == <<rows, pointer, dirty, up, pc, payload, prev, touched, inserted, outcome>>
locals == <<payload, prev, touched, inserted>>

Hashes == Seq(Payloads)
Genesis == << >>
Hash(p, e) == Append(p, e)

Row == [prev : Hashes, curr : Hashes, payload : Payloads]

Locations == {"idle", "watch", "get", "select", "insert", "exec", "invalidate"}

LastHash == IF rows = << >> THEN Genesis ELSE rows[Len(rows)].curr

NewRow == [prev |-> prev, curr |-> Hash(prev, payload), payload |-> payload]

-----------------------------------------------------------------------------
Init ==
  /\ rows = << >>
  /\ pointer = {}
  /\ dirty = TRUE
  /\ up = TRUE
  /\ pc = "idle"
  /\ payload \in Payloads
  /\ prev = Genesis
  /\ touched = FALSE
  /\ inserted = 0
  /\ outcome = "free"

(* The write ends: it returns the seq of its row, or it raises.              *)
End(how) == pc' = "idle" /\ outcome' = how
Continue(at) == pc' = at /\ UNCHANGED outcome

(* write(): take the lock and enter _write_locked.                         *)
StartWrite(e) ==
  /\ up /\ pc = "idle"
  /\ Continue("watch")
  /\ payload' = e
  /\ inserted' = 0
  /\ UNCHANGED <<rows, pointer, dirty, up, prev, touched>>

(* pipe.watch(POINTER_KEY): EXEC will fail if the key changes from here on.*)
Watch ==
  /\ pc = "watch"
  /\ Continue("get")
  /\ touched' = FALSE
  /\ UNCHANGED <<rows, pointer, dirty, up, payload, prev, inserted>>

(* _prev_hash: a clean, present pointer is trusted; a dirty or missing one *)
(* sends the write to PostgreSQL.                                          *)
GetPointer ==
  /\ pc = "get"
  /\ IF ~dirty /\ pointer # {}
       THEN /\ prev' \in pointer
            /\ Continue("insert")
       ELSE /\ Continue("select")
            /\ UNCHANGED prev
  /\ UNCHANGED <<rows, pointer, dirty, up, payload, touched, inserted>>

(* Mutant: ORDER BY seq without DESC.                                      *)
SelectLast_First ==
  /\ pc = "select"
  /\ prev' = IF rows = << >> THEN Genesis ELSE rows[1].curr
  /\ Continue("insert")
  /\ UNCHANGED <<rows, pointer, dirty, up, payload, touched, inserted>>

SelectLast ==
  /\ pc = "select"
  /\ prev' = LastHash
  /\ Continue("insert")
  /\ UNCHANGED <<rows, pointer, dirty, up, payload, touched, inserted>>

Commit == /\ Len(rows) < MaxRows
          /\ rows' = Append(rows, NewRow)

(* Mutant: the session is never committed.                                 *)
InsertRow_NotCommitted ==
  /\ pc = "insert"
  /\ inserted' = inserted + 1
  /\ Continue("exec")
  /\ UNCHANGED <<rows, pointer, dirty, up, payload, prev, touched>>

InsertRow ==
  /\ pc = "insert"
  /\ Commit
  /\ inserted' = inserted + 1
  /\ Continue("exec")
  /\ UNCHANGED <<pointer, dirty, up, payload, prev, touched>>

(* EXEC sets the pointer, unless the watched key was modified.             *)
Exec ==
  /\ pc = "exec" /\ ~touched
  /\ pointer' = {Hash(prev, payload)}
  /\ dirty' = FALSE
  /\ End("returned")
  /\ UNCHANGED <<rows, up, locals>>

(* WatchError: the loop starts again, with the row already committed.      *)
ExecWatchError ==
  /\ pc = "exec" /\ touched
  /\ Continue("watch")
  /\ UNCHANGED <<rows, pointer, dirty, up, locals>>

-----------------------------------------------------------------------------
(* Redis raises.  WATCH and GET leave the write; a GET that loses its      *)
(* watched connection restarts the loop.                                   *)
ReadFails ==
  /\ "redisError" \in Faults
  /\ \/ pc \in {"watch", "get"} /\ End("raised")
     \/ pc = "get" /\ Continue("watch")
  /\ UNCHANGED <<rows, pointer, dirty, up, locals>>

(* The pointer after an EXEC whose answer was never read.                  *)
PointerAfterUnknownExec ==
  {pointer} \cup (IF touched THEN {} ELSE {{Hash(prev, payload)}})

(* EXEC raises something that is not a WatchError: the pointer is no longer*)
(* trusted and the next step tries to delete it.                           *)
ExecFails ==
  /\ "redisError" \in Faults
  /\ pc = "exec"
  /\ pointer' \in PointerAfterUnknownExec
  /\ dirty' = TRUE
  /\ Continue("invalidate")
  /\ UNCHANGED <<rows, up, locals>>

(* The DEL of the pointer, which may itself fail; write() raises.          *)
Invalidate ==
  /\ pc = "invalidate"
  /\ \/ pointer' = {}
     \/ "redisError" \in Faults /\ pointer' = pointer
  /\ End("raised")
  /\ UNCHANGED <<rows, dirty, up, locals>>

(* The connection drops under EXEC and redis-py raises WatchError: the code*)
(* takes it for a changed key and starts the loop again.                   *)
ExecLinkLoss ==
  /\ "linkLoss" \in Faults
  /\ pc = "exec"
  /\ pointer' \in PointerAfterUnknownExec
  /\ Continue("watch")
  /\ UNCHANGED <<rows, dirty, up, locals>>

(* SELECT or INSERT raises and nothing is committed.                       *)
DatabaseFails ==
  /\ "dbError" \in Faults
  /\ pc \in {"select", "insert"}
  /\ End("raised")
  /\ UNCHANGED <<rows, pointer, dirty, up, locals>>

(* The commit took effect but session.commit() raised: no handler of       *)
(* _write_locked covers the INSERT.                                        *)
InsertAckLost ==
  /\ "ackLost" \in Faults
  /\ pc = "insert"
  /\ Commit
  /\ End("raised")
  /\ UNCHANGED <<pointer, dirty, up, locals>>

(* The await in progress is abandoned; its effect may have happened or not.*)
Interrupted ==
  /\ \/ pc = "insert" /\ Commit /\ UNCHANGED pointer
     \/ pc = "exec" /\ pointer' \in PointerAfterUnknownExec /\ UNCHANGED rows
     \/ pc = "invalidate" /\ pointer' = {} /\ UNCHANGED rows
     \/ UNCHANGED <<rows, pointer>>
  /\ pc' = "idle"
  /\ outcome' = IF pc = "idle" THEN outcome ELSE "raised"
  /\ UNCHANGED <<dirty, locals>>

(* CancelledError is no Exception: it passes every handler of the write.   *)
Cancel ==
  /\ "cancel" \in Faults
  /\ pc # "idle"
  /\ Interrupted
  /\ UNCHANGED up

Crash ==
  /\ "crash" \in Faults
  /\ up
  /\ Interrupted
  /\ up' = FALSE

(* Mutant: a new writer trusts the pointer it finds.                       *)
Restart_Trusting ==
  /\ ~up
  /\ up' = TRUE
  /\ dirty' = FALSE
  /\ UNCHANGED <<rows, pointer, pc, locals, outcome>>

(* A new AuditWriter starts with a dirty pointer.                          *)
Restart ==
  /\ ~up
  /\ up' = TRUE
  /\ dirty' = TRUE
  /\ UNCHANGED <<rows, pointer, pc, locals, outcome>>

PointerEvicted ==
  /\ "evict" \in Faults
  /\ pointer # {}
  /\ pointer' = {}
  /\ touched' = TRUE
  /\ UNCHANGED <<rows, dirty, up, pc, payload, prev, inserted, outcome>>

Next ==
  \/ \E e \in Payloads : StartWrite(e)
  \/ Watch \/ GetPointer \/ SelectLast \/ InsertRow
  \/ Exec \/ ExecWatchError
  \/ ReadFails \/ ExecFails \/ Invalidate \/ DatabaseFails
  \/ Crash \/ Restart \/ PointerEvicted

(* The writer under every fault it handles.                                *)
Spec == Init /\ [][Next]_vars

(* The faults it does not handle (see the README): the row is committed,   *)
(* the pointer is not, and nothing marks the cache as dirty.               *)
Forks == ExecLinkLoss \/ InsertAckLost \/ Cancel

LossyNext == Next \/ Forks

(* The writer under every fault at once.                                   *)
LossySpec == Init /\ [][LossyNext]_vars

-----------------------------------------------------------------------------
(* The promise of the writer to its callers, as a ledger of payloads: the  *)
(* hash of the last row commits to the whole ledger.                       *)
CallPhase ==
  IF pc = "idle" THEN outcome ELSE IF inserted = 0 THEN "called" ELSE "recorded"

Ledger == INSTANCE AuditLedger
            WITH ledger <- LastHash, request <- payload, phase <- CallPhase

(* The writer implements the ledger its callers rely on: every step is a   *)
(* step of the call or the append of its payload to the whole history.     *)
LedgerSpec == Ledger!Spec

-----------------------------------------------------------------------------
(* The state of a writer, its database and its cache has these types.      *)
TypeOK ==
  /\ rows \in Seq(Row)
  /\ pointer \in SUBSET Hashes
  /\ dirty \in BOOLEAN
  /\ up \in BOOLEAN
  /\ pc \in Locations
  /\ payload \in Payloads
  /\ prev \in Hashes
  /\ touched \in BOOLEAN
  /\ inserted \in Nat
  /\ outcome \in {"free", "returned", "raised"}

(* Row i continues the chain as verify_record checks it: its prev_hash is  *)
(* the hash of the row before it and its curr_hash digests its payload.    *)
LinkOK(i) ==
  /\ rows[i].prev = IF i = 1 THEN Genesis ELSE rows[i - 1].curr
  /\ rows[i].curr = Hash(rows[i].prev, rows[i].payload)

(* The chain never forks: every committed row continues the row committed  *)
(* before it, whatever failed, was retried or was restarted in between.    *)
ChainLinear == \A i \in 1..Len(rows) : LinkOK(i)

(* "No record, no action": when write() returns, the last committed row is *)
(* the one it recorded and the pointer names it, unless it was evicted.    *)
ReturnedIsRecorded ==
  outcome = "returned" /\ pc = "idle" =>
    /\ rows # << >> /\ rows[Len(rows)].payload = payload
    /\ pointer \subseteq {LastHash}

(* What makes the chain linear, at every await of the write: a hash read   *)
(* from the cache or from PostgreSQL is still the last one when the INSERT *)
(* uses it, and a clean cache holds no older hash, except between the      *)
(* INSERT and the EXEC of one write, which a modified key makes fail.      *)
PrevIsLast == pc = "insert" => prev = LastHash

RowCommitted ==
  /\ pc = "exec" =>
       /\ rows # << >> /\ rows[Len(rows)].payload = payload
       /\ LastHash = Hash(prev, payload)
  /\ pc \in {"exec", "invalidate"} => inserted > 0

PointerFresh ==
  /\ up /\ ~dirty /\ pc # "exec" => pointer \subseteq {LastHash}
  /\ pc \in {"get", "select", "insert", "exec"} /\ touched => pointer = {}
  /\ pc = "invalidate" => dirty
  /\ ~up => pc = "idle"

WriterInv ==
  /\ TypeOK
  /\ ChainLinear
  /\ PrevIsLast
  /\ RowCommitted
  /\ PointerFresh
  /\ ReturnedIsRecorded

(* Whatever fails, the rows form one tree rooted in the genesis hash: a    *)
(* fork is the worst that can happen, never a row that continues a hash no *)
(* committed row has, nor a pointer to one.                                *)
Committed(h) == \E i \in 1..Len(rows) : rows[i].curr = h

ChainRooted ==
  \A i \in 1..Len(rows) :
    rows[i].prev = Genesis \/ \E j \in 1..(i - 1) : rows[j].curr = rows[i].prev

PointerCommitted == \A h \in pointer : Committed(h)

RootedInv ==
  /\ TypeOK
  /\ ChainRooted
  /\ PointerCommitted
  /\ pc = "insert" => prev = Genesis \/ Committed(prev)
  /\ pc = "exec" => Committed(Hash(prev, payload))
=============================================================================
