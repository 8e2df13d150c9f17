------------------------- MODULE ApprovalLifecycle -------------------------
(***************************************************************************)
(* Human approvals, services/gateway/approvals.py (ApprovalStore), with    *)
(* the calls of jsonrpc_interceptor.py that ask for one and redeem it and  *)
(* the admin endpoints of main.py that grant and list them.                *)
(*                                                                         *)
(* Every coroutine of the store holds a pooled connection from its SELECT  *)
(* to its commit, and waits in between: approve and redeem for the row     *)
(* lock (FOR UPDATE), approve and expire_stale for the audit writer, which *)
(* needs a connection of the same pool, and the UPDATEs of expire_stale,   *)
(* which read without a lock, for the lock again.  A coroutine that fails  *)
(* or dies with the process rolls back; its audit rows stay.  A restart    *)
(* runs expire_stale, as listing the approvals does.                       *)
(***************************************************************************)
EXTENDS Naturals, FiniteSets

CONSTANTS
  Calls,      \* tools/call messages of clients
  Requests,   \* what a call asks for: its identity, server, tool and arguments
  Askings,    \* which call may ask for what: functions from Calls to Requests
  Admins,     \* requests of the approve endpoint
  Sweepers,   \* runs of expire_stale
  TTL,        \* approval_ttl_seconds
  MaxTime,    \* bound: the clock
  PoolSize    \* connections of the database pool

ASSUME NumbersAssumption == TTL \in Nat /\ MaxTime \in Nat /\ PoolSize \in Nat \ {0}
ASSUME AskingsAssumption == Askings \subseteq [Calls -> Requests]
ASSUME ActorsAssumption ==
  /\ IsFiniteSet(Calls) /\ IsFiniteSet(Admins) /\ IsFiniteSet(Sweepers)
  /\ Calls \cap Admins = {} /\ Calls \cap Sweepers = {} /\ Admins \cap Sweepers = {}

VARIABLES
  now,       \* the clock
  rows,      \* the approvals table: a function from the approval ids created so
             \* far (a fresh id is named by the call that asked for it)
  audit,     \* the audit rows: a set of events
  pc,        \* where each call, admin request and sweep is
  on,        \* the approval id that a call or an admin request names
  asked,     \* what each call asks for
  read,      \* the stale ids that a sweep read
  left,      \* those it has still to audit
  forwarded  \* the calls sent upstream

vars == <<now, rows, audit, pc, on, asked, read, left, forwarded>>
sweeps == <<read, left>>

Actors == Calls \cup Admins \cup Sweepers
Nothing == "nothing"

Holding == {"redeem", "grant", "granted", "expire", "expired"}
Connected == Holding \cup {"lock", "sweep"}
Labels == Connected \cup {"new", "create", "validate", "forward", "done"}

Event(name, subject) == [event |-> name, subject |-> subject]

Init ==
  /\ now = 0 /\ rows = [id \in {} |-> Nothing] /\ audit = {} /\ forwarded = {}
  /\ pc = [x \in Actors |-> "new"]
  /\ on = [x \in Calls \cup Admins |-> Nothing]
  /\ asked \in Askings
  /\ read = [s \in Sweepers |-> {}] /\ left = [s \in Sweepers |-> {}]

Free == PoolSize - Cardinality({x \in Actors : pc[x] \in Connected})

(* Mutant: the rows are selected without FOR UPDATE.                       *)
Locked_Never(id) == FALSE
Locked(id) == \E x \in Calls \cup Admins : on[x] = id /\ pc[x] \in Holding

Expired(id) == rows[id].expires < now

Goto(x, label) == pc' = [pc EXCEPT ![x] = label]
SetStatus(ids, status) ==
  rows' = [id \in DOMAIN rows |->
             IF id \in ids THEN [rows[id] EXCEPT !.status = status] ELSE rows[id]]

-----------------------------------------------------------------------------
(* A call that lands in the approval band: its row is audited first, then  *)
(* the approval is created, and the client is told its id.                 *)
AuditRequired(c) ==
  /\ pc[c] = "new"
  /\ Free > 0
  /\ audit' = audit \cup {Event("required", c)}
  /\ Goto(c, "create")
  /\ UNCHANGED <<now, rows, on, asked, sweeps, forwarded>>

Create(c) ==
  /\ pc[c] = "create"
  /\ Free > 0
  /\ rows' = [id \in DOMAIN rows \cup {c} |->
                IF id = c THEN [ request |-> asked[c], expires |-> now + TTL,
                                 status |-> "pending", consumed |-> FALSE ]
                ELSE rows[id]]
  /\ Goto(c, "done")
  /\ UNCHANGED <<now, audit, on, asked, sweeps, forwarded>>

(* The SELECT of redeem or approve: a connection first, then the lock.     *)
Connect(x) ==
  /\ pc[x] = "new"
  /\ Free > 0
  /\ \E id \in DOMAIN rows : on' = [on EXCEPT ![x] = id]
  /\ Goto(x, "lock")
  /\ UNCHANGED <<now, rows, audit, asked, sweeps, forwarded>>

(* Mutant: the arguments are not compared with the approved ones.          *)
Redeemable_AnyArguments(c, id) ==
  ~rows[id].consumed /\ ~Expired(id) /\ rows[id].status = "approved"

Redeemable(c, id) ==
  /\ ~rows[id].consumed
  /\ ~Expired(id)
  /\ rows[id].status = "approved"
  /\ rows[id].request = asked[c]

(* redeem denies; a pending row found expired is marked so, and the call   *)
(* is denied and audited as EXPIRED if the audit log can be written.       *)
Refuse(c) ==
  /\ pc[c] = "lock" /\ ~Locked(on[c])
  /\ ~Redeemable(c, on[c])
  /\ SetStatus({id \in {on[c]} : rows[id].status = "pending" /\ Expired(id)}, "expired")
  /\ audit' \in {audit} \cup
       {audit \cup {Event("expired", id)} :
          id \in {i \in {on[c]} : ~rows[i].consumed /\ Expired(i)}}
  /\ Goto(c, "done")
  /\ UNCHANGED <<now, on, asked, sweeps, forwarded>>

Accept(c) ==
  /\ pc[c] = "lock" /\ ~Locked(on[c])
  /\ Redeemable(c, on[c])
  /\ Goto(c, "redeem")
  /\ UNCHANGED <<now, rows, audit, on, asked, sweeps, forwarded>>

CommitRedeem(c) ==
  /\ pc[c] = "redeem"
  /\ rows' = [rows EXCEPT ![on[c]].consumed = TRUE]
  /\ Goto(c, "validate")
  /\ UNCHANGED <<now, audit, on, asked, sweeps, forwarded>>

(* The call is forwarded after its ALLOW row; DENY_VALIDATION is FailCall. *)
AuditAllow(c) ==
  /\ pc[c] = "validate"
  /\ Free > 0
  /\ audit' = audit \cup {Event("allow", c)}
  /\ Goto(c, "forward")
  /\ UNCHANGED <<now, rows, on, asked, sweeps, forwarded>>

ForwardCall(c) ==
  /\ pc[c] = "forward"
  /\ forwarded' = forwarded \cup {c}
  /\ Goto(c, "done")
  /\ UNCHANGED <<now, rows, audit, on, asked, sweeps>>

-----------------------------------------------------------------------------
(* approve, once it has the lock; LookupError changes nothing.             *)
Judge(a) ==
  /\ pc[a] = "lock" /\ ~Locked(on[a])
  /\ Goto(a, IF rows[on[a]].status # "pending" THEN "done"
             ELSE IF Expired(on[a]) THEN "expire" ELSE "grant")
  /\ UNCHANGED <<now, rows, audit, on, asked, sweeps, forwarded>>

(* The audit writer needs a connection next to the one held.               *)
AuditVerdict(a) ==
  /\ Free > 0
  /\ \/ /\ pc[a] = "grant" /\ Goto(a, "granted")
        /\ audit' = audit \cup {Event("approved", on[a])}
     \/ /\ pc[a] = "expire" /\ Goto(a, "expired")
        /\ audit' = audit \cup {Event("expired", on[a])}
  /\ UNCHANGED <<now, rows, on, asked, sweeps, forwarded>>

CommitVerdict(a) ==
  /\ \/ pc[a] = "granted" /\ SetStatus({on[a]}, "approved")
     \/ pc[a] = "expired" /\ SetStatus({on[a]}, "expired")
  /\ Goto(a, "done")
  /\ UNCHANGED <<now, audit, on, asked, sweeps, forwarded>>

-----------------------------------------------------------------------------
(* Mutant: the query takes the last second of an approval for stale.       *)
Stale_LastSecond == {id \in DOMAIN rows : rows[id].status = "pending" /\ rows[id].expires <= now}
Stale == {id \in DOMAIN rows : rows[id].status = "pending" /\ Expired(id)}

(* expire_stale reads without a lock.                                      *)
StartSweep(s) ==
  /\ pc[s] = "new"
  /\ Free > 0
  /\ read' = [read EXCEPT ![s] = Stale] /\ left' = [left EXCEPT ![s] = Stale]
  /\ Goto(s, "sweep")
  /\ UNCHANGED <<now, rows, audit, on, asked, forwarded>>

AuditStale(s) ==
  /\ pc[s] = "sweep"
  /\ Free > 0
  /\ \E id \in left[s] :
       /\ audit' = audit \cup {Event("expired", id)}
       /\ left' = [left EXCEPT ![s] = @ \ {id}]
  /\ UNCHANGED <<now, rows, pc, on, asked, read, forwarded>>

(* Its UPDATEs wait for the row locks, and overwrite what was decided.     *)
CommitSweep(s) ==
  /\ pc[s] = "sweep" /\ left[s] = {}
  /\ \A id \in read[s] : ~Locked(id)
  /\ SetStatus(read[s], "expired")
  /\ Goto(s, "done")
  /\ UNCHANGED <<now, audit, on, asked, sweeps, forwarded>>

-----------------------------------------------------------------------------
(* Who waits for a connection of the pool.                                 *)
Starved(x) ==
  \/ pc[x] \in {"create", "validate", "grant", "expire"}
  \/ pc[x] = "sweep" /\ left[x] # {}

(* Mutant: the pool has no timeout.                                        *)
PoolTimeout_Never(x) == FALSE /\ UNCHANGED vars

(* No connection within pool_timeout: what waited for it raises.           *)
PoolTimeout(x) ==
  /\ Starved(x)
  /\ Free = 0
  /\ Goto(x, "done")
  /\ UNCHANGED <<now, rows, audit, on, asked, sweeps, forwarded>>

(* The audit row that a coroutine is about to write.                       *)
Writing(x) ==
  CASE pc[x] = "validate" -> {Event("allow", x)}
    [] pc[x] = "grant" -> {Event("approved", on[x])}
    [] pc[x] = "expire" -> {Event("expired", on[x])}
    [] pc[x] = "sweep" -> {Event("expired", id) : id \in left[x]}
    [] OTHER -> {}

(* A command raises, the task is cancelled or the process dies: the        *)
(* transaction is rolled back, the audit row may have been recorded.       *)
Fail(x) ==
  /\ pc[x] \notin {"new", "done"}
  /\ audit' \in {audit} \cup {audit \cup {e} : e \in Writing(x)}
  /\ Goto(x, "done")
  /\ UNCHANGED <<now, rows, on, asked, sweeps, forwarded>>

Tick ==
  /\ now < MaxTime
  /\ now' = now + 1
  /\ UNCHANGED <<rows, audit, pc, on, asked, sweeps, forwarded>>

CallStep(c) ==
  Create(c) \/ Refuse(c) \/ Accept(c) \/ CommitRedeem(c) \/ AuditAllow(c) \/ ForwardCall(c)
AdminStep(a) == Judge(a) \/ AuditVerdict(a) \/ CommitVerdict(a)
SweepStep(s) == AuditStale(s) \/ CommitSweep(s)

Next ==
  \/ \E c \in Calls : AuditRequired(c) \/ Connect(c) \/ CallStep(c)
  \/ \E a \in Admins : Connect(a) \/ AdminStep(a)
  \/ \E s \in Sweepers : StartSweep(s) \/ SweepStep(s)
  \/ \E x \in Actors : PoolTimeout(x) \/ Fail(x)
  \/ Tick

Spec == Init /\ [][Next]_vars

(* What is under way goes on: PostgreSQL answers, the pool times out.      *)
FairSpec ==
  /\ Spec
  /\ \A c \in Calls : WF_vars(CallStep(c) \/ PoolTimeout(c))
  /\ \A a \in Admins : WF_vars(AdminStep(a) \/ PoolTimeout(a))
  /\ \A s \in Sweepers : WF_vars(SweepStep(s) \/ PoolTimeout(s))

-----------------------------------------------------------------------------
(* Types; the pool is never overdrawn and a row lock has one holder.       *)
TypeOK ==
  /\ now \in 0..MaxTime
  /\ DOMAIN rows \subseteq Calls
  /\ \A id \in DOMAIN rows :
       rows[id] \in [ request : Requests, expires : Nat,
                      status : {"pending", "approved", "expired"}, consumed : BOOLEAN ]
  /\ pc \in [Actors -> Labels]
  /\ \A x \in Calls \cup Admins : pc[x] \in Connected => on[x] \in DOMAIN rows
  /\ \A s \in Sweepers : left[s] \subseteq read[s] /\ read[s] \subseteq DOMAIN rows
  /\ forwarded \subseteq Calls
  /\ Free >= 0
  /\ \A x, y \in Calls \cup Admins :
       pc[x] \in Holding /\ pc[y] \in Holding /\ on[x] = on[y] => x = y

(* One approval lets one call through, whichever retries overlap, fail or  *)
(* are repeated: consumed is checked and set under the row lock.           *)
UsedOnce == \A c, d \in forwarded : on[c] = on[d] => c = d

(* A call forwarded on an approval is the call that a human approved, with *)
(* the same identity, tool and arguments, and both rows precede it.        *)
ForwardGranted ==
  \A c \in forwarded :
    /\ {Event("approved", on[c]), Event("allow", c)} \subseteq audit
    /\ rows[on[c]].request = asked[c] /\ rows[on[c]].consumed

(* What the table says of an approval is true: a grant was audited, and    *)
(* whoever marked a row as expired did so after its time.                  *)
StatusJustified ==
  \A id \in DOMAIN rows :
    /\ rows[id].status = "approved" => Event("approved", id) \in audit
    /\ rows[id].status = "expired" => Expired(id)

(* All that the gateway relies on: the store implements OneShotApproval.   *)
(* No status is taken back, a grant clears one call, of what was asked     *)
(* for, and an approval that was recorded as expired clears none, even if  *)
(* a grant that began in time commits after that.  A used approval stays   *)
(* used, whatever a sweep writes over its status.                          *)
Standing ==
  [id \in DOMAIN rows |-> IF rows[id].consumed THEN "used" ELSE rows[id].status]
Closed == {id \in Calls : Event("expired", id) \in audit}
Cleared == {c \in Calls : pc[c] \in {"validate", "forward"}}

Approvals == INSTANCE OneShotApproval
               WITH approval <- Standing, closed <- Closed, cleared <- Cleared

ApprovalSpec == Approvals!Spec

(* Requests that hold a connection or a row lock while they wait for the   *)
(* audit writer, and so for a connection, do not wait for ever.            *)
EveryRequestEnds == \A x \in Actors : pc[x] \notin {"new", "done"} ~> pc[x] = "done"
=============================================================================
