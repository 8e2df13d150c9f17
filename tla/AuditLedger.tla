---------------------------- MODULE AuditLedger ----------------------------
(***************************************************************************)
(* What AuditWriter.write (services/gateway/audit_log.py) promises its     *)
(* callers, without Redis, locks or crashes: a ledger that only grows, by  *)
(* the payload of the call in progress, and a call that returns only after *)
(* its payload was recorded.  A call that raises may have recorded it.     *)
(***************************************************************************)
EXTENDS Sequences

CONSTANT Payloads    \* what a call asks to record

VARIABLES
  ledger,    \* the recorded payloads, in order
  request,   \* payload of the current or last call
  phase      \* "free" before the first call, then where the call is

ledgerVars == <<ledger, request, phase>>

Init ==
  /\ ledger = << >>
  /\ request \in Payloads
  /\ phase = "free"

Call(e) ==
  /\ phase \in {"free", "returned", "raised"}
  /\ phase' = "called"
  /\ request' = e
  /\ UNCHANGED ledger

(* The writer may start over and record the payload again.                 *)
Record(next) ==
  /\ phase \in {"called", "recorded"}
  /\ phase' = next
  /\ ledger' = Append(ledger, request)
  /\ UNCHANGED request

Return ==
  /\ phase = "recorded"
  /\ phase' = "returned"
  /\ UNCHANGED <<ledger, request>>

Raise ==
  /\ phase \in {"called", "recorded"}
  /\ phase' = "raised"
  /\ UNCHANGED <<ledger, request>>

Next ==
  \/ \E e \in Payloads : Call(e)
  \/ \E next \in {"recorded", "raised"} : Record(next)
  \/ Return
  \/ Raise

Spec == Init /\ [][Next]_ledgerVars
=============================================================================
