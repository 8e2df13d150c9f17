--------------------------- MODULE OneShotApproval ---------------------------
(***************************************************************************)
(* What ApprovalStore (services/gateway/approvals.py) promises the gateway,*)
(* without rows, locks, audit writer or clock: a call asks once, a human   *)
(* grants what is pending, a grant clears one call that asks for the same, *)
(* and nothing that is expired or used comes back.  What was recorded as   *)
(* expired is closed: a grant may still commit, but clears nothing.        *)
(***************************************************************************)
CONSTANTS
  Calls,      \* tools/call messages; one that asks for an approval names it
  Askings     \* what they may ask for: functions on Calls

VARIABLES
  asked,      \* what each call asks for
  approval,   \* the approvals asked for: a function to their states
  closed,     \* those recorded as expired
  cleared,    \* the calls that used an approval and are still under way
  forwarded   \* those that went upstream

approvalVars == <<asked, approval, closed, cleared, forwarded>>

Init ==
  /\ asked \in Askings
  /\ approval = [id \in {} |-> "pending"]
  /\ closed = {} /\ cleared = {} /\ forwarded = {}

Ask(id) ==
  /\ id \notin DOMAIN approval
  /\ approval' = [i \in DOMAIN approval \cup {id} |->
                    IF i = id THEN "pending" ELSE approval[i]]
  /\ UNCHANGED <<asked, closed, cleared, forwarded>>

Grant(id) ==
  /\ approval[id] = "pending"
  /\ approval' = [approval EXCEPT ![id] = "approved"]
  /\ UNCHANGED <<asked, closed, cleared, forwarded>>

(* One that is expired may be recorded as such, before, after or never.    *)
Expire(ids, record) ==
  /\ \A id \in ids \cup record : approval[id] # "used"
  /\ approval' = [id \in DOMAIN approval |->
                    IF id \in ids THEN "expired" ELSE approval[id]]
  /\ closed' = closed \cup record
  /\ UNCHANGED <<asked, cleared, forwarded>>

Use(c, id) ==
  /\ approval[id] = "approved" /\ id \notin closed
  /\ asked[id] = asked[c]
  /\ approval' = [approval EXCEPT ![id] = "used"]
  /\ cleared' = cleared \cup {c}
  /\ UNCHANGED <<asked, closed, forwarded>>

Forward(c) ==
  /\ cleared' = cleared \ {c}
  /\ forwarded' = forwarded \cup {c}
  /\ UNCHANGED <<asked, approval, closed>>

(* A later stage denies or fails: the approval is used all the same.       *)
Lose(c) ==
  /\ cleared' = cleared \ {c}
  /\ UNCHANGED <<asked, approval, closed, forwarded>>

Next ==
  \/ \E id \in Calls : Ask(id)
  \/ \E id \in DOMAIN approval : Grant(id) \/ \E c \in Calls \ (cleared \cup forwarded) : Use(c, id)
  \/ \E ids, record \in SUBSET DOMAIN approval : Expire(ids, record)
  \/ \E c \in cleared : Forward(c) \/ Lose(c)

Spec == Init /\ [][Next]_approvalVars
=============================================================================
