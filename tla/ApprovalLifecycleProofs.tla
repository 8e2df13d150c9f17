---------------------- MODULE ApprovalLifecycleProofs ----------------------
(***************************************************************************)
(* Proofs about ApprovalLifecycle, for any finite sets of calls, admins    *)
(* and sweeps, any lifetime of an approval and any pool of connections:    *)
(* the invariants of the store, then that it implements OneShotApproval.   *)
(***************************************************************************)
EXTENDS ApprovalLifecycle, FiniteSetTheorems, TLAPS

Row ==
  [ request : Requests, expires : Nat,
    status : {"pending", "approved", "expired"}, consumed : BOOLEAN ]

(* The functions and their roles: which steps are whose.                   *)
Shapes ==
  /\ now \in 0..MaxTime
  /\ DOMAIN rows \subseteq Calls
  /\ \A id \in DOMAIN rows : rows[id] \in Row
  /\ pc \in [Actors -> Labels]
  /\ asked \in [Calls -> Requests]
  /\ on \in [Calls \cup Admins -> Calls \cup {Nothing}]
  /\ read \in [Sweepers -> SUBSET Calls] /\ left \in [Sweepers -> SUBSET Calls]
  /\ forwarded \subseteq Calls
  /\ \A c \in Calls :
       pc[c] \in {"new", "create", "lock", "redeem", "validate", "forward", "done"}
  /\ \A a \in Admins :
       pc[a] \in {"new", "lock", "grant", "granted", "expire", "expired", "done"}
  /\ \A s \in Sweepers : pc[s] \in {"new", "sweep", "done"}

(* Who is connected names a row; a row lock has one holder.                *)
Locks ==
  /\ \A x \in Calls \cup Admins : pc[x] \in Connected => on[x] \in DOMAIN rows
  /\ \A s \in Sweepers : left[s] \subseteq read[s] /\ read[s] \subseteq DOMAIN rows
  /\ \A x, y \in Calls \cup Admins :
       pc[x] \in Holding /\ pc[y] \in Holding /\ on[x] = on[y] => x = y

(* A fresh id: the call that asked for an approval has come to its end.    *)
(* What was found, or recorded, as expired is past its time for ever; what *)
(* an admin is deciding is pending as long as the lock is held.            *)
Verdicts ==
  /\ \A id \in DOMAIN rows : pc[id] = "done"
  /\ StatusJustified
  /\ \A id \in Calls : Event("expired", id) \in audit => id \in DOMAIN rows /\ Expired(id)
  /\ \A a \in Admins :
       /\ pc[a] \in {"grant", "granted", "expire", "expired"} => rows[on[a]].status = "pending"
       /\ pc[a] = "granted" => Event("approved", on[a]) \in audit
       /\ pc[a] \in {"expire", "expired"} => Expired(on[a])
  /\ \A s \in Sweepers : \A id \in read[s] : Expired(id)

(* A call that consumed its approval, forwarded yet or not.                *)
Used(c) == pc[c] \in {"validate", "forward"} \/ c \in forwarded

(* The call that holds the lock of an approval that it may redeem finds it *)
(* unused; the one that used it is the only one and is the call approved.  *)
Redemptions ==
  \A c \in Calls :
    /\ pc[c] = "redeem" =>
         /\ rows[on[c]].consumed = FALSE /\ rows[on[c]].status = "approved"
         /\ rows[on[c]].request = asked[c]
    /\ Used(c) =>
         /\ on[c] \in DOMAIN rows /\ Event("approved", on[c]) \in audit
         /\ rows[on[c]].request = asked[c] /\ rows[on[c]].consumed = TRUE
    /\ pc[c] = "forward" \/ c \in forwarded => Event("allow", c) \in audit
    /\ c \in forwarded => pc[c] = "done"
    /\ \A d \in Calls : Used(c) /\ Used(d) /\ on[c] = on[d] => c = d

Safe == Shapes /\ Locks /\ Verdicts /\ Redemptions
ApprovalInv == Safe /\ Free >= 0

(* The numbers of the deployment.                                          *)
LEMMA Numbers == TTL \in Nat /\ MaxTime \in Nat /\ PoolSize \in Nat
  BY NumbersAssumption

(* Calls, admin requests and sweeps are different actors.                  *)
LEMMA ActorFacts ==
  /\ Calls \subseteq Actors /\ Admins \subseteq Actors /\ Sweepers \subseteq Actors
  /\ \A c \in Calls : c \notin Admins /\ c \notin Sweepers
  /\ \A a \in Admins : a \notin Sweepers
  BY ActorsAssumption DEF Actors

(* The audit row that may be left of a step that fails.                    *)
LEMMA WritingFacts ==
  ASSUME NEW x, NEW e \in Writing(x)
  PROVE  \/ pc[x] = "validate" /\ e = Event("allow", x)
         \/ pc[x] = "grant" /\ e = Event("approved", on[x])
         \/ pc[x] = "expire" /\ e = Event("expired", on[x])
         \/ pc[x] = "sweep" /\ \E id \in left[x] : e = Event("expired", id)
  BY Zenon DEF Writing

(* Events with different names, or of different subjects, are different.   *)
LEMMA EventsDiffer ==
  ASSUME NEW n, NEW m, NEW x, NEW y, Event(n, x) = Event(m, y)  PROVE n = m /\ x = y
  BY DEF Event

-----------------------------------------------------------------------------
(* What a step may do to the approvals table.                              *)
RowsKept ==
  /\ DOMAIN rows \subseteq DOMAIN rows'
  /\ \A id \in DOMAIN rows :
       /\ rows'[id] \in Row
       /\ rows'[id].request = rows[id].request /\ rows'[id].expires = rows[id].expires
       /\ rows[id].consumed = TRUE => rows'[id].consumed = TRUE
       /\ rows'[id].status # rows[id].status =>
            \/ rows'[id].status = "expired" /\ Expired(id)
            \/ /\ rows[id].status = "pending" /\ rows'[id].status = "approved"
               /\ Event("approved", id) \in audit
       /\ rows[id].status = "expired" => rows'[id].status = "expired"
       /\ rows'[id] # rows[id] =>
            \A x \in Calls \cup Admins : on[x] = id /\ pc[x] \in Holding => pc'[x] \notin Holding
  /\ \A id \in DOMAIN rows' \ DOMAIN rows :
       /\ id \in Calls /\ pc'[id] = "done"
       /\ rows'[id] \in Row /\ rows'[id].status = "pending"

(* SetStatus changes the status of some rows and nothing else.             *)
LEMMA SetStatusFacts ==
  ASSUME Shapes, NEW ids, NEW status \in {"pending", "approved", "expired"},
         SetStatus(ids, status)
  PROVE  /\ DOMAIN rows' = DOMAIN rows
         /\ \A id \in DOMAIN rows :
              /\ rows'[id] \in Row
              /\ rows'[id].request = rows[id].request /\ rows'[id].expires = rows[id].expires
              /\ rows'[id].consumed = rows[id].consumed
              /\ id \in ids => rows'[id].status = status
              /\ id \notin ids => rows'[id] = rows[id]
  BY DEF Shapes, SetStatus, Row

(* A step that leaves the table alone.                                     *)
LEMMA RowsUnmoved == ASSUME Safe, UNCHANGED rows  PROVE RowsKept
  BY DEF Safe, Shapes, RowsKept

(* Every step does no more to the table than RowsKept: a row changes under *)
(* its lock, or by a sweep that found it unlocked and expired.             *)
LEMMA RowsStep ==
  ASSUME Safe, [Next]_vars  PROVE RowsKept
  <1>1. ASSUME NEW c \in Calls, AuditRequired(c)  PROVE RowsKept
    BY <1>1, RowsUnmoved DEF AuditRequired
  <1>2. ASSUME NEW c \in Calls, Create(c)  PROVE RowsKept
    <2>1. /\ rows' = [id \in DOMAIN rows \cup {c} |->
                 IF id = c THEN [ request |-> asked[c], expires |-> now + TTL,
                                  status |-> "pending", consumed |-> FALSE ]
                 ELSE rows[id]]
          /\ pc[c] = "create" /\ pc' = [pc EXCEPT ![c] = "done"]
      BY <1>2 DEF Create, Goto
    <2>2. c \notin DOMAIN rows /\ pc'[c] = "done"
      BY <2>1, ActorFacts DEF Safe, Shapes, Verdicts
    <2>3. [ request |-> asked[c], expires |-> now + TTL,
            status |-> "pending", consumed |-> FALSE ] \in Row
      BY Numbers DEF Safe, Shapes, Row
    <2>4. /\ DOMAIN rows' = DOMAIN rows \cup {c}
          /\ \A id \in DOMAIN rows : rows'[id] = rows[id]
          /\ rows'[c] \in Row /\ rows'[c].status = "pending"
      BY <2>1, <2>2, <2>3
    <2> QED  BY <2>2, <2>4 DEF Safe, Shapes, RowsKept
  <1>3. ASSUME NEW c \in Calls, Refuse(c)  PROVE RowsKept
    <2> DEFINE ids == {id \in {on[c]} : rows[id].status = "pending" /\ Expired(id)}
    <2>1. SetStatus(ids, "expired") /\ ~Locked(on[c])
      BY <1>3 DEF Refuse
    <2>2. \A x \in Calls \cup Admins : on[x] \in ids => pc[x] \notin Holding
      BY <2>1 DEF Locked
    <2>3. \A id \in ids : Expired(id)
      OBVIOUS
    <2> HIDE DEF ids
    <2> QED  BY <2>1, <2>2, <2>3, SetStatusFacts DEF Safe, RowsKept
  <1>4. ASSUME NEW c \in Calls, Accept(c)  PROVE RowsKept
    BY <1>4, RowsUnmoved DEF Accept
  <1>5. ASSUME NEW c \in Calls, CommitRedeem(c)  PROVE RowsKept
    <2>1. /\ on[c] \in DOMAIN rows /\ pc[c] = "redeem"
          /\ rows' = [rows EXCEPT ![on[c]].consumed = TRUE]
          /\ pc' = [pc EXCEPT ![c] = "validate"]
      BY <1>5 DEF CommitRedeem, Goto, Safe, Locks, Connected, Holding
    <2>2. \A id \in DOMAIN rows : id # on[c] => rows'[id] = rows[id]
      BY <2>1
    <2>3. /\ DOMAIN rows' = DOMAIN rows /\ rows'[on[c]] \in Row
          /\ rows'[on[c]].request = rows[on[c]].request
          /\ rows'[on[c]].expires = rows[on[c]].expires
          /\ rows'[on[c]].status = rows[on[c]].status
          /\ rows'[on[c]].consumed = TRUE
      BY <2>1 DEF Safe, Shapes, Row
    <2>4. \A x \in Calls \cup Admins : on[x] = on[c] /\ pc[x] \in Holding => pc'[x] = "validate"
      BY <2>1, ActorFacts DEF Safe, Shapes, Locks, Holding
    <2> QED  BY <2>2, <2>3, <2>4 DEF Safe, Shapes, RowsKept, Holding
  <1>6. ASSUME NEW c \in Calls, AuditAllow(c)  PROVE RowsKept
    BY <1>6, RowsUnmoved DEF AuditAllow
  <1>7. ASSUME NEW c \in Calls, ForwardCall(c)  PROVE RowsKept
    BY <1>7, RowsUnmoved DEF ForwardCall
  <1>8. ASSUME NEW x \in Calls \cup Admins, Connect(x)  PROVE RowsKept
    BY <1>8, RowsUnmoved DEF Connect
  <1>9. ASSUME NEW a \in Admins, Judge(a)  PROVE RowsKept
    BY <1>9, RowsUnmoved DEF Judge
  <1>10. ASSUME NEW a \in Admins, AuditVerdict(a)  PROVE RowsKept
    BY <1>10, RowsUnmoved DEF AuditVerdict
  <1>11. ASSUME NEW a \in Admins, CommitVerdict(a)  PROVE RowsKept
    <2>1. /\ pc[a] \in {"granted", "expired"} /\ pc' = [pc EXCEPT ![a] = "done"]
          /\ pc[a] = "granted" => SetStatus({on[a]}, "approved")
          /\ pc[a] = "expired" => SetStatus({on[a]}, "expired")
      BY <1>11 DEF CommitVerdict, Goto
    <2>2. on[a] \in DOMAIN rows
      BY <2>1 DEF Safe, Locks, Connected, Holding
    <2>3. \A x \in Calls \cup Admins : on[x] = on[a] /\ pc[x] \in Holding => pc'[x] = "done"
      BY <2>1, ActorFacts DEF Safe, Shapes, Locks, Holding
    <2>4. /\ rows[on[a]].status = "pending"
          /\ pc[a] = "granted" => Event("approved", on[a]) \in audit
          /\ pc[a] = "expired" => Expired(on[a])
      BY <2>1 DEF Safe, Verdicts
    <2>5. CASE pc[a] = "granted"
      BY <2>1, <2>2, <2>3, <2>4, <2>5, SetStatusFacts DEF Safe, RowsKept, Holding
    <2>6. CASE pc[a] = "expired"
      BY <2>1, <2>2, <2>3, <2>4, <2>6, SetStatusFacts DEF Safe, RowsKept, Holding
    <2> QED  BY <2>1, <2>5, <2>6
  <1>12. ASSUME NEW s \in Sweepers, StartSweep(s)  PROVE RowsKept
    BY <1>12, RowsUnmoved DEF StartSweep
  <1>13. ASSUME NEW s \in Sweepers, AuditStale(s)  PROVE RowsKept
    BY <1>13, RowsUnmoved DEF AuditStale
  <1>14. ASSUME NEW s \in Sweepers, CommitSweep(s)  PROVE RowsKept
    <2>1. SetStatus(read[s], "expired") /\ \A id \in read[s] : ~Locked(id) /\ Expired(id)
      BY <1>14 DEF CommitSweep, Safe, Verdicts
    <2>2. \A x \in Calls \cup Admins : on[x] \in read[s] => pc[x] \notin Holding
      BY <2>1 DEF Locked
    <2> QED  BY <2>1, <2>2, SetStatusFacts DEF Safe, RowsKept
  <1>15. ASSUME NEW x \in Actors, PoolTimeout(x)  PROVE RowsKept
    BY <1>15, RowsUnmoved DEF PoolTimeout
  <1>16. ASSUME NEW x \in Actors, Fail(x)  PROVE RowsKept
    BY <1>16, RowsUnmoved DEF Fail
  <1>17. ASSUME Tick  PROVE RowsKept
    BY <1>17, RowsUnmoved DEF Tick
  <1>18. ASSUME UNCHANGED vars  PROVE RowsKept
    BY <1>18, RowsUnmoved DEF vars
  <1> QED  BY <1>1, <1>2, <1>3, <1>4, <1>5, <1>6, <1>7, <1>8, <1>9,
              <1>10, <1>11, <1>12, <1>13, <1>14, <1>15, <1>16, <1>17, <1>18
           DEF Next, CallStep, AdminStep, SweepStep

-----------------------------------------------------------------------------
(* Time and the audit log only grow, and an actor that is done stays so.   *)
LEMMA GrowStep ==
  ASSUME Safe, [Next]_vars
  PROVE  /\ now' \in 0..MaxTime /\ now <= now' /\ audit \subseteq audit'
         /\ asked' = asked /\ \A x \in Actors : pc[x] = "done" => pc'[x] = "done"
  <1> DEFINE Grows ==
        /\ now' \in 0..MaxTime /\ now <= now' /\ audit \subseteq audit'
        /\ asked' = asked /\ \A x \in Actors : pc[x] = "done" => pc'[x] = "done"
  <1> USE ActorFacts, Numbers DEF Safe, Shapes, Goto
  <1>1. ASSUME NEW c \in Calls, AuditRequired(c)  PROVE Grows
    BY <1>1 DEF AuditRequired
  <1>2. ASSUME NEW c \in Calls, Create(c)  PROVE Grows
    BY <1>2 DEF Create
  <1>3. ASSUME NEW c \in Calls, Refuse(c)  PROVE Grows
    BY <1>3 DEF Refuse
  <1>4. ASSUME NEW c \in Calls, Accept(c)  PROVE Grows
    BY <1>4 DEF Accept
  <1>5. ASSUME NEW c \in Calls, CommitRedeem(c)  PROVE Grows
    BY <1>5 DEF CommitRedeem
  <1>6. ASSUME NEW c \in Calls, AuditAllow(c)  PROVE Grows
    BY <1>6 DEF AuditAllow
  <1>7. ASSUME NEW c \in Calls, ForwardCall(c)  PROVE Grows
    BY <1>7 DEF ForwardCall
  <1>8. ASSUME NEW x \in Calls \cup Admins, Connect(x)  PROVE Grows
    BY <1>8 DEF Connect
  <1>9. ASSUME NEW a \in Admins, Judge(a)  PROVE Grows
    BY <1>9 DEF Judge
  <1>10. ASSUME NEW a \in Admins, AuditVerdict(a)  PROVE Grows
    BY <1>10 DEF AuditVerdict
  <1>11. ASSUME NEW a \in Admins, CommitVerdict(a)  PROVE Grows
    BY <1>11 DEF CommitVerdict
  <1>12. ASSUME NEW s \in Sweepers, StartSweep(s)  PROVE Grows
    BY <1>12 DEF StartSweep
  <1>13. ASSUME NEW s \in Sweepers, AuditStale(s)  PROVE Grows
    BY <1>13 DEF AuditStale
  <1>14. ASSUME NEW s \in Sweepers, CommitSweep(s)  PROVE Grows
    BY <1>14 DEF CommitSweep
  <1>15. ASSUME NEW x \in Actors, PoolTimeout(x)  PROVE Grows
    BY <1>15 DEF PoolTimeout, Starved
  <1>16. ASSUME NEW x \in Actors, Fail(x)  PROVE Grows
    BY <1>16 DEF Fail
  <1>17. ASSUME Tick  PROVE Grows
    BY <1>17 DEF Tick
  <1>18. ASSUME UNCHANGED vars  PROVE Grows
    BY <1>18 DEF vars
  <1> QED  BY <1>1, <1>2, <1>3, <1>4, <1>5, <1>6, <1>7, <1>8, <1>9,
              <1>10, <1>11, <1>12, <1>13, <1>14, <1>15, <1>16, <1>17, <1>18
           DEF Next, CallStep, AdminStep, SweepStep

(* The pc that a step gives to its actor is one of the actor's role.       *)
LEMMA ShapesStep ==
  ASSUME Safe, [Next]_vars  PROVE Shapes'
  <1> DEFINE Roles ==
        /\ pc' \in [Actors -> Labels]
        /\ \A c \in Calls :
             pc'[c] \in {"new", "create", "lock", "redeem", "validate", "forward", "done"}
        /\ \A a \in Admins :
             pc'[a] \in {"new", "lock", "grant", "granted", "expire", "expired", "done"}
        /\ \A s \in Sweepers : pc'[s] \in {"new", "sweep", "done"}
      Functions ==
        /\ on' \in [Calls \cup Admins -> Calls \cup {Nothing}]
        /\ read' \in [Sweepers -> SUBSET Calls] /\ left' \in [Sweepers -> SUBSET Calls]
        /\ forwarded' \subseteq Calls
  <1>a. Roles
    <2> USE ActorFacts DEF Safe, Shapes, Goto, Labels, Connected, Holding
    <2>1. ASSUME NEW c \in Calls, AuditRequired(c)  PROVE Roles
      BY <2>1 DEF AuditRequired
    <2>2. ASSUME NEW c \in Calls, Create(c)  PROVE Roles
      BY <2>2 DEF Create
    <2>3. ASSUME NEW c \in Calls, Refuse(c)  PROVE Roles
      BY <2>3 DEF Refuse
    <2>4. ASSUME NEW c \in Calls, Accept(c)  PROVE Roles
      BY <2>4 DEF Accept
    <2>5. ASSUME NEW c \in Calls, CommitRedeem(c)  PROVE Roles
      BY <2>5 DEF CommitRedeem
    <2>6. ASSUME NEW c \in Calls, AuditAllow(c)  PROVE Roles
      BY <2>6 DEF AuditAllow
    <2>7. ASSUME NEW c \in Calls, ForwardCall(c)  PROVE Roles
      BY <2>7 DEF ForwardCall
    <2>8. ASSUME NEW x \in Calls \cup Admins, Connect(x)  PROVE Roles
      BY <2>8 DEF Connect
    <2>9. ASSUME NEW a \in Admins, Judge(a)  PROVE Roles
      BY <2>9 DEF Judge
    <2>10. ASSUME NEW a \in Admins, AuditVerdict(a)  PROVE Roles
      BY <2>10 DEF AuditVerdict
    <2>11. ASSUME NEW a \in Admins, CommitVerdict(a)  PROVE Roles
      BY <2>11 DEF CommitVerdict
    <2>12. ASSUME NEW s \in Sweepers, StartSweep(s)  PROVE Roles
      BY <2>12 DEF StartSweep
    <2>13. ASSUME NEW s \in Sweepers, AuditStale(s)  PROVE Roles
      BY <2>13 DEF AuditStale
    <2>14. ASSUME NEW s \in Sweepers, CommitSweep(s)  PROVE Roles
      BY <2>14 DEF CommitSweep
    <2>15. ASSUME NEW x \in Actors, PoolTimeout(x)  PROVE Roles
      BY <2>15 DEF PoolTimeout
    <2>16. ASSUME NEW x \in Actors, Fail(x)  PROVE Roles
      BY <2>16 DEF Fail
    <2>17. ASSUME Tick  PROVE Roles
      BY <2>17 DEF Tick
    <2>18. ASSUME UNCHANGED vars  PROVE Roles
      BY <2>18 DEF vars
    <2> QED  BY <2>1, <2>2, <2>3, <2>4, <2>5, <2>6, <2>7, <2>8, <2>9,
                <2>10, <2>11, <2>12, <2>13, <2>14, <2>15, <2>16, <2>17, <2>18
             DEF Next, CallStep, AdminStep, SweepStep
  <1>b. Functions
    <2> USE DEF Safe, Shapes, sweeps
    <2>1. ASSUME NEW c \in Calls, AuditRequired(c)  PROVE Functions
      BY <2>1 DEF AuditRequired
    <2>2. ASSUME NEW c \in Calls, Create(c)  PROVE Functions
      BY <2>2 DEF Create
    <2>3. ASSUME NEW c \in Calls, Refuse(c)  PROVE Functions
      BY <2>3 DEF Refuse
    <2>4. ASSUME NEW c \in Calls, Accept(c)  PROVE Functions
      BY <2>4 DEF Accept
    <2>5. ASSUME NEW c \in Calls, CommitRedeem(c)  PROVE Functions
      BY <2>5 DEF CommitRedeem
    <2>6. ASSUME NEW c \in Calls, AuditAllow(c)  PROVE Functions
      BY <2>6 DEF AuditAllow
    <2>7. ASSUME NEW c \in Calls, ForwardCall(c)  PROVE Functions
      BY <2>7 DEF ForwardCall
    <2>8. ASSUME NEW x \in Calls \cup Admins, Connect(x)  PROVE Functions
      BY <2>8 DEF Connect
    <2>9. ASSUME NEW a \in Admins, Judge(a)  PROVE Functions
      BY <2>9 DEF Judge
    <2>10. ASSUME NEW a \in Admins, AuditVerdict(a)  PROVE Functions
      BY <2>10 DEF AuditVerdict
    <2>11. ASSUME NEW a \in Admins, CommitVerdict(a)  PROVE Functions
      BY <2>11 DEF CommitVerdict
    <2>12. ASSUME NEW s \in Sweepers, StartSweep(s)  PROVE Functions
      BY <2>12 DEF StartSweep, Stale
    <2>13. ASSUME NEW s \in Sweepers, AuditStale(s)  PROVE Functions
      BY <2>13 DEF AuditStale
    <2>14. ASSUME NEW s \in Sweepers, CommitSweep(s)  PROVE Functions
      BY <2>14 DEF CommitSweep
    <2>15. ASSUME NEW x \in Actors, PoolTimeout(x)  PROVE Functions
      BY <2>15 DEF PoolTimeout
    <2>16. ASSUME NEW x \in Actors, Fail(x)  PROVE Functions
      BY <2>16 DEF Fail
    <2>17. ASSUME Tick  PROVE Functions
      BY <2>17 DEF Tick
    <2>18. ASSUME UNCHANGED vars  PROVE Functions
      BY <2>18 DEF vars
    <2> QED  BY <2>1, <2>2, <2>3, <2>4, <2>5, <2>6, <2>7, <2>8, <2>9,
                <2>10, <2>11, <2>12, <2>13, <2>14, <2>15, <2>16, <2>17, <2>18
             DEF Next, CallStep, AdminStep, SweepStep
  <1>c. DOMAIN rows' \subseteq Calls /\ \A id \in DOMAIN rows' : rows'[id] \in Row
    BY RowsStep DEF Safe, Shapes, RowsKept
  <1> QED  BY <1>a, <1>b, <1>c, GrowStep DEF Safe, Shapes

(* A connection, then the lock: only Connect names a row, and only a call  *)
(* or an admin that finds the row unlocked comes to hold its lock.         *)
LEMMA LocksStep ==
  ASSUME Safe, [Next]_vars  PROVE Locks'
  <1> DEFINE Named == \A x \in Calls \cup Admins : pc'[x] \in Connected => on'[x] \in DOMAIN rows
      Swept == \A s \in Sweepers : left'[s] \subseteq read'[s] /\ read'[s] \subseteq DOMAIN rows
      Single == \A x, y \in Calls \cup Admins :
                  pc'[x] \in Holding /\ pc'[y] \in Holding /\ on'[x] = on'[y] => x = y
  <1>a. Named /\ Swept
    <2> USE ActorFacts DEF Safe, Shapes, Locks, Goto, Connected, Holding, sweeps
    <2>1. ASSUME NEW c \in Calls, AuditRequired(c)  PROVE Named /\ Swept
      BY <2>1 DEF AuditRequired
    <2>2. ASSUME NEW c \in Calls, Create(c)  PROVE Named /\ Swept
      BY <2>2 DEF Create
    <2>3. ASSUME NEW c \in Calls, Refuse(c)  PROVE Named /\ Swept
      BY <2>3 DEF Refuse
    <2>4. ASSUME NEW c \in Calls, Accept(c)  PROVE Named /\ Swept
      BY <2>4 DEF Accept
    <2>5. ASSUME NEW c \in Calls, CommitRedeem(c)  PROVE Named /\ Swept
      BY <2>5 DEF CommitRedeem
    <2>6. ASSUME NEW c \in Calls, AuditAllow(c)  PROVE Named /\ Swept
      BY <2>6 DEF AuditAllow
    <2>7. ASSUME NEW c \in Calls, ForwardCall(c)  PROVE Named /\ Swept
      BY <2>7 DEF ForwardCall
    <2>8. ASSUME NEW x \in Calls \cup Admins, Connect(x)  PROVE Named /\ Swept
      BY <2>8 DEF Connect
    <2>9. ASSUME NEW a \in Admins, Judge(a)  PROVE Named /\ Swept
      BY <2>9 DEF Judge
    <2>10. ASSUME NEW a \in Admins, AuditVerdict(a)  PROVE Named /\ Swept
      BY <2>10 DEF AuditVerdict
    <2>11. ASSUME NEW a \in Admins, CommitVerdict(a)  PROVE Named /\ Swept
      BY <2>11 DEF CommitVerdict
    <2>12. ASSUME NEW s \in Sweepers, StartSweep(s)  PROVE Named /\ Swept
      BY <2>12 DEF StartSweep, Stale
    <2>13. ASSUME NEW s \in Sweepers, AuditStale(s)  PROVE Named /\ Swept
      BY <2>13 DEF AuditStale
    <2>14. ASSUME NEW s \in Sweepers, CommitSweep(s)  PROVE Named /\ Swept
      BY <2>14 DEF CommitSweep
    <2>15. ASSUME NEW x \in Actors, PoolTimeout(x)  PROVE Named /\ Swept
      BY <2>15 DEF PoolTimeout
    <2>16. ASSUME NEW x \in Actors, Fail(x)  PROVE Named /\ Swept
      BY <2>16 DEF Fail
    <2>17. ASSUME Tick  PROVE Named /\ Swept
      BY <2>17 DEF Tick
    <2>18. ASSUME UNCHANGED vars  PROVE Named /\ Swept
      BY <2>18 DEF vars
    <2> QED  BY <2>1, <2>2, <2>3, <2>4, <2>5, <2>6, <2>7, <2>8, <2>9,
                <2>10, <2>11, <2>12, <2>13, <2>14, <2>15, <2>16, <2>17, <2>18
             DEF Next, CallStep, AdminStep, SweepStep
  <1>b. Single
    <2> USE ActorFacts DEF Safe, Shapes, Locks, Goto, Holding, sweeps
    <2>1. ASSUME NEW c \in Calls, AuditRequired(c)  PROVE Single
      BY <2>1 DEF AuditRequired
    <2>2. ASSUME NEW c \in Calls, Create(c)  PROVE Single
      BY <2>2 DEF Create
    <2>3. ASSUME NEW c \in Calls, Refuse(c)  PROVE Single
      BY <2>3 DEF Refuse
    <2>4. ASSUME NEW c \in Calls, Accept(c)  PROVE Single
      BY <2>4 DEF Accept, Locked
    <2>5. ASSUME NEW c \in Calls, CommitRedeem(c)  PROVE Single
      BY <2>5 DEF CommitRedeem
    <2>6. ASSUME NEW c \in Calls, AuditAllow(c)  PROVE Single
      BY <2>6 DEF AuditAllow
    <2>7. ASSUME NEW c \in Calls, ForwardCall(c)  PROVE Single
      BY <2>7 DEF ForwardCall
    <2>8. ASSUME NEW x \in Calls \cup Admins, Connect(x)  PROVE Single
      BY <2>8 DEF Connect
    <2>9. ASSUME NEW a \in Admins, Judge(a)  PROVE Single
      BY <2>9 DEF Judge, Locked
    <2>10. ASSUME NEW a \in Admins, AuditVerdict(a)  PROVE Single
      BY <2>10 DEF AuditVerdict
    <2>11. ASSUME NEW a \in Admins, CommitVerdict(a)  PROVE Single
      BY <2>11 DEF CommitVerdict
    <2>12. ASSUME NEW s \in Sweepers, StartSweep(s)  PROVE Single
      BY <2>12 DEF StartSweep
    <2>13. ASSUME NEW s \in Sweepers, AuditStale(s)  PROVE Single
      BY <2>13 DEF AuditStale
    <2>14. ASSUME NEW s \in Sweepers, CommitSweep(s)  PROVE Single
      BY <2>14 DEF CommitSweep
    <2>15. ASSUME NEW x \in Actors, PoolTimeout(x)  PROVE Single
      BY <2>15 DEF PoolTimeout
    <2>16. ASSUME NEW x \in Actors, Fail(x)  PROVE Single
      BY <2>16 DEF Fail
    <2>17. ASSUME Tick  PROVE Single
      BY <2>17 DEF Tick
    <2>18. ASSUME UNCHANGED vars  PROVE Single
      BY <2>18 DEF vars
    <2> QED  BY <2>1, <2>2, <2>3, <2>4, <2>5, <2>6, <2>7, <2>8, <2>9,
                <2>10, <2>11, <2>12, <2>13, <2>14, <2>15, <2>16, <2>17, <2>18
             DEF Next, CallStep, AdminStep, SweepStep
  <1> QED  BY <1>a, <1>b, RowsStep DEF RowsKept, Locks

-----------------------------------------------------------------------------
(* Whoever records an expiry has found it: under the lock, or in the query *)
(* of the sweep.                                                           *)
LEMMA ExpiryRecorded ==
  ASSUME Safe, [Next]_vars, NEW id \in Calls, Event("expired", id) \in audit'
  PROVE  id \in DOMAIN rows /\ Expired(id)
  <1> DEFINE Due == id \in DOMAIN rows /\ Expired(id)
  <1>a. Event("expired", id) \in audit => Due
    BY DEF Safe, Verdicts
  <1> USE <1>a, ActorFacts, EventsDiffer
  <1>1. ASSUME NEW c \in Calls, AuditRequired(c)  PROVE Due
    BY <1>1 DEF AuditRequired
  <1>2. ASSUME NEW c \in Calls, Create(c)  PROVE Due
    BY <1>2 DEF Create
  <1>3. ASSUME NEW c \in Calls, Refuse(c)  PROVE Due
    <2>1. on[c] \in DOMAIN rows
      BY <1>3 DEF Refuse, Safe, Locks, Connected
    <2> QED  BY <1>3, <2>1 DEF Refuse
  <1>4. ASSUME NEW c \in Calls, Accept(c)  PROVE Due
    BY <1>4 DEF Accept
  <1>5. ASSUME NEW c \in Calls, CommitRedeem(c)  PROVE Due
    BY <1>5 DEF CommitRedeem
  <1>6. ASSUME NEW c \in Calls, AuditAllow(c)  PROVE Due
    BY <1>6 DEF AuditAllow
  <1>7. ASSUME NEW c \in Calls, ForwardCall(c)  PROVE Due
    BY <1>7 DEF ForwardCall
  <1>8. ASSUME NEW x \in Calls \cup Admins, Connect(x)  PROVE Due
    BY <1>8 DEF Connect
  <1>9. ASSUME NEW a \in Admins, Judge(a)  PROVE Due
    BY <1>9 DEF Judge
  <1>10. ASSUME NEW a \in Admins, AuditVerdict(a)  PROVE Due
    <2>1. pc[a] = "expire" => on[a] \in DOMAIN rows /\ Expired(on[a])
      BY DEF Safe, Locks, Verdicts, Connected, Holding
    <2> QED  BY <1>10, <2>1 DEF AuditVerdict
  <1>11. ASSUME NEW a \in Admins, CommitVerdict(a)  PROVE Due
    BY <1>11 DEF CommitVerdict
  <1>12. ASSUME NEW s \in Sweepers, StartSweep(s)  PROVE Due
    BY <1>12 DEF StartSweep
  <1>13. ASSUME NEW s \in Sweepers, AuditStale(s)  PROVE Due
    <2>1. \A i \in left[s] : i \in DOMAIN rows /\ Expired(i)
      BY DEF Safe, Locks, Verdicts
    <2> QED  BY <1>13, <2>1 DEF AuditStale
  <1>14. ASSUME NEW s \in Sweepers, CommitSweep(s)  PROVE Due
    BY <1>14 DEF CommitSweep
  <1>15. ASSUME NEW x \in Actors, PoolTimeout(x)  PROVE Due
    BY <1>15 DEF PoolTimeout
  <1>16. ASSUME NEW x \in Actors, Fail(x)  PROVE Due
    <2>1. CASE Event("expired", id) \in Writing(x)
      <3>1. \/ pc[x] = "expire" /\ on[x] = id
            \/ pc[x] = "sweep" /\ id \in left[x]
        BY <2>1, WritingFacts
      <3>2. x \in Admins \/ x \in Sweepers
        BY <3>1 DEF Actors, Safe, Shapes
      <3>3. CASE pc[x] = "expire" /\ on[x] = id
        BY <3>2, <3>3 DEF Safe, Shapes, Locks, Verdicts, Connected, Holding
      <3>4. CASE pc[x] = "sweep" /\ id \in left[x]
        BY <3>2, <3>4 DEF Safe, Shapes, Locks, Verdicts
      <3> QED  BY <3>1, <3>3, <3>4
    <2>2. CASE Event("expired", id) \notin Writing(x)
      BY <1>16, <2>2 DEF Fail
    <2> QED  BY <2>1, <2>2
  <1>17. ASSUME Tick  PROVE Due
    BY <1>17 DEF Tick
  <1>18. ASSUME UNCHANGED vars  PROVE Due
    BY <1>18 DEF vars
  <1> QED  BY <1>1, <1>2, <1>3, <1>4, <1>5, <1>6, <1>7, <1>8, <1>9,
              <1>10, <1>11, <1>12, <1>13, <1>14, <1>15, <1>16, <1>17, <1>18
           DEF Next, CallStep, AdminStep, SweepStep

(* What was past its time stays so.                                        *)
LEMMA ExpiredStays ==
  ASSUME Safe, [Next]_vars, NEW id \in DOMAIN rows, Expired(id)
  PROVE  id \in DOMAIN rows' /\ Expired(id)'
  <1>1. /\ id \in DOMAIN rows' /\ rows'[id].expires = rows[id].expires
        /\ rows[id].expires \in Nat
    BY RowsStep DEF RowsKept, Safe, Shapes, Row
  <1>2. now \in Int /\ now' \in Int /\ now <= now'
    BY GrowStep, Numbers DEF Safe, Shapes
  <1> QED  BY <1>1, <1>2 DEF Expired

(* What an admin holds the lock for stays as it was judged, and a sweep    *)
(* reads only what is past its time.                                       *)
LEMMA DecidedStep ==
  ASSUME Safe, [Next]_vars
  PROVE  /\ \A a \in Admins :
              /\ pc'[a] \in {"grant", "granted", "expire", "expired"} =>
                   /\ on'[a] = on[a] /\ on[a] \in DOMAIN rows
                   /\ rows[on[a]].status = "pending" /\ rows'[on[a]] = rows[on[a]]
              /\ pc'[a] = "granted" => Event("approved", on[a]) \in audit'
              /\ pc'[a] \in {"expire", "expired"} => Expired(on[a])
         /\ \A s \in Sweepers : \A id \in read'[s] : id \in DOMAIN rows /\ Expired(id)
  <1> DEFINE Decided ==
        /\ \A a \in Admins :
             /\ pc'[a] \in {"grant", "granted", "expire", "expired"} =>
                  /\ on'[a] = on[a] /\ on[a] \in DOMAIN rows
                  /\ rows[on[a]].status = "pending"
                  /\ pc[a] \in Holding \/ rows' = rows
             /\ pc'[a] = "granted" => Event("approved", on[a]) \in audit'
             /\ pc'[a] \in {"expire", "expired"} => Expired(on[a])
        /\ \A s \in Sweepers : \A id \in read'[s] : id \in DOMAIN rows /\ Expired(id)
  <1>a. Decided
    <2> USE ActorFacts DEF Safe, Shapes, Locks, Verdicts, Goto, Connected, Holding, sweeps
    <2>1. ASSUME NEW c \in Calls, AuditRequired(c)  PROVE Decided
      BY <2>1 DEF AuditRequired
    <2>2. ASSUME NEW c \in Calls, Create(c)  PROVE Decided
      BY <2>2 DEF Create
    <2>3. ASSUME NEW c \in Calls, Refuse(c)  PROVE Decided
      BY <2>3 DEF Refuse
    <2>4. ASSUME NEW c \in Calls, Accept(c)  PROVE Decided
      BY <2>4 DEF Accept
    <2>5. ASSUME NEW c \in Calls, CommitRedeem(c)  PROVE Decided
      BY <2>5 DEF CommitRedeem
    <2>6. ASSUME NEW c \in Calls, AuditAllow(c)  PROVE Decided
      BY <2>6 DEF AuditAllow
    <2>7. ASSUME NEW c \in Calls, ForwardCall(c)  PROVE Decided
      BY <2>7 DEF ForwardCall
    <2>8. ASSUME NEW x \in Calls \cup Admins, Connect(x)  PROVE Decided
      BY <2>8 DEF Connect
    <2>9. ASSUME NEW a \in Admins, Judge(a)  PROVE Decided
      BY <2>9 DEF Judge
    <2>10. ASSUME NEW a \in Admins, AuditVerdict(a)  PROVE Decided
      BY <2>10 DEF AuditVerdict
    <2>11. ASSUME NEW a \in Admins, CommitVerdict(a)  PROVE Decided
      BY <2>11 DEF CommitVerdict
    <2>12. ASSUME NEW s \in Sweepers, StartSweep(s)  PROVE Decided
      BY <2>12 DEF StartSweep, Stale
    <2>13. ASSUME NEW s \in Sweepers, AuditStale(s)  PROVE Decided
      BY <2>13 DEF AuditStale
    <2>14. ASSUME NEW s \in Sweepers, CommitSweep(s)  PROVE Decided
      BY <2>14 DEF CommitSweep
    <2>15. ASSUME NEW x \in Actors, PoolTimeout(x)  PROVE Decided
      BY <2>15 DEF PoolTimeout
    <2>16. ASSUME NEW x \in Actors, Fail(x)  PROVE Decided
      BY <2>16 DEF Fail
    <2>17. ASSUME Tick  PROVE Decided
      BY <2>17 DEF Tick
    <2>18. ASSUME UNCHANGED vars  PROVE Decided
      BY <2>18 DEF vars
    <2> QED  BY <2>1, <2>2, <2>3, <2>4, <2>5, <2>6, <2>7, <2>8, <2>9,
                <2>10, <2>11, <2>12, <2>13, <2>14, <2>15, <2>16, <2>17, <2>18
             DEF Next, CallStep, AdminStep, SweepStep
  <1>b. ASSUME NEW a \in Admins, pc'[a] \in {"grant", "granted", "expire", "expired"}
        PROVE  rows'[on[a]] = rows[on[a]]
    <2>1. on[a] \in DOMAIN rows /\ pc'[a] \in Holding /\ (pc[a] \in Holding \/ rows' = rows)
      BY <1>a, <1>b DEF Holding
    <2>2. CASE rows' = rows
      BY <2>2
    <2>3. CASE pc[a] \in Holding
      BY <2>1, <2>3, RowsStep DEF RowsKept
    <2> QED  BY <2>1, <2>2, <2>3
  <1> QED  BY <1>a, <1>b

(* Every step keeps what the table and the log say of each other.          *)
LEMMA VerdictsStep ==
  ASSUME Safe, [Next]_vars  PROVE Verdicts'
  <1>1. \A id \in DOMAIN rows' : pc'[id] = "done"
    BY RowsStep, GrowStep, ActorFacts DEF RowsKept, Safe, Shapes, Verdicts
  <1>2. ASSUME NEW id \in DOMAIN rows'
        PROVE  /\ rows'[id].status = "approved" => Event("approved", id) \in audit'
               /\ rows'[id].status = "expired" => Expired(id)'
    <2>1. CASE id \notin DOMAIN rows
      BY <2>1, RowsStep DEF RowsKept
    <2>2. CASE id \in DOMAIN rows
      <3>1. /\ rows[id].status = "approved" => Event("approved", id) \in audit
            /\ rows[id].status = "expired" => Expired(id)
        BY <2>2 DEF Safe, Verdicts, StatusJustified
      <3>2. /\ rows'[id].status = "approved" => Event("approved", id) \in audit
            /\ rows'[id].status = "expired" => Expired(id)
        BY <2>2, <3>1, RowsStep DEF RowsKept
      <3> QED  BY <2>2, <3>2, GrowStep, ExpiredStays
    <2> QED  BY <2>1, <2>2
  <1>3. ASSUME NEW id \in Calls, Event("expired", id) \in audit'
        PROVE  id \in DOMAIN rows' /\ Expired(id)'
    BY <1>3, ExpiryRecorded, ExpiredStays
  <1>4. ASSUME NEW a \in Admins
        PROVE  /\ pc'[a] \in {"grant", "granted", "expire", "expired"} =>
                    rows'[on'[a]].status = "pending"
               /\ pc'[a] = "granted" => Event("approved", on'[a]) \in audit'
               /\ pc'[a] \in {"expire", "expired"} => Expired(on[a])' /\ on'[a] = on[a]
    BY DecidedStep, ExpiredStays
  <1>5. \A a \in Admins : pc'[a] \in {"expire", "expired"} => Expired(on[a])'
    BY <1>4
  <1>6. \A s \in Sweepers : \A id \in read'[s] : Expired(id)'
    BY DecidedStep, ExpiredStays
  <1> QED  BY <1>1, <1>2, <1>3, <1>4, <1>5, <1>6 DEF Verdicts, StatusJustified, Expired

-----------------------------------------------------------------------------
(* How a call comes to hold the lock of an approval it may redeem, to have *)
(* used it, and to be forwarded.                                           *)
Course(c) ==
  /\ pc'[c] = "redeem" =>
       /\ on'[c] = on[c] /\ on[c] \in DOMAIN rows
       /\ pc[c] = "redeem" \/ (Redeemable(c, on[c]) /\ rows' = rows)
  /\ Used(c)' =>
       /\ on'[c] = on[c]
       /\ Used(c) \/ (pc[c] = "redeem" /\ rows'[on[c]].consumed = TRUE)
  /\ pc'[c] = "forward" \/ c \in forwarded' => Event("allow", c) \in audit'
  /\ c \in forwarded' => pc'[c] = "done"

(* Every step of the system keeps every call on this course.               *)
LEMMA UsedStep ==
  ASSUME Safe, [Next]_vars  PROVE \A c \in Calls : Course(c)
  <1> SUFFICES ASSUME NEW d \in Calls  PROVE Course(d)
    OBVIOUS
  <1>a. /\ Shapes /\ d \in Actors /\ d \in Calls \cup Admins
        /\ pc[d] \in Connected => on[d] \in DOMAIN rows
        /\ pc[d] = "forward" \/ d \in forwarded => Event("allow", d) \in audit
        /\ d \in forwarded => pc[d] = "done"
    BY ActorFacts DEF Safe, Locks, Redemptions
  <1> USE <1>a, ActorFacts DEF Shapes, Goto, Connected, Holding, Used, Course, sweeps
  <1>1. ASSUME NEW c \in Calls, AuditRequired(c)  PROVE Course(d)
    BY <1>1 DEF AuditRequired
  <1>2. ASSUME NEW c \in Calls, Create(c)  PROVE Course(d)
    BY <1>2 DEF Create
  <1>3. ASSUME NEW c \in Calls, Refuse(c)  PROVE Course(d)
    BY <1>3 DEF Refuse
  <1>4. ASSUME NEW c \in Calls, Accept(c)  PROVE Course(d)
    BY <1>4 DEF Accept
  <1>5. ASSUME NEW c \in Calls, CommitRedeem(c)  PROVE Course(d)
    <2>1. c = d => rows'[on[c]].consumed = TRUE
      BY <1>5 DEF CommitRedeem, Row
    <2> QED  BY <1>5, <2>1 DEF CommitRedeem
  <1>6. ASSUME NEW c \in Calls, AuditAllow(c)  PROVE Course(d)
    BY <1>6 DEF AuditAllow
  <1>7. ASSUME NEW c \in Calls, ForwardCall(c)  PROVE Course(d)
    BY <1>7 DEF ForwardCall
  <1>8. ASSUME NEW x \in Calls \cup Admins, Connect(x)  PROVE Course(d)
    BY <1>8 DEF Connect
  <1>9. ASSUME NEW a \in Admins, Judge(a)  PROVE Course(d)
    BY <1>9 DEF Judge
  <1>10. ASSUME NEW a \in Admins, AuditVerdict(a)  PROVE Course(d)
    BY <1>10 DEF AuditVerdict
  <1>11. ASSUME NEW a \in Admins, CommitVerdict(a)  PROVE Course(d)
    BY <1>11 DEF CommitVerdict
  <1>12. ASSUME NEW s \in Sweepers, StartSweep(s)  PROVE Course(d)
    BY <1>12 DEF StartSweep
  <1>13. ASSUME NEW s \in Sweepers, AuditStale(s)  PROVE Course(d)
    BY <1>13 DEF AuditStale
  <1>14. ASSUME NEW s \in Sweepers, CommitSweep(s)  PROVE Course(d)
    BY <1>14 DEF CommitSweep
  <1>15. ASSUME NEW x \in Actors, PoolTimeout(x)  PROVE Course(d)
    BY <1>15 DEF PoolTimeout
  <1>16. ASSUME NEW x \in Actors, Fail(x)  PROVE Course(d)
    BY <1>16 DEF Fail
  <1>17. ASSUME Tick  PROVE Course(d)
    BY <1>17 DEF Tick
  <1>18. ASSUME UNCHANGED vars  PROVE Course(d)
    BY <1>18 DEF vars
  <1> QED  BY <1>1, <1>2, <1>3, <1>4, <1>5, <1>6, <1>7, <1>8, <1>9,
              <1>10, <1>11, <1>12, <1>13, <1>14, <1>15, <1>16, <1>17, <1>18
           DEF Next, CallStep, AdminStep, SweepStep

(* CommitRedeem uses an approval that nobody has used, for it holds the    *)
(* lock since it found it unused; the others leave what was used alone.    *)
LEMMA RedemptionsStep ==
  ASSUME Safe, [Next]_vars  PROVE Redemptions'
  <1>1. ASSUME NEW c \in Calls, pc'[c] = "redeem"
        PROVE  /\ on'[c] = on[c] /\ rows'[on[c]] = rows[on[c]]
               /\ rows[on[c]].consumed = FALSE /\ rows[on[c]].status = "approved"
               /\ rows[on[c]].request = asked[c]
    <2>1. /\ on'[c] = on[c] /\ on[c] \in DOMAIN rows
          /\ pc[c] = "redeem" \/ (Redeemable(c, on[c]) /\ rows' = rows)
      BY <1>1, UsedStep DEF Course
    <2>2. CASE pc[c] = "redeem"
      <3>1. rows'[on[c]] = rows[on[c]]
        BY <1>1, <2>1, <2>2, RowsStep DEF RowsKept, Holding
      <3> QED  BY <2>1, <2>2, <3>1 DEF Safe, Redemptions
    <2>3. CASE Redeemable(c, on[c]) /\ rows' = rows
      <3>1. rows[on[c]].consumed \in BOOLEAN
        BY <2>1 DEF Safe, Shapes, Row
      <3> QED  BY <2>1, <2>3, <3>1 DEF Redeemable
    <2> QED  BY <2>1, <2>2, <2>3
  <1>2. ASSUME NEW c \in Calls, pc[c] = "redeem"
        PROVE  /\ on[c] \in DOMAIN rows /\ Event("approved", on[c]) \in audit
               /\ rows[on[c]].request = asked[c] /\ rows[on[c]].consumed = FALSE
    <2>1. on[c] \in DOMAIN rows
      BY <1>2 DEF Safe, Locks, Connected, Holding
    <2> QED  BY <1>2, <2>1 DEF Safe, Verdicts, StatusJustified, Redemptions
  <1>3. ASSUME NEW c \in Calls, Used(c)'
        PROVE  /\ on'[c] = on[c]
               /\ on[c] \in DOMAIN rows' /\ Event("approved", on[c]) \in audit'
               /\ rows'[on[c]].request = asked[c] /\ rows'[on[c]].consumed = TRUE
    <2>1. /\ on'[c] = on[c]
          /\ Used(c) \/ (pc[c] = "redeem" /\ rows'[on[c]].consumed = TRUE)
      BY <1>3, UsedStep DEF Course
    <2>2. /\ on[c] \in DOMAIN rows /\ Event("approved", on[c]) \in audit
          /\ rows[on[c]].request = asked[c]
          /\ rows[on[c]].consumed = TRUE \/ rows'[on[c]].consumed = TRUE
      BY <1>2, <2>1 DEF Safe, Redemptions
    <2> QED  BY <2>1, <2>2, RowsStep, GrowStep DEF RowsKept
  <1>4. ASSUME NEW c \in Calls, NEW d \in Calls, Used(c)', Used(d)', on'[c] = on'[d]
        PROVE  c = d
    <2>1. on[c] = on[d] /\ (Used(c) \/ pc[c] = "redeem") /\ (Used(d) \/ pc[d] = "redeem")
      BY <1>4, UsedStep DEF Course
    <2>2. CASE Used(c) /\ Used(d)
      BY <2>1, <2>2 DEF Safe, Redemptions
    <2>3. CASE pc[c] = "redeem" /\ pc[d] = "redeem"
      BY <2>1, <2>3 DEF Safe, Locks, Holding
    <2>4. ASSUME NEW x \in Calls, NEW y \in Calls, Used(x), pc[y] = "redeem", on[x] = on[y]
          PROVE  FALSE
      <3>1. rows[on[x]].consumed = TRUE /\ rows[on[x]].consumed = FALSE
        BY <2>4 DEF Safe, Redemptions
      <3> QED  BY <3>1
    <2> QED  BY <2>1, <2>2, <2>3, <2>4
  <1>5. asked' = asked
    BY GrowStep
  <1>6. ASSUME NEW c \in Calls, pc'[c] = "redeem"
        PROVE  /\ rows'[on'[c]].consumed = FALSE /\ rows'[on'[c]].status = "approved"
               /\ rows'[on'[c]].request = asked'[c]
    BY <1>1, <1>5, <1>6
  <1>7. ASSUME NEW c \in Calls, Used(c)'
        PROVE  /\ on'[c] \in DOMAIN rows' /\ Event("approved", on'[c]) \in audit'
               /\ rows'[on'[c]].request = asked'[c] /\ rows'[on'[c]].consumed = TRUE
    BY <1>3, <1>5, <1>7
  <1> QED  BY <1>4, <1>6, <1>7, UsedStep DEF Course, Redemptions

-----------------------------------------------------------------------------
Drawn == {x \in Actors : pc[x] \in Connected}

(* What is connected is a finite set, and the pool tells what is free.     *)
LEMMA PoolFacts ==
  ASSUME Shapes
  PROVE  /\ IsFiniteSet(Actors) /\ IsFiniteSet(Drawn) /\ Cardinality(Drawn) \in Nat
         /\ Free = PoolSize - Cardinality(Drawn)
  <1>1. IsFiniteSet(Actors)
    BY ActorsAssumption, FS_Union DEF Actors
  <1>2. IsFiniteSet(Drawn)
    BY <1>1, FS_Subset DEF Drawn
  <1> QED  BY <1>1, <1>2, FS_CardinalityType DEF Drawn, Free

(* The pool is never overdrawn.                                            *)
LEMMA PoolStep ==
  ASSUME Safe, Free >= 0, [Next]_vars  PROVE Free' >= 0
  <1>0. /\ IsFiniteSet(Drawn) /\ Cardinality(Drawn) \in Nat
        /\ Free = PoolSize - Cardinality(Drawn)
    BY PoolFacts DEF Safe
  <1>1. /\ IsFiniteSet(Drawn') /\ Cardinality(Drawn') \in Nat
        /\ Free' = PoolSize - Cardinality(Drawn')
    <2>1. IsFiniteSet(Drawn')
      BY PoolFacts, FS_Subset DEF Safe, Drawn
    <2> QED  BY <2>1, FS_CardinalityType DEF Drawn, Free
  <1> DEFINE Kept ==
        \/ Drawn' \subseteq Drawn
        \/ Free > 0 /\ \E x \in Actors : Drawn' \subseteq Drawn \cup {x}
  <1>2. Kept
    <2> USE ActorFacts DEF Safe, Shapes, Goto, Drawn, Connected, Holding
    <2>1. ASSUME NEW c \in Calls, AuditRequired(c)  PROVE Kept
      BY <2>1 DEF AuditRequired
    <2>2. ASSUME NEW c \in Calls, Create(c)  PROVE Kept
      BY <2>2 DEF Create
    <2>3. ASSUME NEW c \in Calls, Refuse(c)  PROVE Kept
      BY <2>3 DEF Refuse
    <2>4. ASSUME NEW c \in Calls, Accept(c)  PROVE Kept
      BY <2>4 DEF Accept
    <2>5. ASSUME NEW c \in Calls, CommitRedeem(c)  PROVE Kept
      BY <2>5 DEF CommitRedeem
    <2>6. ASSUME NEW c \in Calls, AuditAllow(c)  PROVE Kept
      BY <2>6 DEF AuditAllow
    <2>7. ASSUME NEW c \in Calls, ForwardCall(c)  PROVE Kept
      BY <2>7 DEF ForwardCall
    <2>8. ASSUME NEW x \in Calls \cup Admins, Connect(x)  PROVE Kept
      BY <2>8 DEF Connect
    <2>9. ASSUME NEW a \in Admins, Judge(a)  PROVE Kept
      BY <2>9 DEF Judge
    <2>10. ASSUME NEW a \in Admins, AuditVerdict(a)  PROVE Kept
      BY <2>10 DEF AuditVerdict
    <2>11. ASSUME NEW a \in Admins, CommitVerdict(a)  PROVE Kept
      BY <2>11 DEF CommitVerdict
    <2>12. ASSUME NEW s \in Sweepers, StartSweep(s)  PROVE Kept
      BY <2>12 DEF StartSweep
    <2>13. ASSUME NEW s \in Sweepers, AuditStale(s)  PROVE Kept
      BY <2>13 DEF AuditStale
    <2>14. ASSUME NEW s \in Sweepers, CommitSweep(s)  PROVE Kept
      BY <2>14 DEF CommitSweep
    <2>15. ASSUME NEW x \in Actors, PoolTimeout(x)  PROVE Kept
      BY <2>15 DEF PoolTimeout
    <2>16. ASSUME NEW x \in Actors, Fail(x)  PROVE Kept
      BY <2>16 DEF Fail
    <2>17. ASSUME Tick  PROVE Kept
      <3>1. Drawn' \subseteq Drawn
        BY <2>17 DEF Tick
      <3> QED  BY <3>1
    <2>18. ASSUME UNCHANGED vars  PROVE Kept
      <3>1. Drawn' \subseteq Drawn
        BY <2>18 DEF vars
      <3> QED  BY <3>1
    <2> QED  BY <2>1, <2>2, <2>3, <2>4, <2>5, <2>6, <2>7, <2>8, <2>9,
                <2>10, <2>11, <2>12, <2>13, <2>14, <2>15, <2>16, <2>17, <2>18
             DEF Next, CallStep, AdminStep, SweepStep
  <1>3. CASE Drawn' \subseteq Drawn
    <2>1. Cardinality(Drawn') <= Cardinality(Drawn)
      BY <1>0, <1>3, FS_Subset
    <2> QED  BY <1>0, <1>1, <2>1, Numbers
  <1>4. ASSUME Free > 0, NEW x \in Actors, Drawn' \subseteq Drawn \cup {x}  PROVE Free' >= 0
    <2>1. /\ IsFiniteSet(Drawn \cup {x})
          /\ Cardinality(Drawn \cup {x}) <= Cardinality(Drawn) + 1
      BY <1>0, FS_AddElement, SMTT(30)
    <2>2. Cardinality(Drawn') <= Cardinality(Drawn \cup {x}) /\ Cardinality(Drawn \cup {x}) \in Nat
      BY <1>4, <2>1, FS_Subset, FS_CardinalityType
    <2> QED  BY <1>0, <1>1, <1>4, <2>1, <2>2, Numbers
  <1> QED  BY <1>2, <1>3, <1>4

-----------------------------------------------------------------------------
(* The initial state is safe: no approvals, no rows, nobody connected.     *)
LEMMA InitSafe == Init => ApprovalInv
  <1> SUFFICES ASSUME Init  PROVE ApprovalInv
    OBVIOUS
  <1>1. DOMAIN rows = {}
    BY DEF Init
  <1>2. Shapes
    BY <1>1, AskingsAssumption, ActorFacts, Numbers DEF Init, Shapes, Labels
  <1>3. Locks
    BY <1>1, ActorFacts DEF Init, Locks, Connected, Holding
  <1>4. Verdicts
    BY <1>1, ActorFacts DEF Init, Verdicts, StatusJustified
  <1>5. Redemptions
    BY <1>1, ActorFacts DEF Init, Redemptions, Used
  <1>6. Drawn = {}
    BY DEF Init, Drawn, Connected, Holding
  <1>7. Free = PoolSize - 0
    BY <1>2, <1>6, PoolFacts, FS_EmptySet
  <1> QED  BY <1>2, <1>3, <1>4, <1>5, <1>7, Numbers DEF ApprovalInv, Safe

(* The inductive invariant.                                                *)
THEOREM ApprovalsSafe == Spec => []ApprovalInv
  <1>1. ApprovalInv /\ [Next]_vars => ApprovalInv'
    BY ShapesStep, LocksStep, VerdictsStep, RedemptionsStep, PoolStep DEF ApprovalInv, Safe
  <1> QED  BY <1>1, InitSafe, PTL DEF Spec

(* Types; the pool is never overdrawn, a row lock has one holder.          *)
THEOREM TypeCorrect == Spec => []TypeOK
  <1>1. ApprovalInv => TypeOK
    BY DEF ApprovalInv, Safe, Shapes, Locks, TypeOK, Row
  <1> QED  BY <1>1, ApprovalsSafe, PTL

(* ApprovalStore.redeem: one approval lets one call through.               *)
THEOREM ApprovalUsedOnce == Spec => []UsedOnce
  <1>1. ApprovalInv => UsedOnce
    BY DEF ApprovalInv, Safe, Shapes, Redemptions, Used, UsedOnce
  <1> QED  BY <1>1, ApprovalsSafe, PTL

(* redeem and _authorize_call: what is forwarded on an approval is what a  *)
(* human approved, and both rows precede it.                               *)
THEOREM ApprovalGranted == Spec => []ForwardGranted
  <1>1. ApprovalInv => ForwardGranted
    BY DEF ApprovalInv, Safe, Shapes, Redemptions, Used, ForwardGranted
  <1> QED  BY <1>1, ApprovalsSafe, PTL

(* approve and expire_stale: what the table says of an approval is true.   *)
THEOREM ApprovalJustified == Spec => []StatusJustified
  <1>1. ApprovalInv => StatusJustified
    BY DEF ApprovalInv, Safe, Verdicts
  <1> QED  BY <1>1, ApprovalsSafe, PTL

-----------------------------------------------------------------------------
(* An approval that is being used, or was, is out of reach of every sweep: *)
(* none has read it, none will, and it is not recorded as expired.         *)
Lasting(id) ==
  /\ rows[id].status = "approved" /\ Event("expired", id) \notin audit
  /\ \A s \in Sweepers : id \notin read[s]

OneShot ==
  /\ \A id \in DOMAIN rows :
       rows[id].request = asked[id] /\ (rows[id].consumed = TRUE => Lasting(id))
  /\ \A c \in Calls : pc[c] = "redeem" => Lasting(on[c])

(* Who may still record the expiry of an approval that is approved.        *)
Redeeming(id) == \E c \in Calls : pc[c] = "redeem" /\ on[c] = id
InTime(id) == rows[id].consumed = TRUE \/ Redeeming(id) \/ ~Expired(id)

(* What any step does to one approval, as far as OneShot sees it.          *)
Lasts(id) ==
  /\ id \in DOMAIN rows /\ Lasting(id) /\ InTime(id) => Lasting(id)'
  /\ id \in DOMAIN rows' \ DOMAIN rows =>
       rows'[id].request = asked[id] /\ rows'[id].consumed = FALSE
  /\ id \in DOMAIN rows /\ rows'[id].consumed # rows[id].consumed => Redeeming(id)

(* A step that leaves the table and the sweeps alone.                      *)
LEMMA LastsUnmoved ==
  ASSUME Safe, NEW id, UNCHANGED <<rows, read>>,
         Event("expired", id) \notin audit' \ audit \/ ~Lasting(id) \/ ~InTime(id)
  PROVE  Lasts(id)
  BY DEF Lasts, Lasting

(* Nothing expires an approval once it is used, or before its time.        *)
LEMMA LastsStep ==
  ASSUME Safe, [Next]_vars, NEW d  PROVE Lasts(d)
  <1> USE DEF sweeps
  <1>1. ASSUME NEW c \in Calls, AuditRequired(c)  PROVE Lasts(d)
    BY <1>1, LastsUnmoved, EventsDiffer DEF AuditRequired
  <1>2. ASSUME NEW c \in Calls, Create(c)  PROVE Lasts(d)
    <2>1. /\ rows' = [id \in DOMAIN rows \cup {c} |->
                 IF id = c THEN [ request |-> asked[c], expires |-> now + TTL,
                                  status |-> "pending", consumed |-> FALSE ]
                 ELSE rows[id]]
          /\ UNCHANGED <<audit, read>> /\ pc[c] = "create"
      BY <1>2 DEF Create
    <2>2. c \notin DOMAIN rows
      BY <2>1, ActorFacts DEF Safe, Verdicts
    <2> QED  BY <2>1, <2>2 DEF Lasts, Lasting
  <1>3. ASSUME NEW c \in Calls, Refuse(c)  PROVE Lasts(d)
    <2> DEFINE ids == {id \in {on[c]} : rows[id].status = "pending" /\ Expired(id)}
    <2>1. /\ SetStatus(ids, "expired") /\ ~Locked(on[c]) /\ UNCHANGED read
          /\ audit' \in {audit} \cup
               {audit \cup {Event("expired", id)} :
                  id \in {i \in {on[c]} : ~rows[i].consumed /\ Expired(i)}}
          /\ on[c] \in DOMAIN rows
      BY <1>3 DEF Refuse, Safe, Locks, Connected
    <2>2. ASSUME Event("expired", d) \in audit' \ audit
          PROVE  d = on[c] /\ rows[d].consumed = FALSE /\ Expired(d) /\ ~Redeeming(d)
      <3>1. PICK i \in {on[c]} : ~rows[i].consumed /\ Expired(i) /\ audit' = audit \cup {Event("expired", i)}
        BY <2>1, <2>2
      <3>2. d = on[c]
        BY <2>2, <3>1, EventsDiffer
      <3>3. ~Redeeming(d)
        BY <2>1, <3>2 DEF Locked, Redeeming, Holding
      <3> QED  BY <2>1, <3>1, <3>2, <3>3 DEF Safe, Shapes, Row
    <2>3. Event("expired", d) \in audit' \ audit => ~InTime(d)
      BY <2>2 DEF InTime
    <2>4. /\ DOMAIN rows' = DOMAIN rows
          /\ \A id \in DOMAIN rows : rows'[id].consumed = rows[id].consumed
          /\ \A id \in DOMAIN rows : rows[id].status = "approved" => rows'[id] = rows[id]
      <3>1. \A id \in ids : rows[id].status = "pending"
        OBVIOUS
      <3> HIDE DEF ids
      <3> QED  BY <2>1, <3>1, SetStatusFacts DEF Safe
    <2> QED  BY <2>1, <2>3, <2>4 DEF Lasts, Lasting
  <1>4. ASSUME NEW c \in Calls, Accept(c)  PROVE Lasts(d)
    BY <1>4, LastsUnmoved DEF Accept
  <1>5. ASSUME NEW c \in Calls, CommitRedeem(c)  PROVE Lasts(d)
    <2>1. /\ on[c] \in DOMAIN rows /\ pc[c] = "redeem" /\ UNCHANGED <<audit, read>>
          /\ rows' = [rows EXCEPT ![on[c]].consumed = TRUE]
      BY <1>5 DEF CommitRedeem, Safe, Locks, Connected, Holding
    <2>2. /\ DOMAIN rows' = DOMAIN rows
          /\ \A id \in DOMAIN rows : id # on[c] => rows'[id] = rows[id]
          /\ rows'[on[c]].status = rows[on[c]].status
      BY <2>1 DEF Safe, Shapes, Row
    <2> QED  BY <2>1, <2>2 DEF Lasts, Lasting, Redeeming
  <1>6. ASSUME NEW c \in Calls, AuditAllow(c)  PROVE Lasts(d)
    BY <1>6, LastsUnmoved, EventsDiffer DEF AuditAllow
  <1>7. ASSUME NEW c \in Calls, ForwardCall(c)  PROVE Lasts(d)
    BY <1>7, LastsUnmoved DEF ForwardCall
  <1>8. ASSUME NEW x \in Calls \cup Admins, Connect(x)  PROVE Lasts(d)
    BY <1>8, LastsUnmoved DEF Connect
  <1>9. ASSUME NEW a \in Admins, Judge(a)  PROVE Lasts(d)
    BY <1>9, LastsUnmoved DEF Judge
  <1>10. ASSUME NEW a \in Admins, AuditVerdict(a)  PROVE Lasts(d)
    <2>1. Event("expired", d) \in audit' \ audit => d = on[a] /\ pc[a] = "expire"
      BY <1>10, EventsDiffer DEF AuditVerdict
    <2>2. pc[a] = "expire" => ~Lasting(on[a])
      BY DEF Safe, Verdicts, Lasting
    <2> QED  BY <1>10, <2>1, <2>2, LastsUnmoved DEF AuditVerdict
  <1>11. ASSUME NEW a \in Admins, CommitVerdict(a)  PROVE Lasts(d)
    <2>1. \E status \in {"approved", "expired"} : SetStatus({on[a]}, status)
      BY <1>11 DEF CommitVerdict
    <2>2. rows[on[a]].status = "pending" /\ UNCHANGED <<audit, read>>
      BY <1>11 DEF CommitVerdict, Safe, Verdicts
    <2>3. /\ DOMAIN rows' = DOMAIN rows
          /\ \A id \in DOMAIN rows : rows'[id].consumed = rows[id].consumed
          /\ \A id \in DOMAIN rows : rows[id].status = "approved" => rows'[id] = rows[id]
      BY <2>1, <2>2, SetStatusFacts DEF Safe
    <2> QED  BY <2>2, <2>3 DEF Lasts, Lasting
  <1>12. ASSUME NEW s \in Sweepers, StartSweep(s)  PROVE Lasts(d)
    <2>1. UNCHANGED <<rows, audit>> /\ read' = [read EXCEPT ![s] = Stale]
      BY <1>12 DEF StartSweep
    <2>2. \A t \in Sweepers : read'[t] = read[t] \/ read'[t] = Stale
      BY <2>1 DEF Safe, Shapes
    <2>3. rows[d].status = "approved" => d \notin Stale
      BY DEF Stale
    <2> QED  BY <2>1, <2>2, <2>3 DEF Lasts, Lasting
  <1>13. ASSUME NEW s \in Sweepers, AuditStale(s)  PROVE Lasts(d)
    <2>1. PICK id \in left[s] : audit' = audit \cup {Event("expired", id)}
      BY <1>13 DEF AuditStale
    <2>2. Event("expired", d) \in audit' \ audit => d \in read[s]
      BY <2>1, EventsDiffer DEF Safe, Locks
    <2> QED  BY <1>13, <2>2, LastsUnmoved DEF AuditStale, Lasting
  <1>14. ASSUME NEW s \in Sweepers, CommitSweep(s)  PROVE Lasts(d)
    <2>1. SetStatus(read[s], "expired") /\ UNCHANGED <<audit, read>>
      BY <1>14 DEF CommitSweep
    <2>2. /\ DOMAIN rows' = DOMAIN rows
          /\ \A id \in DOMAIN rows : rows'[id].consumed = rows[id].consumed
          /\ \A id \in DOMAIN rows : id \notin read[s] => rows'[id] = rows[id]
      BY <2>1, SetStatusFacts DEF Safe
    <2> QED  BY <2>1, <2>2 DEF Lasts, Lasting
  <1>15. ASSUME NEW x \in Actors, PoolTimeout(x)  PROVE Lasts(d)
    BY <1>15, LastsUnmoved DEF PoolTimeout
  <1>16. ASSUME NEW x \in Actors, Fail(x)  PROVE Lasts(d)
    <2>1. Event("expired", d) \in audit' \ audit => Event("expired", d) \in Writing(x)
      <3>1. audit' \in {audit} \cup {audit \cup {e} : e \in Writing(x)}
        BY <1>16 DEF Fail
      <3> QED  BY <3>1
    <2>2. Event("expired", d) \in Writing(x) =>
            (pc[x] = "expire" /\ d = on[x]) \/ (pc[x] = "sweep" /\ d \in left[x])
      BY WritingFacts, EventsDiffer
    <2>3. pc[x] = "expire" => x \in Admins
      BY DEF Actors, Safe, Shapes
    <2>4. pc[x] = "sweep" => x \in Sweepers
      BY DEF Actors, Safe, Shapes
    <2>5. Event("expired", d) \in audit' \ audit => ~Lasting(d)
      BY <2>1, <2>2, <2>3, <2>4 DEF Safe, Verdicts, Locks, Lasting
    <2> QED  BY <1>16, <2>5, LastsUnmoved DEF Fail
  <1>17. ASSUME Tick  PROVE Lasts(d)
    BY <1>17, LastsUnmoved DEF Tick
  <1>18. ASSUME UNCHANGED vars  PROVE Lasts(d)
    BY <1>18, LastsUnmoved DEF vars
  <1> QED  BY <1>1, <1>2, <1>3, <1>4, <1>5, <1>6, <1>7, <1>8, <1>9,
              <1>10, <1>11, <1>12, <1>13, <1>14, <1>15, <1>16, <1>17, <1>18
           DEF Next, CallStep, AdminStep, SweepStep

(* So the approvals in use stay out of reach of the sweeps and admins.     *)
LEMMA OneShotStep ==
  ASSUME Safe, OneShot, [Next]_vars  PROVE OneShot'
  <1>1. ASSUME NEW id \in DOMAIN rows'
        PROVE  rows'[id].request = asked[id] /\ (rows'[id].consumed = TRUE => Lasting(id)')
    <2>1. CASE id \notin DOMAIN rows
      BY <2>1, LastsStep DEF Lasts
    <2>2. CASE id \in DOMAIN rows
      <3>1. rows'[id].request = asked[id]
        BY <2>2, RowsStep DEF OneShot, RowsKept
      <3>2. ASSUME rows'[id].consumed = TRUE  PROVE Lasting(id)'
        <4>1. rows[id].consumed = TRUE \/ Redeeming(id)
          BY <2>2, <3>2, LastsStep DEF Lasts
        <4>2. Lasting(id) /\ InTime(id)
          BY <2>2, <4>1 DEF OneShot, Redeeming, InTime
        <4> QED  BY <2>2, <4>2, LastsStep DEF Lasts
      <3> QED  BY <3>1, <3>2
    <2> QED  BY <2>1, <2>2
  <1>2. ASSUME NEW c \in Calls, pc'[c] = "redeem"
        PROVE  on'[c] = on[c] /\ Lasting(on[c])'
    <2> DEFINE id == on[c]
    <2>1. /\ on'[c] = id /\ id \in DOMAIN rows
          /\ pc[c] = "redeem" \/ (Redeemable(c, id) /\ rows' = rows)
      BY <1>2, UsedStep DEF Course
    <2>2. Lasting(id) /\ InTime(id)
      <3>1. CASE pc[c] = "redeem"
        BY <3>1 DEF OneShot, InTime, Redeeming
      <3>2. CASE Redeemable(c, id)
        BY <2>1, <3>2 DEF Redeemable, Safe, Verdicts, Lasting, InTime, Shapes
      <3> QED  BY <2>1, <3>1, <3>2
    <2> HIDE DEF id
    <2>3. ASSUME NEW i, i = id  PROVE Lasting(i)'
      BY <2>1, <2>2, <2>3, LastsStep DEF Lasts
    <2> QED  BY <2>1, <2>3 DEF id, Lasting
  <1>3. asked' = asked
    BY GrowStep
  <1> QED  BY <1>1, <1>2, <1>3 DEF OneShot, Lasting

-----------------------------------------------------------------------------
(* What a row of the table stands for.                                     *)
Value(row) == IF row.consumed THEN "used" ELSE row.status

(* A row that is consumed stands for a used approval, whatever its status. *)
LEMMA ValueFacts ==
  ASSUME NEW row \in Row
  PROVE  /\ row.consumed = TRUE => Value(row) = "used"
         /\ row.consumed = FALSE => Value(row) = row.status
         /\ row.consumed = TRUE \/ row.consumed = FALSE
         /\ Value(row) = "used" => row.consumed = TRUE
  BY DEF Row, Value

(* The refinement mapping, row by row.                                     *)
LEMMA StandingFacts ==
  /\ Standing = [id \in DOMAIN rows |-> Value(rows[id])]
  /\ Standing' = [id \in DOMAIN rows' |-> Value(rows'[id])]
  BY DEF Standing, Value

(* The rows of the audit log that close an approval.                       *)
LEMMA ClosedFacts ==
  /\ UNCHANGED audit => Closed' = Closed
  /\ \A x : audit' = audit \cup {Event("expired", x)} /\ x \in Calls => Closed' = Closed \cup {x}
  /\ \A n, x : audit' = audit \cup {Event(n, x)} /\ n # "expired" => Closed' = Closed
  BY EventsDiffer DEF Closed

(* Who is cleared to go upstream after a step of x.                        *)
LEMMA ClearedFacts ==
  ASSUME Shapes, NEW x \in Actors, NEW label, Goto(x, label)
  PROVE  /\ x \in Calls /\ label \in {"validate", "forward"} => Cleared' = Cleared \cup {x}
         /\ label \notin {"validate", "forward"} => Cleared' = Cleared \ {x}
         /\ x \notin Cleared /\ label \notin {"validate", "forward"} => Cleared' = Cleared
         /\ x \notin Calls => Cleared' = Cleared
  BY ActorFacts DEF Shapes, Goto, Cleared

(* The step is one of OneShotApproval, or leaves it as it is.              *)
Simulated == [Approvals!Next]_(Approvals!approvalVars)

(* A step that neither the table, the log nor the cleared calls see.       *)
LEMMA Stutters ==
  ASSUME UNCHANGED <<rows, asked, forwarded>>, Closed' = Closed, Cleared' = Cleared
  PROVE  Simulated
  BY StandingFacts DEF Simulated, Approvals!approvalVars

(* A sweep, an admin or a call that finds an approval expired: some rows   *)
(* are marked and some are recorded, none of them of a used approval.      *)
LEMMA Expires ==
  ASSUME Safe, UNCHANGED <<asked, forwarded>>, Cleared' = Cleared,
         NEW ids \in SUBSET DOMAIN rows, NEW record \in SUBSET DOMAIN rows,
         \A id \in ids \cup record : rows[id].consumed # TRUE,
         SetStatus(ids, "expired"), Closed' = Closed \cup record
  PROVE  Simulated
  <1>1. /\ DOMAIN rows' = DOMAIN rows
        /\ \A id \in DOMAIN rows :
             /\ rows'[id] \in Row /\ rows'[id].consumed = rows[id].consumed
             /\ id \in ids => rows'[id].status = "expired"
             /\ id \notin ids => rows'[id] = rows[id]
    BY SetStatusFacts DEF Safe
  <1>2. \A id \in DOMAIN rows : rows[id] \in Row
    BY DEF Safe, Shapes
  <1>3. \A id \in ids \cup record : Standing[id] # "used"
    BY <1>2, ValueFacts, StandingFacts
  <1>4. \A id \in ids : Value(rows'[id]) = "expired"
    <2> SUFFICES ASSUME NEW id \in ids  PROVE Value(rows'[id]) = "expired"
      OBVIOUS
    <2>1. rows'[id] \in Row /\ rows'[id].consumed # TRUE /\ rows'[id].status = "expired"
      BY <1>1
    <2> QED  BY <2>1, ValueFacts
  <1>5. Standing' = [id \in DOMAIN Standing |-> IF id \in ids THEN "expired" ELSE Standing[id]]
    BY <1>1, <1>4, StandingFacts
  <1>6. Approvals!Expire(ids, record)
    BY <1>3, <1>5 DEF Approvals!Expire
  <1>7. DOMAIN Standing = DOMAIN rows
    BY StandingFacts
  <1> QED  BY <1>6, <1>7 DEF Simulated, Approvals!Next

(* An approval that expired is recorded, whatever its row says.            *)
LEMMA Records ==
  ASSUME Safe, UNCHANGED <<rows, asked, forwarded>>, Cleared' = Cleared,
         NEW id \in DOMAIN rows, rows[id].consumed # TRUE, Closed' = Closed \cup {id}
  PROVE  Simulated
  <1>1. Standing[id] # "used" /\ DOMAIN Standing = DOMAIN rows
    BY ValueFacts, StandingFacts DEF Safe, Shapes
  <1>2. Standing' = [i \in DOMAIN Standing |-> IF i \in {} THEN "expired" ELSE Standing[i]]
    BY StandingFacts
  <1>3. Approvals!Expire({}, {id})
    BY <1>1, <1>2 DEF Approvals!Expire
  <1>4. {} \in SUBSET DOMAIN Standing /\ {id} \in SUBSET DOMAIN Standing
    BY <1>1
  <1> QED  BY <1>3, <1>4 DEF Simulated, Approvals!Next

(* A request that ends early gives up what it was cleared for, if it was.  *)
LEMMA Loses ==
  ASSUME Safe, NEW x \in Actors, Goto(x, "done"),
         UNCHANGED <<rows, asked, forwarded>>, Closed' = Closed
  PROVE  Simulated
  <1>1. Cleared' = Cleared \ {x} /\ Standing' = Standing
    BY ClearedFacts, StandingFacts DEF Safe
  <1>2. CASE x \notin Cleared
    <2>1. Cleared' = Cleared
      BY <1>1, <1>2
    <2> QED  BY <2>1, Stutters
  <1>3. CASE x \in Cleared
    <2>1. Approvals!Lose(x)
      BY <1>1 DEF Approvals!Lose
    <2> QED  BY <1>3, <2>1 DEF Simulated, Approvals!Next
  <1> QED  BY <1>2, <1>3

(* What an admin judges, and what a sweep has read, is not used.           *)
LEMMA Unused ==
  ASSUME Safe, OneShot
  PROVE  /\ \A a \in Admins : pc[a] \in {"grant", "granted", "expire", "expired"} =>
              on[a] \in DOMAIN rows /\ rows[on[a]].consumed # TRUE
         /\ \A s \in Sweepers : \A id \in read[s] :
              id \in DOMAIN rows /\ rows[id].consumed # TRUE
  BY DEF Safe, Locks, Verdicts, OneShot, Lasting, Connected, Holding

(* Every step of the store is a step of OneShotApproval or none.           *)
LEMMA SimulationStep ==
  ASSUME Safe, OneShot, [Next]_vars  PROVE Simulated
  <1> USE DEF sweeps
  <1>a. Shapes
    BY DEF Safe
  <1>b. \A x \in Actors : x \in Cleared => x \in Calls /\ pc[x] \in {"validate", "forward"}
    BY DEF Cleared
  <1>1. ASSUME NEW c \in Calls, AuditRequired(c)  PROVE Simulated
    BY <1>1, <1>a, <1>b, ActorFacts, Stutters, ClosedFacts, ClearedFacts DEF AuditRequired
  <1>2. ASSUME NEW c \in Calls, Create(c)  PROVE Simulated
    <2> DEFINE row == [ request |-> asked[c], expires |-> now + TTL,
                        status |-> "pending", consumed |-> FALSE ]
    <2>1. /\ rows' = [id \in DOMAIN rows \cup {c} |-> IF id = c THEN row ELSE rows[id]]
          /\ Goto(c, "done") /\ pc[c] = "create" /\ UNCHANGED <<audit, asked, forwarded>>
      BY <1>2 DEF Create
    <2>2. c \notin DOMAIN rows
      BY <2>1, ActorFacts DEF Safe, Verdicts
    <2>3. Value(row) = "pending"
      BY DEF Value
    <2> HIDE DEF row
    <2>4. Standing' = [i \in DOMAIN Standing \cup {c} |-> IF i = c THEN "pending" ELSE Standing[i]]
      BY <2>1, <2>3, StandingFacts
    <2>5. Closed' = Closed /\ Cleared' = Cleared /\ c \notin DOMAIN Standing
      BY <2>1, <2>2, <1>a, <1>b, ActorFacts, StandingFacts, ClosedFacts, ClearedFacts
    <2>6. Approvals!Ask(c)
      BY <2>1, <2>4, <2>5 DEF Approvals!Ask
    <2> QED  BY <2>6 DEF Simulated, Approvals!Next
  <1>3. ASSUME NEW c \in Calls, Refuse(c)  PROVE Simulated
    <2> DEFINE ids == {id \in {on[c]} : rows[id].status = "pending" /\ Expired(id)}
               late == {id \in {on[c]} : ~rows[id].consumed /\ Expired(id)}
    <2>1. /\ SetStatus(ids, "expired") /\ on[c] \in DOMAIN rows
          /\ audit' \in {audit} \cup {audit \cup {Event("expired", id)} : id \in late}
          /\ Goto(c, "done") /\ pc[c] = "lock" /\ UNCHANGED <<asked, forwarded>>
      BY <1>3 DEF Refuse, Safe, Locks, Connected
    <2>2. Cleared' = Cleared
      BY <2>1, <1>a, <1>b, ActorFacts, ClearedFacts
    <2>3. \A id \in ids : rows[id].consumed # TRUE
      BY <2>1 DEF OneShot, Lasting
    <2>4. \A id \in late : rows[id].consumed # TRUE
      OBVIOUS
    <2>5. ids \in SUBSET DOMAIN rows /\ late \in SUBSET DOMAIN rows
      BY <2>1
    <2> HIDE DEF ids, late
    <2>6. \E record \in SUBSET late : Closed' = Closed \cup record
      <3>1. CASE audit' = audit
        <4>1. {} \in SUBSET late /\ Closed' = Closed \cup {}
          BY <3>1, ClosedFacts
        <4> QED  BY <4>1
      <3>2. ASSUME NEW id \in late, audit' = audit \cup {Event("expired", id)}
            PROVE  {id} \in SUBSET late /\ Closed' = Closed \cup {id}
        BY <3>2, <2>5, ClosedFacts DEF Safe, Shapes
      <3> QED  BY <2>1, <3>1, <3>2
    <2>7. PICK record \in SUBSET late : Closed' = Closed \cup record
      BY <2>6
    <2>8. record \in SUBSET DOMAIN rows /\ \A id \in ids \cup record : rows[id].consumed # TRUE
      BY <2>3, <2>4, <2>5
    <2> QED  BY <2>1, <2>2, <2>5, <2>7, <2>8, Expires
  <1>4. ASSUME NEW c \in Calls, Accept(c)  PROVE Simulated
    BY <1>4, <1>a, <1>b, ActorFacts, Stutters, ClosedFacts, ClearedFacts DEF Accept
  <1>5. ASSUME NEW c \in Calls, CommitRedeem(c)  PROVE Simulated
    <2>1. /\ on[c] \in DOMAIN rows /\ pc[c] = "redeem" /\ Goto(c, "validate")
          /\ rows' = [rows EXCEPT ![on[c]].consumed = TRUE]
          /\ UNCHANGED <<audit, asked, forwarded>>
      BY <1>5 DEF CommitRedeem, Safe, Locks, Connected, Holding
    <2>2. /\ rows[on[c]].consumed = FALSE /\ rows[on[c]].status = "approved"
          /\ rows[on[c]].request = asked[c] /\ rows[on[c]].request = asked[on[c]]
          /\ Event("expired", on[c]) \notin audit /\ c \notin forwarded
      BY <2>1 DEF Safe, Redemptions, OneShot, Lasting
    <2>3. /\ DOMAIN rows' = DOMAIN rows /\ rows[on[c]] \in Row
          /\ \A id \in DOMAIN rows : id # on[c] => rows'[id] = rows[id]
          /\ rows'[on[c]].consumed = TRUE /\ rows'[on[c]] \in Row
      BY <2>1, ZenonT(30) DEF Safe, Shapes, Row
    <2>4. Value(rows'[on[c]]) = "used" /\ Value(rows[on[c]]) = "approved"
      BY <2>2, <2>3, ValueFacts
    <2>5. /\ Standing[on[c]] = "approved" /\ on[c] \in DOMAIN Standing
          /\ Standing' = [Standing EXCEPT ![on[c]] = "used"]
      BY <2>1, <2>3, <2>4, StandingFacts
    <2>6. /\ Closed' = Closed /\ on[c] \notin Closed
          /\ Cleared' = Cleared \cup {c} /\ c \notin Cleared
      BY <2>1, <2>2, <1>a, ActorFacts, ClosedFacts, ClearedFacts DEF Closed, Cleared
    <2>7. Approvals!Use(c, on[c])
      BY <2>1, <2>2, <2>5, <2>6 DEF Approvals!Use
    <2> QED  BY <2>2, <2>5, <2>6, <2>7 DEF Simulated, Approvals!Next
  <1>6. ASSUME NEW c \in Calls, AuditAllow(c)  PROVE Simulated
    <2>1. Cleared' = Cleared \cup {c} /\ c \in Cleared
      BY <1>6, <1>a, ActorFacts, ClearedFacts DEF AuditAllow, Cleared
    <2>2. Cleared' = Cleared
      BY <2>1
    <2> QED  BY <1>6, <2>2, Stutters, ClosedFacts DEF AuditAllow
  <1>7. ASSUME NEW c \in Calls, ForwardCall(c)  PROVE Simulated
    <2>1. Cleared' = Cleared \ {c} /\ c \in Cleared
      BY <1>7, <1>a, ActorFacts, ClearedFacts DEF ForwardCall, Cleared
    <2>2. Closed' = Closed /\ Standing' = Standing
      BY <1>7, ClosedFacts, StandingFacts DEF ForwardCall
    <2>3. Approvals!Forward(c)
      BY <1>7, <2>1, <2>2 DEF ForwardCall, Approvals!Forward
    <2> QED  BY <2>1, <2>3 DEF Simulated, Approvals!Next
  <1>8. ASSUME NEW x \in Calls \cup Admins, Connect(x)  PROVE Simulated
    BY <1>8, <1>a, <1>b, ActorFacts, Stutters, ClosedFacts, ClearedFacts DEF Connect
  <1>9. ASSUME NEW a \in Admins, Judge(a)  PROVE Simulated
    <2>1. Cleared' = Cleared
      <3>1. \E label : Goto(a, label)
        BY <1>9 DEF Judge
      <3> QED  BY <3>1, <1>a, ActorFacts, ClearedFacts
    <2> QED  BY <1>9, <2>1, Stutters, ClosedFacts DEF Judge
  <1>10. ASSUME NEW a \in Admins, AuditVerdict(a)  PROVE Simulated
    <2>1. Cleared' = Cleared /\ a \in Actors
      BY <1>10, <1>a, ActorFacts, ClearedFacts DEF AuditVerdict
    <2>2. CASE pc[a] = "grant"
      BY <1>10, <2>1, <2>2, Stutters, ClosedFacts DEF AuditVerdict
    <2>3. CASE pc[a] = "expire"
      <3>1. /\ audit' = audit \cup {Event("expired", on[a])}
            /\ UNCHANGED <<rows, asked, forwarded>>
        BY <1>10, <2>3 DEF AuditVerdict
      <3>2. on[a] \in DOMAIN rows /\ rows[on[a]].consumed # TRUE /\ on[a] \in Calls
        BY <2>3, Unused DEF Safe, Shapes
      <3>3. Closed' = Closed \cup {on[a]}
        BY <3>1, <3>2, ClosedFacts
      <3> QED  BY <2>1, <3>1, <3>2, <3>3, Records
    <2> QED  BY <1>10, <2>2, <2>3 DEF AuditVerdict
  <1>11. ASSUME NEW a \in Admins, CommitVerdict(a)  PROVE Simulated
    <2>1. /\ Cleared' = Cleared /\ Closed' = Closed /\ UNCHANGED <<asked, forwarded>>
          /\ on[a] \in DOMAIN rows /\ rows[on[a]].consumed # TRUE
          /\ rows[on[a]].status = "pending"
      BY <1>11, <1>a, ActorFacts, ClosedFacts, ClearedFacts, Unused
         DEF CommitVerdict, Safe, Verdicts
    <2>2. CASE pc[a] = "granted"
      <3>1. SetStatus({on[a]}, "approved")
        BY <1>11, <2>2 DEF CommitVerdict
      <3>2. /\ DOMAIN rows' = DOMAIN rows /\ rows[on[a]] \in Row /\ rows'[on[a]] \in Row
            /\ \A id \in DOMAIN rows : id # on[a] => rows'[id] = rows[id]
            /\ rows'[on[a]].consumed = rows[on[a]].consumed
            /\ rows'[on[a]].status = "approved"
        BY <2>1, <3>1, <1>a, SetStatusFacts DEF Shapes
      <3>3. Value(rows[on[a]]) = "pending" /\ Value(rows'[on[a]]) = "approved"
        BY <2>1, <3>2, ValueFacts
      <3>4. /\ Standing[on[a]] = "pending" /\ on[a] \in DOMAIN Standing
            /\ Standing' = [Standing EXCEPT ![on[a]] = "approved"]
        BY <2>1, <3>2, <3>3, StandingFacts
      <3>5. Approvals!Grant(on[a])
        BY <2>1, <3>4 DEF Approvals!Grant
      <3> QED  BY <3>4, <3>5 DEF Simulated, Approvals!Next
    <2>3. CASE pc[a] = "expired"
      <3>1. SetStatus({on[a]}, "expired") /\ Closed' = Closed \cup {}
        BY <1>11, <2>1, <2>3 DEF CommitVerdict
      <3> QED  BY <2>1, <3>1, Expires
    <2> QED  BY <1>11, <2>2, <2>3 DEF CommitVerdict
  <1>12. ASSUME NEW s \in Sweepers, StartSweep(s)  PROVE Simulated
    BY <1>12, <1>a, <1>b, ActorFacts, Stutters, ClosedFacts, ClearedFacts DEF StartSweep
  <1>13. ASSUME NEW s \in Sweepers, AuditStale(s)  PROVE Simulated
    <2>1. PICK id \in left[s] : audit' = audit \cup {Event("expired", id)}
      BY <1>13 DEF AuditStale
    <2>2. id \in DOMAIN rows /\ rows[id].consumed # TRUE /\ id \in Calls
      BY Unused DEF Safe, Locks, Shapes
    <2>3. Closed' = Closed \cup {id} /\ Cleared' = Cleared
      BY <1>13, <2>1, <2>2, ClosedFacts DEF AuditStale, Cleared
    <2> QED  BY <1>13, <2>2, <2>3, Records DEF AuditStale
  <1>14. ASSUME NEW s \in Sweepers, CommitSweep(s)  PROVE Simulated
    <2>1. /\ Cleared' = Cleared /\ UNCHANGED <<asked, forwarded>>
          /\ SetStatus(read[s], "expired") /\ Closed' = Closed \cup {}
      BY <1>14, <1>a, <1>b, ActorFacts, ClosedFacts, ClearedFacts DEF CommitSweep
    <2>2. read[s] \in SUBSET DOMAIN rows /\ \A id \in read[s] \cup {} : rows[id].consumed # TRUE
      BY Unused
    <2> QED  BY <2>1, <2>2, Expires
  <1>15. ASSUME NEW x \in Actors, PoolTimeout(x)  PROVE Simulated
    <2>1. Closed' = Closed /\ UNCHANGED <<rows, asked, forwarded>> /\ Goto(x, "done")
      BY <1>15, ClosedFacts DEF PoolTimeout
    <2> QED  BY <2>1, Loses
  <1>16. ASSUME NEW x \in Actors, Fail(x)  PROVE Simulated
    <2>1. /\ audit' \in {audit} \cup {audit \cup {e} : e \in Writing(x)}
          /\ UNCHANGED <<rows, asked, forwarded>> /\ Goto(x, "done")
      BY <1>16 DEF Fail
    <2>2. CASE Closed' = Closed
      BY <2>1, <2>2, Loses
    <2>3. CASE Closed' # Closed
      <3>1. PICK e \in Writing(x) : audit' = audit \cup {e}
        BY <2>1, <2>3, ClosedFacts
      <3>2. \E id : /\ e = Event("expired", id)
                    /\ (pc[x] = "expire" /\ id = on[x]) \/ (pc[x] = "sweep" /\ id \in left[x])
        BY <2>3, <3>1, WritingFacts, ClosedFacts
      <3>3. PICK id : /\ e = Event("expired", id)
                      /\ (pc[x] = "expire" /\ id = on[x]) \/ (pc[x] = "sweep" /\ id \in left[x])
        BY <3>2
      <3>4. x \notin Calls /\ (pc[x] = "expire" => x \in Admins) /\ (pc[x] = "sweep" => x \in Sweepers)
        BY <3>3 DEF Actors, Safe, Shapes
      <3>5. id \in DOMAIN rows /\ rows[id].consumed # TRUE /\ id \in Calls
        BY <3>3, <3>4, Unused DEF Safe, Locks, Shapes
      <3>6. Closed' = Closed \cup {id} /\ Cleared' = Cleared
        BY <2>1, <3>1, <3>3, <3>4, <3>5, <1>a, ClosedFacts, ClearedFacts
      <3> QED  BY <2>1, <3>5, <3>6, Records
    <2> QED  BY <2>2, <2>3
  <1>17. ASSUME Tick  PROVE Simulated
    BY <1>17, Stutters, ClosedFacts DEF Tick, Cleared
  <1>18. ASSUME UNCHANGED vars  PROVE Simulated
    BY <1>18, Stutters, ClosedFacts DEF vars, Cleared
  <1> QED  BY <1>1, <1>2, <1>3, <1>4, <1>5, <1>6, <1>7, <1>8, <1>9,
              <1>10, <1>11, <1>12, <1>13, <1>14, <1>15, <1>16, <1>17, <1>18
           DEF Next, CallStep, AdminStep, SweepStep

(* The store starts with no approvals, and nothing used or forwarded.      *)
LEMMA InitSimulates ==
  ASSUME Init  PROVE OneShot /\ Approvals!Init
  <1>1. DOMAIN rows = {} /\ \A c \in Calls : pc[c] = "new"
    BY ActorFacts DEF Init
  <1>2. OneShot
    BY <1>1 DEF OneShot
  <1>3. Standing = [id \in {} |-> "pending"]
    BY <1>1, StandingFacts
  <1>4. Closed = {} /\ Cleared = {}
    BY <1>1 DEF Init, Closed, Cleared
  <1> QED  BY <1>2, <1>3, <1>4 DEF Init, Approvals!Init

(* ApprovalStore implements OneShotApproval: no status is taken back, a    *)
(* grant clears one call, of what was asked for, and what was recorded as  *)
(* expired clears none.                                                    *)
THEOREM ApprovalImplements == Spec => ApprovalSpec
  <1>1. ApprovalInv /\ OneShot /\ [Next]_vars => OneShot'
    BY OneShotStep DEF ApprovalInv
  <1>2. ApprovalInv /\ OneShot /\ [Next]_vars => [Approvals!Next]_(Approvals!approvalVars)
    BY SimulationStep DEF ApprovalInv, Simulated
  <1>3. Init => OneShot /\ Approvals!Init
    BY InitSimulates
  <1> QED  BY <1>1, <1>2, <1>3, ApprovalsSafe, PTL DEF Spec, ApprovalSpec, Approvals!Spec
=============================================================================
