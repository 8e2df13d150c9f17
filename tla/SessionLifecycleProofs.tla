----------------------- MODULE SessionLifecycleProofs -----------------------
(***************************************************************************)
(* Proofs about SessionLifecycle, for any finite sets of sessions and      *)
(* calls and any limits.                                                   *)
(***************************************************************************)
EXTENDS SessionLifecycle, FiniteSetTheorems, TLAPS

(* The deadline of the call has its session, and has yet to clean it up.   *)
Taken(k) == deadline[k] \in {"send", "sent", "clean"}

(* The types, without the limits.                                          *)
Shapes ==
  /\ registry \subseteq Sessions /\ outstanding \subseteq Calls
  /\ creator \in [Sessions -> {"none", "spawn", "touch", "ready", "reap", "done", "failed"}]
  /\ runner \in [Sessions -> {"none", "starting", "running", "ended", "never"}]
  /\ cleaner \in [Sessions -> {"none", "calls", "stop", "release", "done"}]
  /\ container \in [Sessions -> {"none", "up", "stopped"}]
  /\ on \in [Calls -> Sessions \cup {NoSession}] /\ flags \in [Calls -> SUBSET CallFlags]
  /\ http \in [Calls -> {"none", "handling", "waiting", "done"}]
  /\ deadline \in [Calls -> {"none", "armed", "cancelled", "send", "sent", "clean",
                             "cleaning", "done"}]

(* A session has at most one owner: the registry, its cleaner, or the one  *)
(* deadline that took it.                                                  *)
Owners ==
  /\ \A x \in Sessions :
       /\ x \in registry => cleaner[x] = "none"
       /\ x \in registry => creator[x] \in {"touch", "ready", "done"}
       /\ cleaner[x] # "none" => creator[x] \notin {"none", "spawn"}
       /\ creator[x] \in {"none", "spawn"} => container[x] = "none"
       /\ creator[x] = "failed" => container[x] # "up"
       /\ cleaner[x] \in {"release", "done"} => container[x] = "stopped"
  /\ \A k \in Calls :
       /\ http[k] = "none" => deadline[k] = "none"
       /\ k \in outstanding => deadline[k] # "none"
       /\ flags[k] # {} => k \in outstanding
       /\ deadline[k] # "none" => on[k] \in Sessions /\ creator[on[k]] = "done"
       /\ Taken(k) => on[k] \notin registry /\ cleaner[on[k]] = "none"
       /\ \A l \in Calls : Taken(k) /\ Taken(l) /\ on[k] = on[l] => k = l

Held == {x \in Sessions : Holding(x)}

(* The counters are the sizes of what they count; a slot that is released  *)
(* twice leaves one session uncounted, at most.                            *)
SlotsExact ==
  /\ slots \in 0..MaxSessions /\ slots <= Cardinality(Held)
  /\ Cardinality(Held) <= slots + Cardinality(ReleasedTwice)
InflightExact == inflight = Cardinality(outstanding) /\ inflight <= MaxInflight

(* The inductive invariant.                                                *)
SessionInv == Shapes /\ Owners /\ SlotsExact /\ InflightExact /\ CallOwned

(* No step takes a variable out of its type.                               *)
LEMMA ShapesStep ==
  ASSUME Shapes, [Next]_vars  PROVE Shapes'
  <1> USE DEF Shapes, sessionVars, callVars, Creating, Cleaning
  <1>1. ASSUME NEW x \in Sessions, Create(x)  PROVE Shapes'
    BY <1>1 DEF Create
  <1>2. ASSUME NEW x \in Sessions, Spawned(x)  PROVE Shapes'
    BY <1>2 DEF Spawned
  <1>3. ASSUME NEW x \in Sessions, SpawnFails(x)  PROVE Shapes'
    BY <1>3 DEF SpawnFails
  <1>4. ASSUME NEW x \in Sessions, Touched(x)  PROVE Shapes'
    BY <1>4 DEF Touched
  <1>5. ASSUME NEW x \in Sessions, Connect(x)  PROVE Shapes'
    BY <1>5 DEF Connect
  <1>6. ASSUME NEW x \in Sessions, Created(x)  PROVE Shapes'
    BY <1>6 DEF Created
  <1>7. ASSUME NEW x \in Sessions, Reap(x)  PROVE Shapes'
    BY <1>7 DEF Reap
  <1>8. ASSUME NEW x \in Sessions, CreateFails(x)  PROVE Shapes'
    BY <1>8 DEF CreateFails, Cancelled
  <1>9. ASSUME NEW x \in Sessions, CleanCalls(x)  PROVE Shapes'
    BY <1>9 DEF CleanCalls, Cancelled, RemoveCalls
  <1>10. ASSUME NEW x \in Sessions, CleanContainer(x)  PROVE Shapes'
    BY <1>10 DEF CleanContainer
  <1>11. ASSUME NEW x \in Sessions, CleanSlot(x)  PROVE Shapes'
    BY <1>11 DEF CleanSlot
  <1>12. ASSUME NEW x \in Sessions, PumpEnds(x)  PROVE Shapes'
    BY <1>12 DEF PumpEnds, Teardown
  <1>13. ASSUME NEW x \in Sessions, Sweep(x)  PROVE Shapes'
    BY <1>13 DEF Sweep, Teardown
  <1>14. ASSUME NEW x \in Sessions, HeartbeatFails(x)  PROVE Shapes'
    BY <1>14 DEF HeartbeatFails, Teardown
  <1>15. ASSUME NEW x \in Sessions, Delete(x)  PROVE Shapes'
    BY <1>15 DEF Delete, Teardown
  <1>16. ASSUME NEW gone \in SUBSET Sessions, Evict(gone)  PROVE Shapes'
    BY <1>16 DEF Evict, Teardown
  <1>17. ASSUME NEW k \in Calls, NEW x \in Sessions, Admit(k, x)  PROVE Shapes'
    BY <1>17 DEF Admit
  <1>18. ASSUME NEW k \in Calls, Answer(k)  PROVE Shapes'
    BY <1>18 DEF Answer, Flag, CallFlags
  <1>19. ASSUME NEW k \in Calls, ResponseReady(k)  PROVE Shapes'
    BY <1>19 DEF ResponseReady, Flag, CallFlags, RemoveCalls
  <1>20. ASSUME NEW k \in Calls, FinishCall(k)  PROVE Shapes'
    BY <1>20 DEF FinishCall, Keep, RemoveCalls
  <1>21. ASSUME NEW k \in Calls, Terminated(k)  PROVE Shapes'
    BY <1>21 DEF Terminated
  <1>22. ASSUME NEW k \in Calls, Deadline(k)  PROVE Shapes'
    BY <1>22 DEF Deadline
  <1>23. ASSUME NEW k \in Calls, DeadlineSend(k)  PROVE Shapes'
    BY <1>23 DEF DeadlineSend
  <1>24. ASSUME NEW k \in Calls, DeadlineClean(k)  PROVE Shapes'
    BY <1>24 DEF DeadlineClean
  <1>25. ASSUME NEW k \in Calls, DeadlineEnds(k)  PROVE Shapes'
    BY <1>25 DEF DeadlineEnds
  <1>26. ASSUME NEW k \in Calls, DisconnectCall(k)  PROVE Shapes'
    BY <1>26 DEF DisconnectCall, Flag, CallFlags, Keep, RemoveCalls
  <1>27. ASSUME UNCHANGED vars  PROVE Shapes'
    BY <1>27 DEF vars
  <1> QED  BY <1>1, <1>2, <1>3, <1>4, <1>5, <1>6, <1>7, <1>8, <1>9, <1>10,
              <1>11, <1>12, <1>13, <1>14, <1>15, <1>16, <1>17, <1>18, <1>19, <1>20,
              <1>21, <1>22, <1>23, <1>24, <1>25, <1>26, <1>27
           DEF Next, CreateStep, CleanStep, CallStep

-----------------------------------------------------------------------------
(* Whoever tears sessions down takes them out of the registry and cleans   *)
(* them up: they had no other owner.                                       *)
LEMMA TeardownOwners ==
  ASSUME Shapes, Owners, NEW gone \in SUBSET Sessions, Teardown(gone)
  PROVE  Owners'
  BY DEF Shapes, Owners, Teardown, Taken, callVars

(* Calls that are removed keep no flags, and their deadlines are no longer *)
(* armed; none was taken by it.                                            *)
LEMMA RemovedOwners ==
  ASSUME Shapes, Owners, NEW gone \in SUBSET outstanding, RemoveCalls(gone),
         UNCHANGED <<registry, creator, cleaner, container, on>>,
         \A k \in Calls : http'[k] = "none" => http[k] = "none"
  PROVE  Owners'
  BY DEF Shapes, Owners, RemoveCalls, Taken

(* Every step keeps one owner for each session.                            *)
LEMMA OwnersStep ==
  ASSUME Shapes, Owners, [Next]_vars  PROVE Owners'
  <1> USE DEF sessionVars, callVars, Creating, Cleaning
  <1>1. ASSUME NEW x \in Sessions, Create(x)  PROVE Owners'
    BY <1>1 DEF Create, Shapes, Owners, Taken
  <1>2. ASSUME NEW x \in Sessions, Spawned(x)  PROVE Owners'
    BY <1>2 DEF Spawned, Shapes, Owners, Taken
  <1>3. ASSUME NEW x \in Sessions, SpawnFails(x)  PROVE Owners'
    BY <1>3 DEF SpawnFails, Shapes, Owners, Taken
  <1>4. ASSUME NEW x \in Sessions, Touched(x)  PROVE Owners'
    BY <1>4 DEF Touched, Shapes, Owners, Taken
  <1>5. ASSUME NEW x \in Sessions, Connect(x)  PROVE Owners'
    BY <1>5 DEF Connect, Shapes, Owners, Taken
  <1>6. ASSUME NEW x \in Sessions, Created(x)  PROVE Owners'
    BY <1>6 DEF Created, Shapes, Owners, Taken
  <1>7. ASSUME NEW x \in Sessions, Reap(x)  PROVE Owners'
    BY <1>7 DEF Reap, Shapes, Owners, Taken
  <1>8. ASSUME NEW x \in Sessions, CreateFails(x)  PROVE Owners'
    BY <1>8 DEF CreateFails, Shapes, Owners, Taken
  <1>9. ASSUME NEW x \in Sessions, CleanCalls(x)  PROVE Owners'
    BY <1>9 DEF CleanCalls, CallsOn, RemoveCalls, Shapes, Owners, Taken
  <1>10. ASSUME NEW x \in Sessions, CleanContainer(x)  PROVE Owners'
    BY <1>10 DEF CleanContainer, Shapes, Owners, Taken
  <1>11. ASSUME NEW x \in Sessions, CleanSlot(x)  PROVE Owners'
    BY <1>11 DEF CleanSlot, Shapes, Owners, Taken
  <1>12. ASSUME NEW x \in Sessions, PumpEnds(x)  PROVE Owners'
    BY <1>12, TeardownOwners DEF PumpEnds
  <1>13. ASSUME NEW x \in Sessions, Sweep(x)  PROVE Owners'
    BY <1>13, TeardownOwners DEF Sweep
  <1>14. ASSUME NEW x \in Sessions, HeartbeatFails(x)  PROVE Owners'
    BY <1>14, TeardownOwners DEF HeartbeatFails
  <1>15. ASSUME NEW x \in Sessions, Delete(x)  PROVE Owners'
    BY <1>15, TeardownOwners DEF Delete
  <1>16. ASSUME NEW gone \in SUBSET Sessions, Evict(gone)  PROVE Owners'
    BY <1>16, TeardownOwners DEF Evict
  <1>17. ASSUME NEW k \in Calls, NEW x \in Sessions, Admit(k, x)  PROVE Owners'
    BY <1>17 DEF Admit, Registered, Shapes, Owners, Taken
  <1>18. ASSUME NEW k \in Calls, Answer(k)  PROVE Owners'
    BY <1>18 DEF Answer, Flag, Shapes, Owners, Taken
  <1>19. ASSUME NEW k \in Calls, ResponseReady(k)  PROVE Owners'
    <2>1. CASE Flagged(k, "disconnected")
      <3>1. {k} \in SUBSET outstanding
        BY <1>19, <2>1 DEF Flagged, Owners
      <3> QED  BY <1>19, <2>1, <3>1, RemovedOwners DEF ResponseReady
    <2>2. CASE ~Flagged(k, "disconnected")
      BY <1>19, <2>2 DEF ResponseReady, Flag, Flagged, Shapes, Owners, Taken
    <2> QED  BY <2>1, <2>2
  <1>20. ASSUME NEW k \in Calls, FinishCall(k)  PROVE Owners'
    <2>1. CASE k \in outstanding /\ TimedOut(k)
      BY <1>20, <2>1 DEF FinishCall, Keep, Shapes, Owners, Taken
    <2>2. CASE ~(k \in outstanding /\ TimedOut(k))
      <3>1. {k} \cap outstanding \in SUBSET outstanding
        OBVIOUS
      <3>2. \A c \in Calls : http'[c] = "none" => http[c] = "none"
        BY <1>20, <2>2 DEF FinishCall, Shapes
      <3> QED  BY <1>20, <2>2, <3>1, <3>2, RemovedOwners DEF FinishCall
    <2> QED  BY <2>1, <2>2
  <1>21. ASSUME NEW k \in Calls, Terminated(k)  PROVE Owners'
    BY <1>21 DEF Terminated, Shapes, Owners, Taken
  <1>22. ASSUME NEW k \in Calls, Deadline(k)  PROVE Owners'
    BY <1>22 DEF Deadline, Shapes, Owners, Taken
  <1>23. ASSUME NEW k \in Calls, DeadlineSend(k)  PROVE Owners'
    BY <1>23 DEF DeadlineSend, Shapes, Owners, Taken
  <1>24. ASSUME NEW k \in Calls, DeadlineClean(k)  PROVE Owners'
    BY <1>24 DEF DeadlineClean, Shapes, Owners, Taken
  <1>25. ASSUME NEW k \in Calls, DeadlineEnds(k)  PROVE Owners'
    BY <1>25 DEF DeadlineEnds, Shapes, Owners, Taken
  <1>26. ASSUME NEW k \in Calls, DisconnectCall(k)  PROVE Owners'
    <2>1. \A c \in Calls : http'[c] = "none" => http[c] = "none"
      BY <1>26 DEF DisconnectCall, Shapes
    <2>2. CASE Keep
      BY <1>26, <2>2 DEF DisconnectCall, Keep, Shapes, Owners, Taken
    <2>3. CASE k \in outstanding /\ RemoveCalls({k})
      <3>1. {k} \in SUBSET outstanding
        BY <2>3
      <3> QED  BY <1>26, <2>1, <2>3, <3>1, RemovedOwners DEF DisconnectCall
    <2>4. CASE k \in outstanding /\ Flag(k, "disconnected") /\ UNCHANGED <<inflight, outstanding, deadline>>
      BY <1>26, <2>4 DEF DisconnectCall, Flag, Shapes, Owners, Taken
    <2> QED  BY <1>26, <2>2, <2>3, <2>4 DEF DisconnectCall
  <1>27. ASSUME UNCHANGED vars  PROVE Owners'
    BY <1>27 DEF vars, Owners, Taken
  <1> QED  BY <1>1, <1>2, <1>3, <1>4, <1>5, <1>6, <1>7, <1>8, <1>9, <1>10,
              <1>11, <1>12, <1>13, <1>14, <1>15, <1>16, <1>17, <1>18, <1>19, <1>20,
              <1>21, <1>22, <1>23, <1>24, <1>25, <1>26, <1>27
           DEF Next, CreateStep, CleanStep, CallStep

-----------------------------------------------------------------------------
(* Sessions and calls are finite in number, and so is what is counted.     *)
LEMMA FiniteCounts ==
  ASSUME Shapes
  PROVE  /\ IsFiniteSet(Held) /\ Cardinality(Held) \in Nat
         /\ IsFiniteSet(ReleasedTwice) /\ Cardinality(ReleasedTwice) \in Nat
         /\ IsFiniteSet(outstanding) /\ Cardinality(outstanding) \in Nat
  <1>1. Held \subseteq Sessions /\ ReleasedTwice \subseteq Sessions /\ outstanding \subseteq Calls
    BY DEF Held, ReleasedTwice, Shapes
  <1>2. IsFiniteSet(Held) /\ IsFiniteSet(ReleasedTwice) /\ IsFiniteSet(outstanding)
    BY <1>1, FinitenessAssumption, FS_Subset
  <1> QED  BY <1>2, FS_CardinalityType

(* A slot that is given back is taken from the count, and the second time  *)
(* its session is one of those released twice.                             *)
LEMMA SlotReleased ==
  ASSUME Shapes, SlotsExact, NEW x \in Sessions, slots' = Less(slots),
         \/ x \in Held /\ Held' = Held \ {x} /\ ReleasedTwice' = ReleasedTwice
         \/ x \notin ReleasedTwice /\ Held' = Held /\ ReleasedTwice' = ReleasedTwice \cup {x}
  PROVE  SlotsExact'
  <1>1. CASE x \in Held /\ Held' = Held \ {x} /\ ReleasedTwice' = ReleasedTwice
    <2>1. Cardinality(Held') = Cardinality(Held) - 1 /\ Cardinality(Held') \in Nat
      BY <1>1, FiniteCounts, FS_RemoveElement, FS_CardinalityType
    <2> QED  BY <1>1, <2>1, FiniteCounts, LimitsAssumption DEF SlotsExact, Less
  <1>2. CASE x \notin ReleasedTwice /\ Held' = Held /\ ReleasedTwice' = ReleasedTwice \cup {x}
    <2>1. Cardinality(ReleasedTwice') = Cardinality(ReleasedTwice) + 1
      BY <1>2, FiniteCounts, FS_AddElement
    <2> QED  BY <1>2, <2>1, FiniteCounts, LimitsAssumption DEF SlotsExact, Less
  <1> QED  BY <1>1, <1>2

(* Every step counts the sessions that hold a slot.                        *)
LEMMA SlotsStep ==
  ASSUME Shapes, Owners, SlotsExact, [Next]_vars  PROVE SlotsExact'
  <1> USE DEF sessionVars, callVars, Creating, Cleaning
  <1> DEFINE Same == UNCHANGED <<Held, ReleasedTwice, slots>>
  <1>A. Same => SlotsExact'
    BY DEF SlotsExact
  <1>1. ASSUME NEW x \in Sessions, Create(x)  PROVE SlotsExact'
    <2>1. Held' = Held \cup {x} /\ x \notin Held /\ ReleasedTwice' = ReleasedTwice
      BY <1>1 DEF Create, Held, ReleasedTwice, Holding, Shapes, Owners
    <2>2. Cardinality(Held') = Cardinality(Held) + 1
      BY <2>1, FiniteCounts, FS_AddElement
    <2> QED  BY <1>1, <2>1, <2>2, FiniteCounts, LimitsAssumption DEF Create, SlotsExact
  <1>2. ASSUME NEW x \in Sessions, Spawned(x)  PROVE Same
    BY <1>2 DEF Spawned, Held, ReleasedTwice, Holding, Shapes, Owners
  <1>3. ASSUME NEW x \in Sessions, SpawnFails(x)  PROVE Same
    BY <1>3 DEF SpawnFails, Held, ReleasedTwice, Holding, Shapes, Owners
  <1>4. ASSUME NEW x \in Sessions, Touched(x)  PROVE Same
    BY <1>4 DEF Touched, Held, ReleasedTwice, Holding, Shapes, Owners
  <1>5. ASSUME NEW x \in Sessions, Connect(x)  PROVE Same
    BY <1>5 DEF Connect, Held, ReleasedTwice, Holding, Shapes, Owners
  <1>6. ASSUME NEW x \in Sessions, Created(x)  PROVE Same
    BY <1>6 DEF Created, Held, ReleasedTwice, Holding, Shapes, Owners
  <1>7. ASSUME NEW x \in Sessions, Reap(x)  PROVE SlotsExact'
    <2>1. \/ x \in Held /\ Held' = Held \ {x} /\ ReleasedTwice' = ReleasedTwice
          \/ x \notin ReleasedTwice /\ Held' = Held /\ ReleasedTwice' = ReleasedTwice \cup {x}
      BY <1>7 DEF Reap, Held, ReleasedTwice, Holding, Shapes, Owners
    <2> QED  BY <1>7, <2>1, SlotReleased DEF Reap
  <1>8. ASSUME NEW x \in Sessions, CreateFails(x)  PROVE Same
    BY <1>8 DEF CreateFails, Held, ReleasedTwice, Holding, Shapes, Owners
  <1>9. ASSUME NEW x \in Sessions, CleanCalls(x)  PROVE Same
    BY <1>9 DEF CleanCalls, Held, ReleasedTwice, Holding, Shapes, Owners
  <1>10. ASSUME NEW x \in Sessions, CleanContainer(x)  PROVE Same
    BY <1>10 DEF CleanContainer, Held, ReleasedTwice, Holding, Shapes, Owners
  <1>11. ASSUME NEW x \in Sessions, CleanSlot(x)  PROVE SlotsExact'
    <2>1. \/ x \in Held /\ Held' = Held \ {x} /\ ReleasedTwice' = ReleasedTwice
          \/ x \notin ReleasedTwice /\ Held' = Held /\ ReleasedTwice' = ReleasedTwice \cup {x}
      BY <1>11 DEF CleanSlot, Held, ReleasedTwice, Holding, Shapes, Owners
    <2> QED  BY <1>11, <2>1, SlotReleased DEF CleanSlot
  <1>12. ASSUME NEW x \in Sessions, PumpEnds(x)  PROVE Same
    BY <1>12 DEF PumpEnds, Held, ReleasedTwice, Holding, Shapes, Owners, Teardown
  <1>13. ASSUME NEW x \in Sessions, Sweep(x)  PROVE Same
    BY <1>13 DEF Sweep, Held, ReleasedTwice, Holding, Shapes, Owners, Teardown
  <1>14. ASSUME NEW x \in Sessions, HeartbeatFails(x)  PROVE Same
    BY <1>14 DEF HeartbeatFails, Held, ReleasedTwice, Holding, Shapes, Owners, Teardown
  <1>15. ASSUME NEW x \in Sessions, Delete(x)  PROVE Same
    BY <1>15 DEF Delete, Held, ReleasedTwice, Holding, Shapes, Owners, Teardown
  <1>16. ASSUME NEW gone \in SUBSET Sessions, Evict(gone)  PROVE Same
    BY <1>16 DEF Evict, Held, ReleasedTwice, Holding, Shapes, Owners, Teardown
  <1>17. ASSUME NEW k \in Calls, NEW x \in Sessions, Admit(k, x)  PROVE Same
    BY <1>17 DEF Admit, Held, ReleasedTwice, Holding, Shapes, Owners
  <1>18. ASSUME NEW k \in Calls, Answer(k)  PROVE Same
    BY <1>18 DEF Answer, Held, ReleasedTwice, Holding, Shapes, Owners
  <1>19. ASSUME NEW k \in Calls, ResponseReady(k)  PROVE Same
    BY <1>19 DEF ResponseReady, Held, ReleasedTwice, Holding, Shapes, Owners
  <1>20. ASSUME NEW k \in Calls, FinishCall(k)  PROVE Same
    BY <1>20 DEF FinishCall, Held, ReleasedTwice, Holding, Shapes, Owners
  <1>21. ASSUME NEW k \in Calls, Terminated(k)  PROVE Same
    BY <1>21 DEF Terminated, Held, ReleasedTwice, Holding, Shapes, Owners
  <1>22. ASSUME NEW k \in Calls, Deadline(k)  PROVE Same
    BY <1>22 DEF Deadline, Held, ReleasedTwice, Holding, Shapes, Owners
  <1>23. ASSUME NEW k \in Calls, DeadlineSend(k)  PROVE Same
    BY <1>23 DEF DeadlineSend, Held, ReleasedTwice, Holding, Shapes, Owners
  <1>24. ASSUME NEW k \in Calls, DeadlineClean(k)  PROVE Same
    BY <1>24 DEF DeadlineClean, Held, ReleasedTwice, Holding, Shapes, Owners, Taken
  <1>25. ASSUME NEW k \in Calls, DeadlineEnds(k)  PROVE Same
    BY <1>25 DEF DeadlineEnds, Held, ReleasedTwice, Holding, Shapes, Owners
  <1>26. ASSUME NEW k \in Calls, DisconnectCall(k)  PROVE Same
    BY <1>26 DEF DisconnectCall, Held, ReleasedTwice, Holding, Shapes, Owners
  <1>27. ASSUME UNCHANGED vars  PROVE Same
    BY <1>27 DEF vars, Held, ReleasedTwice, Holding, Shapes, Owners
  <1> QED  BY <1>A, <1>1, <1>2, <1>3, <1>4, <1>5, <1>6, <1>7, <1>8, <1>9, <1>10,
              <1>11, <1>12, <1>13, <1>14, <1>15, <1>16, <1>17, <1>18, <1>19, <1>20,
              <1>21, <1>22, <1>23, <1>24, <1>25, <1>26, <1>27
           DEF Next, CreateStep, CleanStep, CallStep

-----------------------------------------------------------------------------
(* Whichever calls are removed, the quota counts those that are left.      *)
LEMMA RemovedExact ==
  ASSUME Shapes, InflightExact, NEW gone \in SUBSET outstanding, RemoveCalls(gone)
  PROVE  InflightExact'
  <1>1. IsFiniteSet(gone) /\ Cardinality(gone) \in Nat
    BY FiniteCounts, FS_Subset, FS_CardinalityType
  <1>2. Cardinality(outstanding \ gone) = Cardinality(outstanding) - Cardinality(gone)
    <2>1. outstanding \cap gone = gone
      OBVIOUS
    <2> QED  BY <2>1, FiniteCounts, FS_Difference
  <1>3. Cardinality(outstanding \ gone) \in Nat
    BY FiniteCounts, FS_Difference, FS_CardinalityType
  <1> QED  BY <1>1, <1>2, <1>3, FiniteCounts, LimitsAssumption DEF InflightExact, RemoveCalls, Removed

(* Every step counts the calls in flight.                                  *)
LEMMA InflightStep ==
  ASSUME Shapes, Owners, InflightExact, [Next]_vars  PROVE InflightExact'
  <1> USE DEF sessionVars, callVars, Creating, Cleaning
  <1>1. ASSUME NEW x \in Sessions, Create(x)  PROVE InflightExact'
    BY <1>1 DEF Create, InflightExact
  <1>2. ASSUME NEW x \in Sessions, Spawned(x)  PROVE InflightExact'
    BY <1>2 DEF Spawned, InflightExact
  <1>3. ASSUME NEW x \in Sessions, SpawnFails(x)  PROVE InflightExact'
    BY <1>3 DEF SpawnFails, InflightExact
  <1>4. ASSUME NEW x \in Sessions, Touched(x)  PROVE InflightExact'
    BY <1>4 DEF Touched, InflightExact
  <1>5. ASSUME NEW x \in Sessions, Connect(x)  PROVE InflightExact'
    BY <1>5 DEF Connect, InflightExact
  <1>6. ASSUME NEW x \in Sessions, Created(x)  PROVE InflightExact'
    BY <1>6 DEF Created, InflightExact
  <1>7. ASSUME NEW x \in Sessions, Reap(x)  PROVE InflightExact'
    BY <1>7 DEF Reap, InflightExact
  <1>8. ASSUME NEW x \in Sessions, CreateFails(x)  PROVE InflightExact'
    BY <1>8 DEF CreateFails, InflightExact
  <1>9. ASSUME NEW x \in Sessions, CleanCalls(x)  PROVE InflightExact'
    <2>1. CallsOn(x) \in SUBSET outstanding
      BY DEF CallsOn
    <2> QED  BY <1>9, <2>1, RemovedExact DEF CleanCalls
  <1>10. ASSUME NEW x \in Sessions, CleanContainer(x)  PROVE InflightExact'
    BY <1>10 DEF CleanContainer, InflightExact
  <1>11. ASSUME NEW x \in Sessions, CleanSlot(x)  PROVE InflightExact'
    BY <1>11 DEF CleanSlot, InflightExact
  <1>12. ASSUME NEW x \in Sessions, PumpEnds(x)  PROVE InflightExact'
    BY <1>12 DEF PumpEnds, InflightExact, Teardown
  <1>13. ASSUME NEW x \in Sessions, Sweep(x)  PROVE InflightExact'
    BY <1>13 DEF Sweep, InflightExact, Teardown
  <1>14. ASSUME NEW x \in Sessions, HeartbeatFails(x)  PROVE InflightExact'
    BY <1>14 DEF HeartbeatFails, InflightExact, Teardown
  <1>15. ASSUME NEW x \in Sessions, Delete(x)  PROVE InflightExact'
    BY <1>15 DEF Delete, InflightExact, Teardown
  <1>16. ASSUME NEW gone \in SUBSET Sessions, Evict(gone)  PROVE InflightExact'
    BY <1>16 DEF Evict, InflightExact, Teardown
  <1>17. ASSUME NEW k \in Calls, NEW x \in Sessions, Admit(k, x)  PROVE InflightExact'
    <2>1. k \notin outstanding
      BY <1>17 DEF Admit, Owners
    <2>2. Cardinality(outstanding \cup {k}) = Cardinality(outstanding) + 1
      BY <2>1, FiniteCounts, FS_AddElement
    <2> QED  BY <1>17, <2>2, FiniteCounts, LimitsAssumption DEF Admit, InflightExact
  <1>18. ASSUME NEW k \in Calls, Answer(k)  PROVE InflightExact'
    BY <1>18 DEF Answer, InflightExact
  <1>19. ASSUME NEW k \in Calls, ResponseReady(k)  PROVE InflightExact'
    <2>1. CASE Flagged(k, "disconnected")
      <3>1. {k} \in SUBSET outstanding
        BY <1>19, <2>1 DEF Flagged, Owners
      <3> QED  BY <1>19, <2>1, <3>1, RemovedExact DEF ResponseReady
    <2>2. CASE ~Flagged(k, "disconnected")
      BY <1>19, <2>2 DEF ResponseReady, InflightExact
    <2> QED  BY <2>1, <2>2
  <1>20. ASSUME NEW k \in Calls, FinishCall(k)  PROVE InflightExact'
    <2>1. CASE k \in outstanding /\ TimedOut(k)
      BY <1>20, <2>1 DEF FinishCall, Keep, InflightExact
    <2>2. CASE ~(k \in outstanding /\ TimedOut(k))
      <3>1. {k} \cap outstanding \in SUBSET outstanding
        OBVIOUS
      <3> QED  BY <1>20, <2>2, <3>1, RemovedExact DEF FinishCall
    <2> QED  BY <2>1, <2>2
  <1>21. ASSUME NEW k \in Calls, Terminated(k)  PROVE InflightExact'
    BY <1>21 DEF Terminated, InflightExact
  <1>22. ASSUME NEW k \in Calls, Deadline(k)  PROVE InflightExact'
    BY <1>22 DEF Deadline, InflightExact
  <1>23. ASSUME NEW k \in Calls, DeadlineSend(k)  PROVE InflightExact'
    BY <1>23 DEF DeadlineSend, InflightExact
  <1>24. ASSUME NEW k \in Calls, DeadlineClean(k)  PROVE InflightExact'
    BY <1>24 DEF DeadlineClean, InflightExact
  <1>25. ASSUME NEW k \in Calls, DeadlineEnds(k)  PROVE InflightExact'
    BY <1>25 DEF DeadlineEnds, InflightExact
  <1>26. ASSUME NEW k \in Calls, DisconnectCall(k)  PROVE InflightExact'
    <2>1. CASE UNCHANGED <<inflight, outstanding>>
      BY <2>1 DEF InflightExact
    <2>2. CASE k \in outstanding /\ RemoveCalls({k})
      <3>1. {k} \in SUBSET outstanding
        BY <2>2
      <3> QED  BY <2>2, <3>1, RemovedExact
    <2> QED  BY <1>26, <2>1, <2>2 DEF DisconnectCall, Keep
  <1>27. ASSUME UNCHANGED vars  PROVE InflightExact'
    BY <1>27 DEF vars, InflightExact
  <1> QED  BY <1>1, <1>2, <1>3, <1>4, <1>5, <1>6, <1>7, <1>8, <1>9, <1>10,
              <1>11, <1>12, <1>13, <1>14, <1>15, <1>16, <1>17, <1>18, <1>19, <1>20,
              <1>21, <1>22, <1>23, <1>24, <1>25, <1>26, <1>27
           DEF Next, CreateStep, CleanStep, CallStep

-----------------------------------------------------------------------------
(* Every step leaves each call in flight with somebody who will end it.    *)
LEMMA CallOwnedStep ==
  ASSUME Shapes, Owners, CallOwned, [Next]_vars  PROVE CallOwned'
  <1> USE DEF sessionVars, callVars, Creating, Cleaning
  <1>1. ASSUME NEW x \in Sessions, Create(x)  PROVE CallOwned'
    BY <1>1 DEF Create, Shapes, Owners, Taken, CallOwned
  <1>2. ASSUME NEW x \in Sessions, Spawned(x)  PROVE CallOwned'
    BY <1>2 DEF Spawned, Shapes, Owners, Taken, CallOwned
  <1>3. ASSUME NEW x \in Sessions, SpawnFails(x)  PROVE CallOwned'
    BY <1>3 DEF SpawnFails, Shapes, Owners, Taken, CallOwned
  <1>4. ASSUME NEW x \in Sessions, Touched(x)  PROVE CallOwned'
    BY <1>4 DEF Touched, Shapes, Owners, Taken, CallOwned
  <1>5. ASSUME NEW x \in Sessions, Connect(x)  PROVE CallOwned'
    BY <1>5 DEF Connect, Shapes, Owners, Taken, CallOwned
  <1>6. ASSUME NEW x \in Sessions, Created(x)  PROVE CallOwned'
    BY <1>6 DEF Created, Shapes, Owners, Taken, CallOwned
  <1>7. ASSUME NEW x \in Sessions, Reap(x)  PROVE CallOwned'
    BY <1>7 DEF Reap, Shapes, Owners, Taken, CallOwned
  <1>8. ASSUME NEW x \in Sessions, CreateFails(x)  PROVE CallOwned'
    BY <1>8 DEF CreateFails, Shapes, Owners, Taken, CallOwned
  <1>9. ASSUME NEW x \in Sessions, CleanCalls(x)  PROVE CallOwned'
    BY <1>9 DEF CleanCalls, Shapes, Owners, Taken, CallOwned, CallsOn, RemoveCalls
  <1>10. ASSUME NEW x \in Sessions, CleanContainer(x)  PROVE CallOwned'
    BY <1>10 DEF CleanContainer, Shapes, Owners, Taken, CallOwned
  <1>11. ASSUME NEW x \in Sessions, CleanSlot(x)  PROVE CallOwned'
    BY <1>11 DEF CleanSlot, Shapes, Owners, Taken, CallOwned
  <1>12. ASSUME NEW x \in Sessions, PumpEnds(x)  PROVE CallOwned'
    BY <1>12 DEF PumpEnds, Shapes, Owners, Taken, CallOwned, Teardown
  <1>13. ASSUME NEW x \in Sessions, Sweep(x)  PROVE CallOwned'
    BY <1>13 DEF Sweep, Shapes, Owners, Taken, CallOwned, Teardown
  <1>14. ASSUME NEW x \in Sessions, HeartbeatFails(x)  PROVE CallOwned'
    BY <1>14 DEF HeartbeatFails, Shapes, Owners, Taken, CallOwned, Teardown
  <1>15. ASSUME NEW x \in Sessions, Delete(x)  PROVE CallOwned'
    BY <1>15 DEF Delete, Shapes, Owners, Taken, CallOwned, Teardown
  <1>16. ASSUME NEW gone \in SUBSET Sessions, Evict(gone)  PROVE CallOwned'
    BY <1>16 DEF Evict, Shapes, Owners, Taken, CallOwned, Teardown
  <1>17. ASSUME NEW k \in Calls, NEW x \in Sessions, Admit(k, x)  PROVE CallOwned'
    BY <1>17 DEF Admit, Shapes, Owners, Taken, CallOwned, Registered
  <1>18. ASSUME NEW k \in Calls, Answer(k)  PROVE CallOwned'
    BY <1>18 DEF Answer, Shapes, Owners, Taken, CallOwned
  <1>19. ASSUME NEW k \in Calls, ResponseReady(k)  PROVE CallOwned'
    BY <1>19 DEF ResponseReady, Shapes, Owners, Taken, CallOwned, RemoveCalls
  <1>20. ASSUME NEW k \in Calls, FinishCall(k)  PROVE CallOwned'
    BY <1>20 DEF FinishCall, Shapes, Owners, Taken, CallOwned, RemoveCalls, Keep
  <1>21. ASSUME NEW k \in Calls, Terminated(k)  PROVE CallOwned'
    BY <1>21 DEF Terminated, Shapes, Owners, Taken, CallOwned
  <1>22. ASSUME NEW k \in Calls, Deadline(k)  PROVE CallOwned'
    BY <1>22 DEF Deadline, Shapes, Owners, Taken, CallOwned
  <1>23. ASSUME NEW k \in Calls, DeadlineSend(k)  PROVE CallOwned'
    BY <1>23 DEF DeadlineSend, Shapes, Owners, Taken, CallOwned
  <1>24. ASSUME NEW k \in Calls, DeadlineClean(k)  PROVE CallOwned'
    BY <1>24 DEF DeadlineClean, Shapes, Owners, Taken, CallOwned
  <1>25. ASSUME NEW k \in Calls, DeadlineEnds(k)  PROVE CallOwned'
    BY <1>25 DEF DeadlineEnds, Shapes, Owners, Taken, CallOwned
  <1>26. ASSUME NEW k \in Calls, DisconnectCall(k)  PROVE CallOwned'
    BY <1>26 DEF DisconnectCall, Shapes, Owners, Taken, CallOwned, RemoveCalls, Keep
  <1>27. ASSUME UNCHANGED vars  PROVE CallOwned'
    BY <1>27 DEF vars, CallOwned
  <1> QED  BY <1>1, <1>2, <1>3, <1>4, <1>5, <1>6, <1>7, <1>8, <1>9, <1>10,
              <1>11, <1>12, <1>13, <1>14, <1>15, <1>16, <1>17, <1>18, <1>19, <1>20,
              <1>21, <1>22, <1>23, <1>24, <1>25, <1>26, <1>27
           DEF Next, CreateStep, CleanStep, CallStep

-----------------------------------------------------------------------------
(* The invariant is inductive: no session gets a second owner, no call is  *)
(* without one, and the counts stay those of their sets.                   *)
THEOREM SessionsSound == Spec => []SessionInv
  <1>1. Init => SessionInv
    <2> SUFFICES ASSUME Init  PROVE SessionInv
      OBVIOUS
    <2>1. Shapes /\ Owners /\ CallOwned
      BY DEF Init, Shapes, Owners, Taken, CallOwned, CallFlags
    <2>2. Held = {} /\ ReleasedTwice = {} /\ outstanding = {}
      BY DEF Init, Held, ReleasedTwice, Holding
    <2> QED  BY <2>1, <2>2, FS_EmptySet, LimitsAssumption
             DEF Init, SessionInv, SlotsExact, InflightExact
  <1>2. SessionInv /\ [Next]_vars => SessionInv'
    BY ShapesStep, OwnersStep, SlotsStep, InflightStep, CallOwnedStep DEF SessionInv
  <1> QED  BY <1>1, <1>2, PTL DEF Spec

(* However a session or a call ends, and however many end it at once, its  *)
(* slot and its place in the quota are given back exactly once (twice only *)
(* the slot of a creation that fails late), and no container runs without  *)
(* a slot.                                                                 *)
THEOREM QuotasKept == Spec => []QuotasExact
  <1>1. SessionInv => QuotasExact
    <2> SUFFICES ASSUME SessionInv  PROVE QuotasExact
      OBVIOUS
    <2>1. /\ slots <= Cardinality({x \in Sessions : Holding(x)})
          /\ Cardinality({x \in Sessions : Holding(x)}) <= slots + Cardinality(ReleasedTwice)
          /\ inflight = Cardinality(outstanding)
      BY DEF SessionInv, SlotsExact, InflightExact, Held
    <2>2. slots \in 0..MaxSessions /\ inflight \in 0..MaxInflight
      BY FiniteCounts, LimitsAssumption DEF SessionInv, SlotsExact, InflightExact
    <2>3. TypeOK
      BY <2>2 DEF TypeOK, SessionInv, Shapes
    <2>4. \A x \in Sessions : container[x] = "up" => Holding(x)
      BY DEF SessionInv, Shapes, Owners, Holding
    <2> QED  BY <2>1, <2>3, <2>4 DEF QuotasExact
  <1> QED  BY <1>1, SessionsSound, PTL

(* A call in flight is never forgotten, whichever of its client, upstream, *)
(* deadline and session goes first.                                        *)
THEOREM CallsOwned == Spec => []CallOwned
  <1>1. SessionInv => CallOwned
    BY DEF SessionInv
  <1> QED  BY <1>1, SessionsSound, PTL
=============================================================================
