--------------------------- MODULE SessionLifecycle ---------------------------
(***************************************************************************)
(* The sessions of one identity and the tools/call requests in flight on   *)
(* them: services/gateway/session_manager.py, with its callers in main.py  *)
(* (mcp_endpoint, _activate_policy) and the containers of                  *)
(* upstream_client.py.                                                     *)
(*                                                                         *)
(* SessionManager._lock only ever guards code without an await, so each    *)
(* such block is part of one action.  Whoever pops a session from the      *)
(* registry cleans it up: the end of its pumps, the idle sweep, eviction   *)
(* after a policy change, a DELETE, a failed heartbeat, or the deadline of *)
(* one of its calls.  create cleans up after itself on its own.            *)
(***************************************************************************)
EXTENDS Naturals, FiniteSets

CONSTANTS
  Sessions,      \* session ids: each is created at most once
  Calls,         \* tools/call requests: each is admitted at most once
  MaxSessions,   \* settings.max_sessions_per_identity
  MaxInflight    \* settings.max_inflight_calls_per_identity

ASSUME LimitsAssumption == MaxSessions \in Nat /\ MaxInflight \in Nat
ASSUME FinitenessAssumption == IsFiniteSet(Sessions) /\ IsFiniteSet(Calls)

VARIABLES
  registry,    \* SessionManager._sessions
  slots,       \* _session_counts of the identity
  creator,     \* the next step of create, for each session
  runner,      \* the task of _run
  cleaner,     \* the next step of _cleanup_session
  container,   \* the container of each session
  inflight,    \* _inflight_counts of the identity
  outstanding, \* _outstanding
  on,          \* the session of each admitted call
  flags,       \* the flags of each OutstandingCall
  http,        \* the request handler of each call, in mcp_endpoint
  deadline     \* the task of _deadline, for each call

sessionVars == <<registry, slots, creator, runner, cleaner, container>>
callVars == <<inflight, outstanding, on, flags, http, deadline>>
vars == <<sessionVars, callVars>>

NoSession == "none"
CallFlags == {"answered", "response_ready", "disconnected"}
Flagged(k, flag) == flag \in flags[k]
Flag(k, flag) == flags' = [flags EXCEPT ![k] = @ \cup {flag}]

(* call.timed_out and call.terminated, by how far the deadline has come.   *)
TimedOut(k) == deadline[k] \in {"send", "sent", "clean", "cleaning", "done"}
TerminatedCall(k) == deadline[k] = "done"

(* The calls of Session.outstanding, and whether the write stream is open. *)
CallsOn(x) == {k \in outstanding : on[k] = x}
Connected(x) == runner[x] = "running"

Init ==
  /\ registry = {} /\ slots = 0
  /\ creator = [x \in Sessions |-> "none"]
  /\ runner = [x \in Sessions |-> "none"]
  /\ cleaner = [x \in Sessions |-> "none"]
  /\ container = [x \in Sessions |-> "none"]
  /\ inflight = 0 /\ outstanding = {}
  /\ on = [k \in Calls |-> NoSession]
  /\ flags = [k \in Calls |-> {}]
  /\ http = [k \in Calls |-> "none"]
  /\ deadline = [k \in Calls |-> "none"]

Creating(x, at) == creator' = [creator EXCEPT ![x] = at]
Cleaning(x, at) == cleaner' = [cleaner EXCEPT ![x] = at]
Less(n) == IF n <= 1 THEN 0 ELSE n - 1

-----------------------------------------------------------------------------
(* create reserves a slot, then awaits the SESSION_START row and the       *)
(* container.                                                              *)
Create(x) ==
  /\ creator[x] = "none" /\ slots < MaxSessions
  /\ slots' = slots + 1
  /\ Creating(x, "spawn")
  /\ UNCHANGED <<registry, runner, cleaner, container, callVars>>

(* The session is registered as soon as its container runs; _touch is next.*)
Spawned(x) ==
  /\ creator[x] = "spawn"
  /\ container' = [container EXCEPT ![x] = "up"]
  /\ registry' = registry \cup {x}
  /\ Creating(x, "touch")
  /\ UNCHANGED <<slots, runner, cleaner, callVars>>

(* No record, no session; and spawn stops what it started when it raises.  *)
SpawnFails(x) ==
  /\ creator[x] = "spawn"
  /\ Creating(x, "reap")
  /\ UNCHANGED <<registry, slots, runner, cleaner, container, callVars>>

(* After _touch the task of _run is created: it need not run at once.      *)
Touched(x) ==
  /\ creator[x] = "touch"
  /\ runner' = [runner EXCEPT ![x] = "starting"]
  /\ Creating(x, "ready")
  /\ UNCHANGED <<registry, slots, cleaner, container, callVars>>

(* _run enters transport.connect; or it ended, and lets create go on.      *)
Connect(x) ==
  /\ runner[x] = "starting"
  /\ runner' = [runner EXCEPT ![x] = "running"]
  /\ UNCHANGED <<registry, slots, creator, cleaner, container, callVars>>

Created(x) ==
  /\ creator[x] = "ready" /\ runner[x] \in {"running", "ended"}
  /\ Creating(x, "done")
  /\ UNCHANGED <<registry, slots, runner, cleaner, container, callVars>>

(* session.task.cancel.  A task that is cancelled before its first step    *)
(* never reaches the finally of _run, which would set ready.               *)
Cancelled(x) ==
  \E end \in {"ended"} \cup (IF runner[x] = "starting" THEN {"never"} ELSE {}) :
    runner' = [runner EXCEPT ![x] = IF @ = "none" THEN @ ELSE end]

(* Redis fails under _touch, or create is cancelled: except BaseException  *)
(* takes the session out of the registry without teardown, and goes on     *)
(* alike when another task has taken it out and cleans it up.              *)
CreateFails(x) ==
  /\ creator[x] \in {"touch", "ready"}
  /\ registry' = registry \ {x}
  /\ Cancelled(x)
  /\ Creating(x, "reap")
  /\ UNCHANGED <<slots, cleaner, container, callVars>>

(* It stops the process, if it got one, and releases the slot.             *)
Reap(x) ==
  /\ creator[x] = "reap"
  /\ container' = [container EXCEPT ![x] = IF @ = "up" THEN "stopped" ELSE @]
  /\ slots' = Less(slots)
  /\ Creating(x, "failed")
  /\ UNCHANGED <<registry, runner, cleaner, callVars>>

-----------------------------------------------------------------------------
(* teardown: the registry decides who cleans up.                           *)
Teardown(gone) ==
  /\ registry' = registry \ gone
  /\ cleaner' = [x \in Sessions |-> IF x \in gone \cap registry THEN "calls" ELSE cleaner[x]]
  /\ UNCHANGED <<slots, creator, container, callVars>>

(* Either pump ends: the client, the upstream or Redis failed.  The finally*)
(* of _run tears the session down.                                         *)
PumpEnds(x) ==
  /\ runner[x] \in {"starting", "running"}
  /\ runner' = [runner EXCEPT ![x] = "ended"]
  /\ Teardown({x})

(* sweep_once finds no last_seen key: none was set yet, or its TTL passed. *)
(* A call may be admitted between the look and the teardown.               *)
Sweep(x) == x \in registry /\ Teardown({x}) /\ UNCHANGED runner

(* _heartbeat cannot refresh the key of a session with calls.              *)
HeartbeatFails(x) ==
  /\ x \in registry /\ CallsOn(x) # {}
  /\ Teardown({x}) /\ UNCHANGED runner

(* mcp_endpoint, after a DELETE was handled.                               *)
Delete(x) ==
  /\ x \in registry /\ creator[x] = "done"
  /\ Teardown({x}) /\ UNCHANGED runner

(* evict_outdated after a policy swap, for the sessions whose fingerprint  *)
(* is no longer the engine's; shutdown_all takes all of them.              *)
Evict(gone) ==
  /\ gone \subseteq registry /\ gone # {}
  /\ Teardown(gone) /\ UNCHANGED runner

(* Mutant: only the last call of the session leaves the quota.             *)
Removed_One(gone) == inflight' = (IF gone = {} THEN inflight ELSE Less(inflight))

(* _remove_call, for all calls of a set.                                   *)
Removed(gone) ==
  inflight' = IF inflight <= Cardinality(gone) THEN 0 ELSE inflight - Cardinality(gone)

RemoveCalls(gone) ==
  /\ outstanding' = outstanding \ gone
  /\ Removed(gone)
  /\ flags' = [k \in Calls |-> IF k \in gone THEN {} ELSE flags[k]]
  /\ deadline' = [k \in Calls |->
       IF k \in gone /\ deadline[k] = "armed" THEN "cancelled" ELSE deadline[k]]

(* Mutant: the calls of the session are left to their handlers.            *)
CleanCalls_Left(x) ==
  /\ cleaner[x] = "calls"
  /\ Cancelled(x)
  /\ Cleaning(x, "stop")
  /\ UNCHANGED <<registry, slots, creator, container, callVars>>

(* _cleanup_session, under the lock: calls, heartbeat, and _run.           *)
CleanCalls(x) ==
  /\ cleaner[x] = "calls"
  /\ RemoveCalls(CallsOn(x))
  /\ Cancelled(x)
  /\ Cleaning(x, "stop")
  /\ UNCHANGED <<registry, slots, creator, container, on, http>>

CleanContainer(x) ==
  /\ cleaner[x] = "stop"
  /\ container' = [container EXCEPT ![x] = "stopped"]
  /\ Cleaning(x, "release")
  /\ UNCHANGED <<registry, slots, creator, runner, callVars>>

(* Mutant: no finally around the deletion of the last_seen key.            *)
CleanSlot_NoFinally(x) ==
  /\ cleaner[x] = "release"
  /\ \/ slots' = Less(slots) /\ Cleaning(x, "done")
     \/ UNCHANGED slots /\ Cleaning(x, "none")
  /\ UNCHANGED <<registry, creator, runner, container, callVars>>

(* The key is deleted, or Redis raises: the slot is released all the same. *)
CleanSlot(x) ==
  /\ cleaner[x] = "release"
  /\ slots' = Less(slots)
  /\ Cleaning(x, "done")
  /\ UNCHANGED <<registry, creator, runner, container, callVars>>

-----------------------------------------------------------------------------
(* Mutant: the session of the endpoint is not looked up again.             *)
Registered_Before(x) == creator[x] = "done"

Registered(x) == creator[x] = "done" /\ x \in registry

(* admit_call: the session is looked up again, under the lock.             *)
Admit(k, x) ==
  /\ http[k] = "none" /\ Registered(x) /\ inflight < MaxInflight
  /\ outstanding' = outstanding \cup {k}
  /\ inflight' = inflight + 1
  /\ on' = [on EXCEPT ![k] = x]
  /\ deadline' = [deadline EXCEPT ![k] = "armed"]
  /\ http' = [http EXCEPT ![k] = "handling"]
  /\ UNCHANGED <<sessionVars, flags>>

(* A pump writes the response to the transport; _response_ready follows.   *)
Answer(k) ==
  /\ k \in outstanding /\ ~Flagged(k, "answered") /\ Connected(on[k])
  /\ Flag(k, "answered")
  /\ UNCHANGED <<sessionVars, inflight, outstanding, on, http, deadline>>

Keep == UNCHANGED <<inflight, outstanding, flags, deadline>>

ResponseReady(k) ==
  /\ Flagged(k, "answered") /\ ~Flagged(k, "response_ready") /\ ~TimedOut(k)
  /\ IF Flagged(k, "disconnected")
       THEN RemoveCalls({k})
       ELSE Flag(k, "response_ready") /\ UNCHANGED <<inflight, outstanding, deadline>>
  /\ UNCHANGED <<sessionVars, on, http>>

(* handle_request returns once the response is delivered or the transport  *)
(* is closed: finish_call waits for the deadline that got there first.     *)
FinishCall(k) ==
  /\ http[k] = "handling"
  /\ Flagged(k, "answered") \/ deadline[k] = "sent" \/ ~Connected(on[k])
  /\ IF k \in outstanding /\ TimedOut(k)
       THEN http' = [http EXCEPT ![k] = "waiting"] /\ Keep
       ELSE http' = [http EXCEPT ![k] = "done"] /\ RemoveCalls({k} \cap outstanding)
  /\ UNCHANGED <<sessionVars, on>>

Terminated(k) ==
  /\ http[k] = "waiting" /\ TerminatedCall(k)
  /\ http' = [http EXCEPT ![k] = "done"]
  /\ UNCHANGED <<sessionVars, inflight, outstanding, on, flags, deadline>>

(* disconnect_call: a client that is gone does not end its call.           *)
DisconnectCall(k) ==
  /\ http[k] = "handling"
  /\ http' = [http EXCEPT ![k] = "done"]
  /\ IF k \notin outstanding \/ TimedOut(k)
       THEN Keep
       ELSE \/ Flagged(k, "response_ready") /\ RemoveCalls({k})
            \/ /\ ~Flagged(k, "response_ready") /\ Flag(k, "disconnected")
               /\ UNCHANGED <<inflight, outstanding, deadline>>
  /\ UNCHANGED <<sessionVars, on>>

(* The deadline of a call takes its session away from everybody else; when *)
(* somebody else has it already, there is nothing to wait for.             *)
Deadline(k) ==
  /\ deadline[k] = "armed"
  /\ registry' = registry \ {on[k]}
  /\ deadline' = [deadline EXCEPT ![k] = IF on[k] \in registry THEN "send" ELSE "done"]
  /\ UNCHANGED <<slots, creator, runner, cleaner, container,
                 inflight, outstanding, on, flags, http>>

(* The error is written to the transport, which takes it or is closed.     *)
DeadlineSend(k) ==
  /\ deadline[k] = "send"
  /\ deadline' = [deadline EXCEPT ![k] = IF Connected(on[k]) THEN "sent" ELSE "clean"]
  /\ UNCHANGED <<sessionVars, inflight, outstanding, on, flags, http>>

(* It waits for finish_call, a second at most, then cleans up the session. *)
DeadlineClean(k) ==
  /\ deadline[k] \in {"sent", "clean"}
  /\ deadline' = [deadline EXCEPT ![k] = "cleaning"]
  /\ Cleaning(on[k], "calls")
  /\ UNCHANGED <<registry, slots, creator, runner, container,
                 inflight, outstanding, on, flags, http>>

DeadlineEnds(k) ==
  /\ deadline[k] = "cleaning" /\ cleaner[on[k]] = "done"
  /\ deadline' = [deadline EXCEPT ![k] = "done"]
  /\ UNCHANGED <<sessionVars, inflight, outstanding, on, flags, http>>

-----------------------------------------------------------------------------
CreateStep(x) ==
  \/ Spawned(x) \/ SpawnFails(x) \/ Touched(x) \/ Connect(x) \/ Created(x) \/ Reap(x)

CleanStep(x) == CleanCalls(x) \/ CleanContainer(x) \/ CleanSlot(x)

CallStep(k) ==
  \/ ResponseReady(k) \/ FinishCall(k) \/ Terminated(k)
  \/ Deadline(k) \/ DeadlineSend(k) \/ DeadlineClean(k) \/ DeadlineEnds(k)

Next ==
  \/ \E x \in Sessions :
       \/ Create(x) \/ CreateStep(x) \/ CreateFails(x) \/ CleanStep(x)
       \/ PumpEnds(x) \/ Sweep(x) \/ HeartbeatFails(x) \/ Delete(x)
  \/ \E gone \in SUBSET Sessions : Evict(gone)
  \/ \E k \in Calls :
       \/ \E x \in Sessions : Admit(k, x)
       \/ Answer(k) \/ CallStep(k) \/ DisconnectCall(k)

Spec == Init /\ [][Next]_vars

(* The event loop runs every task and every timer that is due, and a pump  *)
(* reads the end of a stopped container's output.  No such step is taken   *)
(* twice for a session or a call, so fairness of their disjunction is the  *)
(* fairness of each.  Nothing is assumed of clients and running upstreams: *)
(* they need neither answer nor leave.                                     *)
TaskStep ==
  \/ \E x \in Sessions :
       CreateStep(x) \/ CleanStep(x) \/ (container[x] = "stopped" /\ PumpEnds(x))
  \/ \E k \in Calls : CallStep(k)

FairSpec == Spec /\ WF_vars(TaskStep)

-----------------------------------------------------------------------------
(* The registry, the tasks and the records of calls have these types.      *)
TypeOK ==
  /\ registry \subseteq Sessions /\ outstanding \subseteq Calls
  /\ slots \in 0..MaxSessions /\ inflight \in 0..MaxInflight
  /\ creator \in [Sessions -> {"none", "spawn", "touch", "ready", "reap", "done", "failed"}]
  /\ runner \in [Sessions -> {"none", "starting", "running", "ended", "never"}]
  /\ cleaner \in [Sessions -> {"none", "calls", "stop", "release", "done"}]
  /\ container \in [Sessions -> {"none", "up", "stopped"}]
  /\ on \in [Calls -> Sessions \cup {NoSession}] /\ flags \in [Calls -> SUBSET CallFlags]
  /\ http \in [Calls -> {"none", "handling", "waiting", "done"}]
  /\ deadline \in [Calls -> {"none", "armed", "cancelled", "send", "sent", "clean",
                             "cleaning", "done"}]

(* "Starting, active, and stopping sessions all retain that slot."         *)
Holding(x) == creator[x] \notin {"none", "failed"} /\ cleaner[x] # "done"

(* The sessions that failed in creation after another task took them out:  *)
(* create and _cleanup_session both release their slot.                    *)
ReleasedTwice == {x \in Sessions : creator[x] = "failed" /\ cleaner[x] = "done"}

(* Whoever ends a session or a call, its place in the in-flight quota is   *)
(* given back exactly once, and its slot as well unless its creation fails *)
(* late; no container runs without its session's slot.                     *)
QuotasExact ==
  /\ TypeOK
  /\ slots <= Cardinality({x \in Sessions : Holding(x)})
  /\ Cardinality({x \in Sessions : Holding(x)}) <= slots + Cardinality(ReleasedTwice)
  /\ inflight = Cardinality(outstanding)
  /\ \A x \in Sessions : container[x] = "up" => Holding(x)

(* A call in flight is never forgotten: its session is registered and its  *)
(* deadline runs, or somebody is about to clean up its session.            *)
CallOwned ==
  \A k \in outstanding :
    \/ on[k] \in registry /\ deadline[k] = "armed"
    \/ cleaner[on[k]] = "calls"
    \/ \E other \in Calls : on[other] = on[k] /\ deadline[other] \in {"send", "sent", "clean"}

(* Every admitted call ends, with its request handler released, although   *)
(* its client may leave and its upstream may never answer.                 *)
CallPending(k) == k \in outstanding \/ http[k] \in {"handling", "waiting"}

EveryCallEnds == \A k \in Calls : []<>~CallPending(k)

(* Every session whose creation registered it or failed, and that is no    *)
(* longer registered, is reaped: its container is stopped, its slot given  *)
(* back and its pumps gone.                                                *)
SessionPending(x) ==
  /\ creator[x] \notin {"none", "spawn"} /\ x \notin registry
  /\ Holding(x) \/ container[x] = "up" \/ runner[x] \in {"starting", "running"}

EverySessionReaped == \A x \in Sessions : []<>~SessionPending(x)
=============================================================================
