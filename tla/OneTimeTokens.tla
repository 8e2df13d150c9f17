--------------------------- MODULE OneTimeTokens ---------------------------
(***************************************************************************)
(* What the gateway accepts once, or only so often, by keys of Redis that  *)
(* expire: the nonces of replay_guard.py, the challenges and TOTP codes of *)
(* step_up.py, the failure counter of auth.py and the counter of           *)
(* SessionManager.check_rate_limit.                                        *)
(*                                                                         *)
(* Time is counted in ticks.  A coroutine judges the time of day first and *)
(* awaits Redis next: up to MaxDelay ticks pass in between, with any other *)
(* request.  Clients' clocks are at most MaxAhead ticks ahead.  A TOTP     *)
(* code is named by the begin of its time step; whether a challenge is of  *)
(* the same call (identity, server, tool, arguments) is a choice of Redeem.*)
(*                                                                         *)
(* A key lives until it expires or is deleted: that Redis evicts none, and *)
(* loses none in a restart of its own, is assumed here, though the code    *)
(* has no way to tell (AuditChain does without).                           *)
(***************************************************************************)
EXTENDS Integers, FiniteSets, Sequences

CONSTANTS
  Requests,       \* requests to the gateway, retries and replays included
  Mixes,          \* the kinds of requests that come together
  Nonces, Challenges,
  Window,         \* settings.replay_window_seconds, the half width
  Step,           \* _TOTP_STEP_SECONDS
  ChallengeTTL,   \* settings.step_up_ttl_seconds
  FailureLimit, FailureWindow,
  RateLimit, RateWindow,   \* of tools/call requests, per identity
  MaxAhead, MaxDelay,
  MaxTime,        \* bound of the clock
  MaxCount        \* bound of the count of an identity's calls

Kinds == {"call", "proof", "guess", "paced"}
DedupTTL == 3 * Step

ASSUME RequestsAssumption == IsFiniteSet(Requests)
ASSUME MixesAssumption == Mixes \subseteq [Requests -> Kinds]
ASSUME TimesAssumption ==
  /\ {Window, Step, ChallengeTTL, FailureLimit, FailureWindow, RateLimit, RateWindow,
      MaxAhead, MaxDelay, MaxTime, MaxCount} \subseteq Nat
  /\ Step > 0 /\ ChallengeTTL > 0 /\ FailureWindow > 0 /\ RateLimit > 0 /\ RateWindow > 0
ASSUME WindowAssumption == MaxAhead + MaxDelay < Window
ASSUME StepAssumption == MaxAhead + MaxDelay <= Step

Never == -MaxTime - Window - 1
Forever == MaxTime + 1
Codes == {t \in 0..(MaxTime + MaxAhead) : t % Step = 0}

VARIABLES
  now,
  kind,        \* of each request
  at,          \* the next step of each request
  since,       \* when the request judged the time
  nonce, challenge, code,   \* what each request carries
  stamp,       \* the timestamp signed with each nonce
  issued,      \* the challenges issued so far
  nonceKey, challengeKey, codeKey,   \* when each key of Redis expires
  failures,    \* rate:auth_failure of a source: [count, expires]
  rate,        \* rate:tools_call of an identity: [count, expires]
  passed       \* when requests passed check_rate_limit, in their order

carried == <<nonce, challenge, code>>
paced == <<rate, passed>>
keys == <<nonceKey, challengeKey, codeKey, failures, paced>>
vars == <<now, kind, at, since, carried, stamp, issued, keys>>

Ended == {"accepted", "refused"}
Waiting(r) == at[r] \notin Ended \cup {"new"}

Init ==
  /\ now = 0
  /\ kind \in Mixes
  /\ at = [r \in Requests |-> "new"] /\ since = [r \in Requests |-> 0]
  /\ nonce \in [Requests -> Nonces] /\ challenge \in [Requests -> Challenges]
  /\ code = [r \in Requests |-> 0]
  /\ stamp = [n \in Nonces |-> Never]
  /\ issued = {}
  /\ nonceKey = [n \in Nonces |-> 0]
  /\ challengeKey = [c \in Challenges |-> 0]
  /\ codeKey = [k \in Codes |-> 0]
  /\ failures = [count |-> 0, expires |-> 0]
  /\ rate = [count |-> 0, expires |-> 0] /\ passed = << >>

Live(expires) == now < expires
Goto(r, step) == at' = [at EXCEPT ![r] = step]
Judged(r) == since' = [since EXCEPT ![r] = now]

-----------------------------------------------------------------------------
Fresh(t) == now - t <= Window /\ t - now <= Window

(* A client signs a nonce with the time of its clock, once.                *)
Sign(n) ==
  /\ stamp[n] = Never /\ \E r \in Requests : kind[r] = "call"
  /\ \E t \in 0..(now + MaxAhead) : stamp' = [stamp EXCEPT ![n] = t]
  /\ UNCHANGED <<now, kind, at, since, carried, issued, keys>>

(* ReplayGuard.check: the timestamp first.                                 *)
CheckTimestamp(r) ==
  /\ kind[r] = "call" /\ at[r] = "new" /\ stamp[nonce[r]] # Never
  /\ Goto(r, IF Fresh(stamp[nonce[r]]) THEN "store" ELSE "refused")
  /\ Judged(r)
  /\ UNCHANGED <<now, kind, carried, stamp, issued, keys>>

(* Mutant: the nonce is kept for one window.                               *)
NonceTTL_Half == Window

NonceTTL == 2 * Window

(* SET NX EX; the call is refused as well when the answer is lost.         *)
StoreNonce(r) ==
  /\ at[r] = "store"
  /\ IF Live(nonceKey[nonce[r]])
       THEN Goto(r, "refused") /\ UNCHANGED nonceKey
       ELSE /\ nonceKey' = [nonceKey EXCEPT ![nonce[r]] = now + NonceTTL]
            /\ Goto(r, "accepted") \/ Goto(r, "refused")
  /\ UNCHANGED <<now, kind, since, carried, stamp, issued,
                 challengeKey, codeKey, failures, paced>>

-----------------------------------------------------------------------------
(* create, for a call that scored in the challenge band.                   *)
Issue(c) ==
  /\ c \notin issued /\ \E r \in Requests : kind[r] = "proof"
  /\ issued' = issued \cup {c}
  /\ challengeKey' = [challengeKey EXCEPT ![c] = now + ChallengeTTL]
  /\ UNCHANGED <<now, kind, at, since, carried, stamp,
                 nonceKey, codeKey, failures, paced>>

(* redeem: GETDEL consumes the challenge whatever becomes of the proof.    *)
(* The human reads the code off a clock, or an earlier code comes back.    *)
Redeem(r) ==
  /\ kind[r] = "proof" /\ at[r] = "new" /\ challenge[r] \in issued
  /\ \E k \in Codes : k <= now + MaxAhead /\ code' = [code EXCEPT ![r] = k]
  /\ challengeKey' = [challengeKey EXCEPT ![challenge[r]] = 0]
  /\ IF Live(challengeKey[challenge[r]])
       THEN Goto(r, "verify") \/ Goto(r, "refused")   \* of another call, or lost
       ELSE Goto(r, "refused")
  /\ Judged(r)
  /\ UNCHANGED <<now, kind, nonce, challenge, stamp, issued,
                 nonceKey, codeKey, failures, paced>>

(* verify_totp: the counter of the code is that of now, or one next to it. *)
VerifyTotp(k) == k - Step <= now /\ now < k + 2 * Step

VerifyProof(r) ==
  /\ at[r] = "verify"
  /\ Goto(r, IF VerifyTotp(code[r]) THEN "dedup" ELSE "refused")
  /\ Judged(r)
  /\ UNCHANGED <<now, kind, carried, stamp, issued, keys>>

(* Mutant: a code is remembered for the 60 s that it is said to be valid.  *)
CodeTTL_Comment == 2 * Step

CodeTTL == DedupTTL

Dedup(r) ==
  /\ at[r] = "dedup"
  /\ IF Live(codeKey[code[r]])
       THEN Goto(r, "refused") /\ UNCHANGED codeKey
       ELSE /\ codeKey' = [codeKey EXCEPT ![code[r]] = now + CodeTTL]
            /\ Goto(r, "accepted") \/ Goto(r, "refused")
  /\ UNCHANGED <<now, kind, since, carried, stamp, issued,
                 nonceKey, challengeKey, failures, paced>>

-----------------------------------------------------------------------------
Count == IF Live(failures.expires) THEN failures.count ELSE 0

(* Mutant: a source is not looked up before its key is resolved.           *)
Blocked_Never == FALSE

(* _blocked_ttl.                                                           *)
Blocked == Count > FailureLimit

(* resolve_identity_tracked with a wrong key: a blocked source is refused  *)
(* before its key is looked at.                                            *)
CheckSource(r) ==
  /\ kind[r] = "guess" /\ at[r] = "new" /\ ~Blocked
  /\ Goto(r, "record")
  /\ Judged(r)
  /\ UNCHANGED <<now, kind, carried, stamp, issued, keys>>

(* The script of _record_failure: INCR and EXPIRE are one command.  The    *)
(* source is refused, with 401 or 429, and may try again.                  *)
RecordFailure(r) ==
  /\ at[r] = "record"
  /\ failures' = [count |-> Count + 1,
                  expires |-> IF Count = 0 THEN now + FailureWindow ELSE failures.expires]
  /\ Goto(r, "new")
  /\ UNCHANGED <<now, kind, since, carried, stamp, issued,
                 nonceKey, challengeKey, codeKey, paced>>

-----------------------------------------------------------------------------
Others == <<now, kind, carried, stamp, issued, nonceKey, challengeKey, codeKey, failures>>

WithinRate(count) == count <= RateLimit

Pass(r) == passed' = Append(passed, now) /\ Goto(r, "new")

(* check_rate_limit: INCR.  The first of a window has EXPIRE to send; any  *)
(* other passes, or gets 429 and may try again.                            *)
CountCall(r) ==
  /\ kind[r] = "paced" /\ at[r] = "new" /\ (Live(rate.expires) => rate.count < MaxCount)
  /\ LET count == IF Live(rate.expires) THEN rate.count + 1 ELSE 1
     IN  /\ rate' = [count |-> count, expires |-> IF count = 1 THEN Forever ELSE rate.expires]
         /\ \/ count = 1 /\ Goto(r, "expire") /\ UNCHANGED passed
            \/ count # 1 /\ WithinRate(count) /\ Pass(r)
            \/ count # 1 /\ ~WithinRate(count) /\ UNCHANGED <<at, passed>>
  /\ Judged(r)
  /\ UNCHANGED Others

(* EXPIRE.  When it fails, or the gateway dies before it (Fail), the key   *)
(* has no expiry and the window of the identity never ends.                *)
ExpireRate(r) ==
  /\ at[r] = "expire"
  /\ rate' = [count |-> rate.count, expires |-> now + RateWindow]
  /\ Pass(r)
  /\ UNCHANGED <<Others, since>>

-----------------------------------------------------------------------------
(* Redis fails, or the gateway dies: the call is not accepted.             *)
Fail(r) ==
  /\ Waiting(r)
  /\ Goto(r, "refused")
  /\ UNCHANGED <<now, kind, since, carried, stamp, issued, keys>>

Tick ==
  /\ now < MaxTime
  /\ \A r \in Requests : Waiting(r) => now < since[r] + MaxDelay
  /\ now' = now + 1
  /\ UNCHANGED <<kind, at, since, carried, stamp, issued, keys>>

Next ==
  \/ \E r \in Requests :
       \/ CheckTimestamp(r) \/ StoreNonce(r)
       \/ Redeem(r) \/ VerifyProof(r) \/ Dedup(r)
       \/ CheckSource(r) \/ RecordFailure(r) \/ CountCall(r) \/ ExpireRate(r) \/ Fail(r)
  \/ \E n \in Nonces : Sign(n)
  \/ \E c \in Challenges : Issue(c)
  \/ Tick

Spec == Init /\ [][Next]_vars

-----------------------------------------------------------------------------
(* Clock, requests and keys have these types.                              *)
TypeOK ==
  /\ now \in 0..MaxTime
  /\ kind \in [Requests -> Kinds]
  /\ at \in [Requests -> {"new", "store", "verify", "dedup", "record", "expire"} \cup Ended]
  /\ since \in [Requests -> 0..MaxTime]
  /\ nonce \in [Requests -> Nonces] /\ challenge \in [Requests -> Challenges]
  /\ code \in [Requests -> Codes]
  /\ stamp \in [Nonces -> 0..(MaxTime + MaxAhead) \cup {Never}]
  /\ issued \subseteq Challenges
  /\ nonceKey \in [Nonces -> Nat] /\ challengeKey \in [Challenges -> Nat]
  /\ codeKey \in [Codes -> Nat]
  /\ failures \in [count : Nat, expires : Nat]
  /\ rate \in [count : Nat, expires : Nat] /\ passed \in Seq(0..MaxTime)

Accepted(of) == {r \in Requests : kind[r] = of /\ at[r] = "accepted"}

(* A signed call is accepted once, however long its copies are under way   *)
(* and whenever they arrive: "first-seen + 2 windows strictly outlives its *)
(* validity", as long as clocks and delays stay within WindowAssumption.   *)
NonceOnce == \A r, s \in Accepted("call") : nonce[r] = nonce[s] => r = s

(* "One code, one redemption", and one challenge, one attempt: two retries *)
(* in flight do not share a challenge, and a code that was redeemed clears *)
(* no second challenge as long as any clock takes it for valid.            *)
ProofOnce ==
  /\ \A r, s \in Requests :
       /\ {at[r], at[s]} \subseteq {"verify", "dedup", "accepted"}
       /\ kind[r] = "proof" /\ kind[s] = "proof" /\ challenge[r] = challenge[s]
       => r = s
  /\ \A r, s \in Accepted("proof") : code[r] = code[s] => r = s

(* A source gets its limit of failures in a window, one more that blocks   *)
(* it, and the rest of the requests that were under way: no burst, nor a   *)
(* window that ends among them, lets more keys be tried.  And an identity  *)
(* gets at most twice its limit of calls in any RateWindow ticks, those    *)
(* that straddle two windows included.                                     *)
BurstBounded ==
  /\ TypeOK
  /\ Count <= FailureLimit + Cardinality(Requests)
  /\ \A i \in 1..(Len(passed) - 2 * RateLimit) :
       passed[i + 2 * RateLimit] - passed[i] >= RateWindow
=============================================================================
