------------------------ MODULE OneTimeTokensProofs ------------------------
(***************************************************************************)
(* Proofs about OneTimeTokens, for every set of requests and every window, *)
(* limit, delay and clock error that its assumptions allow.  The invariants*)
(* relate each expiry in Redis to the last instant at which what it guards *)
(* against could still be accepted.                                        *)
(***************************************************************************)
EXTENDS OneTimeTokens, FiniteSetTheorems, SequenceTheorems, TLAPS

Steps == {"new", "store", "verify", "dedup", "record", "expire"} \cup Ended

(* A code that was just read is a code; the names of times do not clash.   *)
LEMMA TimeFacts ==
  /\ 0 \in Codes /\ Codes \subseteq 0..(MaxTime + MaxAhead)
  /\ Never < 0 /\ Never \in Int
  /\ Forever \in Nat
  <1>1. Step \in Nat /\ Step > 0 /\ MaxTime \in Nat /\ MaxAhead \in Nat /\ Window \in Nat
    BY TimesAssumption
  <1>2. 0 % Step = 0
    BY <1>1
  <1> QED  BY <1>1, <1>2 DEF Codes, Never, Forever

(* The constants are natural numbers.                                      *)
LEMMA Durations ==
  /\ Window \in Nat /\ Step \in Nat /\ Step > 0
  /\ ChallengeTTL \in Nat /\ FailureLimit \in Nat /\ FailureWindow \in Nat
  /\ RateLimit \in Nat /\ RateLimit > 0 /\ RateWindow \in Nat
  /\ MaxAhead \in Nat /\ MaxDelay \in Nat /\ MaxTime \in Nat
  BY TimesAssumption

(* The initial state is well typed.                                        *)
LEMMA InitTypes == Init => TypeOK
  <1> SUFFICES ASSUME Init  PROVE TypeOK
    OBVIOUS
  <1>1. MaxTime \in Nat
    BY TimesAssumption
  <1>2. kind \in [Requests -> Kinds]
    BY MixesAssumption DEF Init
  <1>3. passed \in Seq(0..MaxTime)
    BY EmptySeq DEF Init
  <1>4. codeKey \in [Codes -> Nat] /\ code \in [Requests -> Codes]
    BY TimeFacts DEF Init
  <1> QED  BY <1>1, <1>2, <1>3, <1>4 DEF Init, TypeOK

(* No step takes a variable out of its type.                               *)
LEMMA TypeStep ==
  ASSUME TypeOK, [Next]_vars  PROVE TypeOK'
  <1> USE DEF carried, paced, keys, Goto, Judged
  <1>2. ASSUME NEW r \in Requests, CheckTimestamp(r)  PROVE TypeOK'
    BY <1>2 DEF TypeOK, CheckTimestamp, Ended
  <1>3. ASSUME NEW r \in Requests, StoreNonce(r)  PROVE TypeOK'
    <2>0. now + NonceTTL \in Nat
      BY Durations DEF TypeOK, NonceTTL
    <2>1. nonceKey' \in [Nonces -> Nat]
      BY <1>3, <2>0 DEF TypeOK, StoreNonce
    <2>2. at' \in [Requests -> Steps]
      BY <1>3, ZenonT(30) DEF TypeOK, StoreNonce, Steps, Ended
    <2> QED  BY <1>3, <2>1, <2>2 DEF TypeOK, StoreNonce, Steps
  <1>4. ASSUME NEW r \in Requests, Redeem(r)  PROVE TypeOK'
    BY <1>4 DEF TypeOK, Redeem, Ended
  <1>5. ASSUME NEW r \in Requests, VerifyProof(r)  PROVE TypeOK'
    BY <1>5 DEF TypeOK, VerifyProof, Ended
  <1>6. ASSUME NEW r \in Requests, Dedup(r)  PROVE TypeOK'
    <2>0. now + CodeTTL \in Nat
      BY Durations DEF TypeOK, CodeTTL, DedupTTL
    <2>1. codeKey' \in [Codes -> Nat]
      BY <1>6, <2>0 DEF TypeOK, Dedup
    <2>2. at' \in [Requests -> Steps]
      BY <1>6, ZenonT(30) DEF TypeOK, Dedup, Steps, Ended
    <2> QED  BY <1>6, <2>1, <2>2 DEF TypeOK, Dedup, Steps
  <1>7. ASSUME NEW r \in Requests, CheckSource(r)  PROVE TypeOK'
    BY <1>7 DEF TypeOK, CheckSource
  <1>8. ASSUME NEW r \in Requests, RecordFailure(r)  PROVE TypeOK'
    <2>1. failures' \in [count : Nat, expires : Nat]
      BY Durations, <1>8 DEF TypeOK, RecordFailure, Count
    <2> QED  BY <1>8, <2>1 DEF TypeOK, RecordFailure
  <1>9. ASSUME NEW r \in Requests, CountCall(r)  PROVE TypeOK'
    <2>1. rate' \in [count : Nat, expires : Nat]
      BY <1>9, TimeFacts DEF TypeOK, CountCall
    <2>2. passed' = Append(passed, now) \/ passed' = passed
      BY <1>9, Zenon DEF CountCall, Pass
    <2>4. passed' \in Seq(0..MaxTime)
      <3>1. Append(passed, now) \in Seq(0..MaxTime)
        BY AppendProperties DEF TypeOK
      <3> QED  BY <2>2, <3>1 DEF TypeOK
    <2>3. at' \in [Requests -> Steps]
      BY <1>9 DEF TypeOK, CountCall, Pass, Steps
    <2> QED  BY <1>9, <2>1, <2>3, <2>4 DEF TypeOK, CountCall, Others, Steps
  <1>10. ASSUME NEW r \in Requests, ExpireRate(r)  PROVE TypeOK'
    <2>1. rate' \in [count : Nat, expires : Nat]
      BY Durations, <1>10 DEF TypeOK, ExpireRate
    <2>2. passed' \in Seq(0..MaxTime)
      BY <1>10, AppendProperties DEF TypeOK, ExpireRate, Pass
    <2> QED  BY <1>10, <2>1, <2>2 DEF TypeOK, ExpireRate, Pass, Others
  <1>11. ASSUME NEW r \in Requests, Fail(r)  PROVE TypeOK'
    BY <1>11 DEF TypeOK, Fail, Ended
  <1>12. ASSUME NEW n \in Nonces, Sign(n)  PROVE TypeOK'
    <2>1. 0..(now + MaxAhead) \subseteq 0..(MaxTime + MaxAhead)
      BY Durations DEF TypeOK
    <2>2. stamp' \in [Nonces -> 0..(MaxTime + MaxAhead) \cup {Never}]
      BY <1>12, <2>1 DEF TypeOK, Sign
    <2> QED  BY <1>12, <2>2 DEF TypeOK, Sign
  <1>13. ASSUME NEW c \in Challenges, Issue(c)  PROVE TypeOK'
    <2>1. now + ChallengeTTL \in Nat
      BY Durations DEF TypeOK
    <2> QED  BY <1>13, <2>1 DEF TypeOK, Issue
  <1>14. CASE Tick
    <2>1. now' \in 0..MaxTime
      BY Durations, <1>14 DEF TypeOK, Tick
    <2> QED  BY <1>14, <2>1 DEF TypeOK, Tick
  <1>15. CASE UNCHANGED vars
    BY <1>15 DEF TypeOK, vars
  <1> QED  BY <1>2, <1>3, <1>4, <1>5, <1>6, <1>7, <1>8, <1>9, <1>10, <1>11,
              <1>12, <1>13, <1>14, <1>15 DEF Next

(* Clock, requests, keys and counters always have their types.             *)
THEOREM TypeCorrect == Spec => []TypeOK
  BY InitTypes, TypeStep, PTL DEF Spec

-----------------------------------------------------------------------------
(* A request under way judged the time at most MaxDelay ticks ago, and its *)
(* next step is one of its kind.                                           *)
UnderWay(r) ==
  /\ Waiting(r) => since[r] <= now /\ now <= since[r] + MaxDelay
  /\ at[r] = "store" => kind[r] = "call"
  /\ at[r] \in {"verify", "dedup"} => kind[r] = "proof"

DelayInv == \A r \in Requests : UnderWay(r)

(* Every step keeps the delay of every request within MaxDelay.            *)
LEMMA DelayStep ==
  ASSUME TypeOK, DelayInv, [Next]_vars  PROVE DelayInv'
  <1> USE DEF DelayInv, UnderWay, Waiting, Ended, Goto, Judged
  <1>1. ASSUME NEW q \in Requests, CheckTimestamp(q)  PROVE DelayInv'
    BY <1>1, Durations DEF TypeOK, CheckTimestamp
  <1>2. ASSUME NEW q \in Requests, StoreNonce(q)  PROVE DelayInv'
    BY <1>2, Durations DEF TypeOK, StoreNonce
  <1>3. ASSUME NEW q \in Requests, Redeem(q)  PROVE DelayInv'
    BY <1>3, Durations, SMTT(30) DEF TypeOK, Redeem
  <1>4. ASSUME NEW q \in Requests, VerifyProof(q)  PROVE DelayInv'
    BY <1>4, Durations DEF TypeOK, VerifyProof
  <1>5. ASSUME NEW q \in Requests, Dedup(q)  PROVE DelayInv'
    BY <1>5, Durations DEF TypeOK, Dedup
  <1>6. ASSUME NEW q \in Requests, CheckSource(q)  PROVE DelayInv'
    BY <1>6, Durations DEF TypeOK, CheckSource
  <1>7. ASSUME NEW q \in Requests, RecordFailure(q)  PROVE DelayInv'
    BY <1>7, Durations DEF TypeOK, RecordFailure
  <1>8. ASSUME NEW q \in Requests, CountCall(q)  PROVE DelayInv'
    BY <1>8, Durations, SMTT(30) DEF TypeOK, CountCall, Pass, Others
  <1>9. ASSUME NEW q \in Requests, ExpireRate(q)  PROVE DelayInv'
    BY <1>9, Durations DEF TypeOK, ExpireRate, Pass, Others
  <1>10. ASSUME NEW q \in Requests, Fail(q)  PROVE DelayInv'
    BY <1>10, Durations DEF TypeOK, Fail
  <1>11. ASSUME NEW n \in Nonces, Sign(n)  PROVE DelayInv'
    BY <1>11 DEF Sign
  <1>12. ASSUME NEW c \in Challenges, Issue(c)  PROVE DelayInv'
    BY <1>12 DEF Issue
  <1>13. CASE Tick
    BY <1>13, Durations DEF TypeOK, Tick
  <1>14. CASE UNCHANGED vars
    BY <1>14 DEF vars
  <1> QED  BY <1>1, <1>2, <1>3, <1>4, <1>5, <1>6, <1>7, <1>8, <1>9, <1>10,
              <1>11, <1>12, <1>13, <1>14 DEF Next

-----------------------------------------------------------------------------
(* No nonce is signed further ahead than clocks run.                       *)
StampInv == \A n \in Nonces : stamp[n] # Never => stamp[n] <= now + MaxAhead

(* A copy that waits for Redis was fresh when it was judged; an accepted   *)
(* one left a key that outlives every copy that was or will be fresh.      *)
NonceKept(r) ==
  /\ at[r] = "store" =>
       stamp[nonce[r]] # Never /\ since[r] <= stamp[nonce[r]] + Window
  /\ kind[r] = "call" /\ at[r] = "accepted" =>
       /\ stamp[nonce[r]] # Never
       /\ stamp[nonce[r]] + Window + MaxDelay < nonceKey[nonce[r]]

NonceInv == DelayInv /\ StampInv /\ (\A r \in Requests : NonceKept(r)) /\ NonceOnce

(* Time passes for the stamps, and a signature gives a new one.            *)
LEMMA StampStep ==
  ASSUME TypeOK, StampInv, [Next]_vars  PROVE StampInv'
  <1>1. ASSUME NEW n \in Nonces, Sign(n)  PROVE StampInv'
    BY <1>1, Durations, SMTT(30) DEF TypeOK, Sign, StampInv
  <1>2. CASE Tick
    BY <1>2, Durations, TimeFacts DEF TypeOK, Tick, StampInv
  <1>3. CASE UNCHANGED <<now, stamp>>
    BY <1>3 DEF StampInv
  <1>4. ASSUME NEW q \in Requests,
               \/ CheckTimestamp(q) \/ StoreNonce(q) \/ Redeem(q) \/ VerifyProof(q)
               \/ Dedup(q) \/ CheckSource(q) \/ RecordFailure(q) \/ CountCall(q)
               \/ ExpireRate(q) \/ Fail(q)
        PROVE  UNCHANGED <<now, stamp>>
    BY <1>4 DEF CheckTimestamp, StoreNonce, Redeem, VerifyProof, Dedup, CheckSource,
                RecordFailure, CountCall, ExpireRate, Fail, Others
  <1>5. ASSUME NEW c \in Challenges, Issue(c)  PROVE UNCHANGED <<now, stamp>>
    BY <1>5 DEF Issue
  <1>6. ASSUME UNCHANGED vars  PROVE UNCHANGED <<now, stamp>>
    BY <1>6 DEF vars
  <1> QED  BY <1>1, <1>2, <1>3, <1>4, <1>5, <1>6 DEF Next

(* A step that lets no signed call go on leaves its copies as they are.    *)
LEMMA NonceUnmoved ==
  ASSUME TypeOK, NonceInv, UNCHANGED <<kind, nonce, stamp, nonceKey>>,
         NEW q \in Requests,
         \A r \in Requests \ {q} : at'[r] = at[r] /\ since'[r] = since[r],
         at'[q] # "store",
         kind[q] = "call" => at'[q] # "accepted"
  PROVE  (\A r \in Requests : NonceKept(r)') /\ NonceOnce'
  <1>1. ASSUME NEW r \in Requests, r # q  PROVE NonceKept(r)'
    BY <1>1 DEF NonceInv, NonceKept
  <1>2. NonceKept(q)'
    BY DEF NonceKept
  <1>3. Accepted("call")' \subseteq Accepted("call")
    BY DEF Accepted
  <1> QED  BY <1>1, <1>2, <1>3 DEF NonceInv, NonceOnce

(* Every step keeps the nonces.  StoreNonce is the step that could accept  *)
(* a second copy: its delay is too short for the first one's key to end.   *)
LEMMA NonceStep ==
  ASSUME TypeOK, NonceInv, [Next]_vars  PROVE NonceInv'
  <1>1. DelayInv' /\ StampInv'
    BY DelayStep, StampStep DEF NonceInv
  <1> DEFINE Kept == (\A r \in Requests : NonceKept(r)') /\ NonceOnce'
  <1>2. ASSUME NEW q \in Requests, CheckTimestamp(q)  PROVE Kept
    <2>1. ASSUME NEW r \in Requests  PROVE NonceKept(r)'
      <3>1. UNCHANGED <<kind, nonce, stamp, nonceKey>>
        BY <1>2 DEF CheckTimestamp, carried, keys
      <3>2. CASE r # q
        BY <1>2, <3>1, <3>2 DEF TypeOK, NonceInv, NonceKept, CheckTimestamp, Goto, Judged
      <3>3. CASE r = q
        <4>1. stamp[nonce[q]] \in Int
          BY TimeFacts DEF TypeOK
        <4> QED  BY <1>2, <3>1, <3>3, <4>1, Durations, SMTT(30)
                 DEF TypeOK, NonceKept, CheckTimestamp, Fresh, Goto, Judged
      <3> QED  BY <3>2, <3>3
    <2>2. Accepted("call")' \subseteq Accepted("call")
      BY <1>2 DEF TypeOK, Accepted, CheckTimestamp, Goto
    <2> QED  BY <1>2, <2>1, <2>2 DEF NonceInv, NonceOnce, CheckTimestamp, carried
  <1>3. ASSUME NEW q \in Requests, StoreNonce(q)  PROVE Kept
    <2> DEFINE n == nonce[q]
    <2>1. /\ n \in Nonces /\ stamp[n] \in Int /\ nonceKey[n] \in Int
          /\ now \in Int /\ since[q] \in Int
      BY TimeFacts, Durations DEF TypeOK
    <2>2. /\ at[q] = "store" /\ kind[q] = "call"
          /\ UNCHANGED <<now, kind, since, nonce, stamp>>
      BY <1>3 DEF StoreNonce, NonceInv, DelayInv, UnderWay, carried
    <2>3. /\ now <= since[q] + MaxDelay
          /\ stamp[n] # Never /\ since[q] <= stamp[n] + Window
          /\ stamp[n] <= now + MaxAhead
      BY <2>1, <2>2 DEF NonceInv, DelayInv, UnderWay, Waiting, Ended, NonceKept, StampInv
    <2>4. CASE Live(nonceKey[n])
      <3>1. Goto(q, "refused") /\ UNCHANGED nonceKey
        BY <1>3, <2>4 DEF StoreNonce
      <3> QED  BY <2>2, <3>1, NonceUnmoved DEF Goto, TypeOK
    <2>5. CASE ~Live(nonceKey[n])
      <3>1. \A r \in Accepted("call") : nonce[r] # n
        <4>1. SUFFICES ASSUME NEW r \in Accepted("call"), nonce[r] = n
                       PROVE  FALSE
          OBVIOUS
        <4>2. stamp[n] + Window + MaxDelay < nonceKey[n]
          BY <4>1 DEF Accepted, NonceInv, NonceKept
        <4> QED  BY <2>1, <2>3, <2>5, <4>2, Durations DEF Live
      <3>2. /\ nonceKey' = [nonceKey EXCEPT ![n] = now + NonceTTL]
            /\ \E step \in Ended : at' = [at EXCEPT ![q] = step]
        BY <1>3, <2>5 DEF StoreNonce, Goto, Ended
      <3>3. now + NonceTTL > stamp[n] + Window + MaxDelay
        BY <2>1, <2>3, Durations, WindowAssumption DEF NonceTTL
      <3>4. ASSUME NEW r \in Requests  PROVE NonceKept(r)'
        <4>1. CASE r = q
          BY <2>1, <2>2, <2>3, <3>2, <3>3, <4>1 DEF TypeOK, NonceKept, Ended
        <4>2. CASE r # q
          BY <2>2, <3>1, <3>2, <4>2 DEF TypeOK, NonceInv, NonceKept, Accepted
        <4> QED  BY <4>1, <4>2
      <3>5. Accepted("call")' \subseteq Accepted("call") \cup {q}
        BY <2>2, <3>2 DEF TypeOK, Accepted
      <3> QED  BY <2>2, <3>1, <3>4, <3>5 DEF NonceInv, NonceOnce
    <2> QED  BY <2>4, <2>5
  <1>4. ASSUME NEW q \in Requests, Redeem(q)  PROVE Kept
    BY <1>4, NonceUnmoved DEF TypeOK, Redeem, Goto, Judged
  <1>5. ASSUME NEW q \in Requests, VerifyProof(q)  PROVE Kept
    BY <1>5, NonceUnmoved DEF TypeOK, VerifyProof, Goto, Judged, carried, keys
  <1>6. ASSUME NEW q \in Requests, Dedup(q)  PROVE Kept
    BY <1>6, NonceUnmoved DEF TypeOK, Dedup, Goto, carried, NonceInv, DelayInv, UnderWay
  <1>7. ASSUME NEW q \in Requests, CheckSource(q)  PROVE Kept
    BY <1>7, NonceUnmoved DEF TypeOK, CheckSource, Goto, Judged, carried, keys
  <1>8. ASSUME NEW q \in Requests, RecordFailure(q)  PROVE Kept
    BY <1>8, NonceUnmoved DEF TypeOK, RecordFailure, Goto, carried
  <1>9. ASSUME NEW q \in Requests, CountCall(q)  PROVE Kept
    BY <1>9, NonceUnmoved DEF TypeOK, CountCall, Pass, Goto, Judged, Others, carried
  <1>10. ASSUME NEW q \in Requests, ExpireRate(q)  PROVE Kept
    BY <1>10, NonceUnmoved DEF TypeOK, ExpireRate, Pass, Goto, Others, carried
  <1>11. ASSUME NEW q \in Requests, Fail(q)  PROVE Kept
    BY <1>11, NonceUnmoved DEF TypeOK, Fail, Goto, carried, keys
  <1>12. ASSUME NEW n \in Nonces, Sign(n)  PROVE Kept
    <2>1. /\ stamp[n] = Never
          /\ \A m \in Nonces \ {n} : stamp'[m] = stamp[m]
          /\ UNCHANGED <<kind, at, since, nonce, nonceKey>>
      BY <1>12 DEF TypeOK, Sign, carried, keys
    <2>2. ASSUME NEW r \in Requests  PROVE NonceKept(r)'
      <3>1. nonce[r] \in Nonces
        BY DEF TypeOK
      <3> QED  BY <2>1, <3>1 DEF NonceInv, NonceKept
    <2> QED  BY <2>1, <2>2 DEF NonceInv, NonceOnce, Accepted
  <1>13. ASSUME UNCHANGED <<kind, at, since, nonce, stamp, nonceKey>>  PROVE Kept
    BY <1>13 DEF NonceInv, NonceKept, NonceOnce, Accepted
  <1>14. ASSUME NEW c \in Challenges, Issue(c)  PROVE Kept
    BY <1>13, <1>14 DEF Issue, carried
  <1>15. ASSUME Tick  PROVE Kept
    BY <1>13, <1>15 DEF Tick, carried, keys
  <1>16. ASSUME UNCHANGED vars  PROVE Kept
    BY <1>13, <1>16 DEF vars, carried, keys
  <1>17. Kept
    BY <1>2, <1>3, <1>4, <1>5, <1>6, <1>7, <1>8, <1>9, <1>10, <1>11, <1>12,
       <1>14, <1>15, <1>16 DEF Next
  <1> QED  BY <1>1, <1>17 DEF NonceInv

(* Whatever the copies, delays and clock errors within WindowAssumption, a *)
(* signed call is accepted once (ReplayGuard.check).                       *)
THEOREM NoncesOnce == Spec => []NonceOnce
  <1>1. Init => NonceInv
    BY DEF Init, NonceInv, DelayInv, UnderWay, Waiting, Ended, StampInv, NonceKept,
           NonceOnce, Accepted
  <1>2. TypeOK /\ NonceInv /\ [Next]_vars => NonceInv'
    BY NonceStep
  <1>3. NonceInv => NonceOnce
    BY DEF NonceInv
  <1> QED  BY <1>1, <1>2, <1>3, TypeCorrect, PTL DEF Spec

-----------------------------------------------------------------------------
(* A retry that got past GETDEL has consumed its challenge; the code it    *)
(* carries was on some clock, was valid when it was judged, and when it is *)
(* redeemed leaves a key that outlives its validity and the delay.         *)
ProofKept(r) ==
  /\ kind[r] = "proof" /\ at[r] \in {"verify", "dedup", "accepted"} =>
       challenge[r] \in issued /\ challengeKey[challenge[r]] = 0
  /\ at[r] \in {"verify", "dedup"} => code[r] <= now + MaxAhead
  /\ at[r] = "dedup" => since[r] < code[r] + 2 * Step
  /\ kind[r] = "proof" /\ at[r] = "accepted" =>
       code[r] + 2 * Step + MaxDelay <= codeKey[code[r]]

ProofInv == DelayInv /\ (\A r \in Requests : ProofKept(r)) /\ ProofOnce

(* The code that a request carries is the begin of a time step.            *)
LEMMA CodeIsTime ==
  ASSUME TypeOK, NEW r \in Requests  PROVE code[r] \in Codes /\ code[r] \in Int
  <1>1. code[r] \in Codes
    BY DEF TypeOK
  <1>2. code[r] \in 0..(MaxTime + MaxAhead)
    BY <1>1, TimeFacts
  <1> QED  BY <1>1, <1>2

(* What lay within a bound after the present does so when time moves on.   *)
LEMMA StaysWithin ==
  ASSUME NEW t \in Int, NEW m \in Int, NEW n \in Int, NEW ahead \in Int, m <= n
  PROVE  t <= m + ahead => t <= n + ahead
  OBVIOUS

(* A step that takes no proof further leaves all of them as they are.      *)
LEMMA ProofUnmoved ==
  ASSUME TypeOK, ProofInv, UNCHANGED <<kind, challenge, code, challengeKey, codeKey>>,
         issued \subseteq issued', now' \in Int, now <= now',
         NEW q \in Requests,
         \A r \in Requests \ {q} : at'[r] = at[r] /\ since'[r] = since[r],
         at'[q] \notin {"verify", "dedup"},
         kind[q] = "proof" => at'[q] # "accepted"
  PROVE  (\A r \in Requests : ProofKept(r)') /\ ProofOnce'
  <1>1. ASSUME NEW r \in Requests, r # q  PROVE ProofKept(r)'
    <2>1. code[r] \in Int
      BY CodeIsTime
    <2>2. ProofKept(r) /\ at'[r] = at[r] /\ since'[r] = since[r]
      BY <1>1 DEF ProofInv
    <2>3. now \in Int /\ MaxAhead \in Int
      BY Durations DEF TypeOK
    <2>4. code[r] <= now + MaxAhead => code[r] <= now' + MaxAhead
      BY <2>1, <2>3, StaysWithin
    <2> QED  BY <2>2, <2>4 DEF ProofKept
  <1>2. ProofKept(q)'
    BY DEF ProofKept
  <1>3. /\ Accepted("proof")' \subseteq Accepted("proof")
        /\ \A r \in Requests : /\ kind'[r] = "proof"
                                /\ at'[r] \in {"verify", "dedup", "accepted"}
                                => at'[r] = at[r]
    BY DEF Accepted
  <1> QED  BY <1>1, <1>2, <1>3 DEF ProofInv, ProofOnce

(* Redeem: the challenge of every proof under way is consumed already, so  *)
(* a retry that finds one is the only one that carries it.                 *)
LEMMA RedeemStep ==
  ASSUME TypeOK, ProofInv, NEW q \in Requests, Redeem(q)
  PROVE  (\A r \in Requests : ProofKept(r)') /\ ProofOnce'
  <1> DEFINE c == challenge[q]
  <1>1. PICK k \in Codes : k <= now + MaxAhead /\ code' = [code EXCEPT ![q] = k]
    BY DEF Redeem
  <1>2. /\ kind[q] = "proof" /\ at[q] = "new" /\ c \in issued /\ c \in Challenges
        /\ challengeKey' = [challengeKey EXCEPT ![c] = 0]
        /\ UNCHANGED <<now, kind, challenge, issued, codeKey>>
        /\ since' = [since EXCEPT ![q] = now]
    BY DEF TypeOK, Redeem, Judged
  <1>3. /\ \E step \in {"verify", "refused"} : at' = [at EXCEPT ![q] = step]
        /\ ~Live(challengeKey[c]) => at' = [at EXCEPT ![q] = "refused"]
    BY DEF Redeem, Goto
  <1>4. \A r \in Requests \ {q} : at'[r] = at[r] /\ code'[r] = code[r] /\ since'[r] = since[r]
    BY <1>1, <1>2, <1>3 DEF TypeOK
  <1>5. ASSUME NEW r \in Requests  PROVE ProofKept(r)'
    <2>1. CASE r # q
      <3>1. challengeKey[challenge[r]] = 0 => challengeKey'[challenge[r]] = 0
        BY <1>2 DEF TypeOK
      <3> QED  BY <1>2, <1>4, <2>1, <3>1 DEF ProofInv, ProofKept
    <2>2. CASE r = q
      <3>1. at'[q] \in {"verify", "refused"} /\ code'[q] = k /\ challengeKey'[c] = 0
        BY <1>1, <1>2, <1>3 DEF TypeOK
      <3> QED  BY <1>1, <1>2, <2>2, <3>1 DEF ProofKept
    <2> QED  BY <2>1, <2>2
  <1>6. ASSUME NEW r \in Requests, r # q, challenge[r] = c, kind[r] = "proof",
               at[r] \in {"verify", "dedup", "accepted"}
        PROVE  at'[q] = "refused"
    <2>1. challengeKey[c] = 0
      BY <1>6 DEF ProofInv, ProofKept
    <2>2. ~Live(challengeKey[c])
      BY <2>1, Durations DEF TypeOK, Live
    <2> QED  BY <1>3, <2>2 DEF TypeOK
  <1>7. at'[q] \in {"verify", "refused"}
    BY <1>3 DEF TypeOK
  <1>8. ASSUME NEW r \in Requests, NEW s \in Requests,
               at'[r] \in {"verify", "dedup", "accepted"},
               at'[s] \in {"verify", "dedup", "accepted"},
               kind[r] = "proof", kind[s] = "proof", challenge[r] = challenge[s]
        PROVE  r = s
    <2>1. CASE r # q /\ s # q
      BY <1>4, <1>8, <2>1 DEF ProofInv, ProofOnce
    <2>2. CASE r = q /\ s # q
      BY <1>4, <1>6, <1>8, <2>2
    <2>3. CASE r # q /\ s = q
      BY <1>4, <1>6, <1>8, <2>3
    <2> QED  BY <2>1, <2>2, <2>3
  <1>9. /\ Accepted("proof")' \subseteq Accepted("proof") \ {q}
    BY <1>2, <1>4, <1>7 DEF Accepted
  <1>10. \A r, s \in Accepted("proof")' : code'[r] = code'[s] => r = s
    <2>1. \A r \in Accepted("proof")' : r \in Requests \ {q}
      BY <1>9 DEF Accepted
    <2> QED  BY <1>4, <1>9, <2>1 DEF ProofInv, ProofOnce
  <1> QED  BY <1>2, <1>5, <1>8, <1>10 DEF ProofOnce

(* A proof goes one step on or is refused; no other request changes.       *)
LEMMA ProofMoves ==
  ASSUME TypeOK, ProofInv, NEW q \in Requests, NEW step,
         kind[q] = "proof", at[q] \in {"verify", "dedup"},
         at' = [at EXCEPT ![q] = step],
         UNCHANGED <<kind, challenge>>
  PROVE  \A r, s \in Requests :
           /\ {at'[r], at'[s]} \subseteq {"verify", "dedup", "accepted"}
           /\ kind'[r] = "proof" /\ kind'[s] = "proof" /\ challenge'[r] = challenge'[s]
           => r = s
  <1>1. \A r \in Requests : at'[r] \in {"verify", "dedup", "accepted"}
                           => at[r] \in {"verify", "dedup", "accepted"}
    BY DEF TypeOK
  <1> QED  BY <1>1 DEF ProofInv, ProofOnce

(* VerifyProof: a code that is within a step of now is valid for less than *)
(* two steps from its begin.                                               *)
LEMMA VerifyStep ==
  ASSUME TypeOK, ProofInv, NEW q \in Requests, VerifyProof(q)
  PROVE  (\A r \in Requests : ProofKept(r)') /\ ProofOnce'
  <1>1. /\ at[q] = "verify" /\ kind[q] = "proof"
        /\ UNCHANGED <<now, kind, challenge, code, issued, challengeKey, codeKey>>
        /\ since' = [since EXCEPT ![q] = now]
        /\ \/ at' = [at EXCEPT ![q] = "dedup"] /\ VerifyTotp(code[q])
           \/ at' = [at EXCEPT ![q] = "refused"]
    BY DEF VerifyProof, ProofInv, DelayInv, UnderWay, Goto, Judged, carried, keys
  <1>2. ASSUME NEW r \in Requests  PROVE ProofKept(r)'
    <2>1. CASE r # q
      BY <1>1, <2>1 DEF TypeOK, ProofInv, ProofKept
    <2>2. CASE r = q
      BY <1>1, <2>2 DEF TypeOK, ProofInv, ProofKept, VerifyTotp
    <2> QED  BY <2>1, <2>2
  <1>3. Accepted("proof")' \subseteq Accepted("proof")
    BY <1>1 DEF TypeOK, Accepted
  <1> QED  BY <1>1, <1>2, <1>3, ProofMoves DEF ProofInv, ProofOnce

(* Dedup: the code that was redeemed before is still known, for the delay  *)
(* since it was judged is shorter than what its key has left.              *)
LEMMA DedupStep ==
  ASSUME TypeOK, ProofInv, NEW q \in Requests, Dedup(q)
  PROVE  (\A r \in Requests : ProofKept(r)') /\ ProofOnce'
  <1> DEFINE k == code[q]
  <1>1. /\ at[q] = "dedup" /\ kind[q] = "proof"
        /\ UNCHANGED <<now, kind, since, challenge, code, issued, challengeKey>>
    BY DEF Dedup, ProofInv, DelayInv, UnderWay, carried
  <1>2. /\ k \in Codes /\ k \in Int /\ codeKey[k] \in Int /\ now \in Int /\ since[q] \in Int
    BY CodeIsTime, Durations, SMTT(30) DEF TypeOK
  <1>3. /\ now <= since[q] + MaxDelay
        /\ k <= now + MaxAhead
        /\ since[q] < k + 2 * Step
    BY <1>1 DEF ProofInv, DelayInv, UnderWay, Waiting, Ended, ProofKept
  <1>4. CASE Live(codeKey[k])
    <2>1. at' = [at EXCEPT ![q] = "refused"] /\ UNCHANGED codeKey
      BY <1>4 DEF Dedup, Goto
    <2> QED  BY <1>1, <1>2, <2>1, ProofUnmoved, SMTT(30) DEF TypeOK
  <1>5. CASE ~Live(codeKey[k])
    <2>1. \A r \in Accepted("proof") : code[r] # k
      <3>1. SUFFICES ASSUME NEW r \in Accepted("proof"), code[r] = k  PROVE FALSE
        OBVIOUS
      <3>2. k + 2 * Step + MaxDelay <= codeKey[k]
        BY <3>1 DEF Accepted, ProofInv, ProofKept
      <3> QED  BY <1>2, <1>3, <1>5, <3>2, Durations DEF Live
    <2>2. /\ codeKey' = [codeKey EXCEPT ![k] = now + CodeTTL]
          /\ \E step \in Ended : at' = [at EXCEPT ![q] = step]
      BY <1>5 DEF Dedup, Goto, Ended
    <2>3. k + 2 * Step + MaxDelay <= now + CodeTTL
      BY <1>2, <1>3, Durations, StepAssumption DEF CodeTTL, DedupTTL
    <2>4. ASSUME NEW r \in Requests  PROVE ProofKept(r)'
      <3>1. CASE r # q
        <4>1. at'[r] = at[r] /\ (code[r] # k => codeKey'[code[r]] = codeKey[code[r]])
          BY <2>2, <3>1 DEF TypeOK
        <4> QED  BY <1>1, <2>1, <4>1 DEF ProofInv, ProofKept, Accepted
      <3>2. CASE r = q
        <4>1. at'[q] \in Ended /\ codeKey'[k] = now + CodeTTL
          BY <1>2, <2>2 DEF TypeOK
        <4> QED  BY <1>1, <2>3, <3>2, <4>1 DEF ProofInv, ProofKept, Ended
      <3> QED  BY <3>1, <3>2
    <2>5. Accepted("proof")' \subseteq Accepted("proof") \cup {q}
      BY <1>1, <2>2 DEF TypeOK, Accepted
    <2> QED  BY <1>1, <2>1, <2>2, <2>4, <2>5, ProofMoves DEF ProofInv, ProofOnce
  <1> QED  BY <1>4, <1>5

(* Every step keeps the proofs.                                            *)
LEMMA ProofStep ==
  ASSUME TypeOK, ProofInv, [Next]_vars  PROVE ProofInv'
  <1> DEFINE Kept == (\A r \in Requests : ProofKept(r)') /\ ProofOnce'
  <1>1. DelayInv'
    BY DelayStep DEF ProofInv
  <1>2. ASSUME NEW q \in Requests, Redeem(q) \/ VerifyProof(q) \/ Dedup(q)  PROVE Kept
    BY <1>2, RedeemStep, VerifyStep, DedupStep
  <1>3. now \in Int /\ now <= now
    BY Durations DEF TypeOK
  <1>4. ASSUME NEW q \in Requests, CheckTimestamp(q)  PROVE Kept
    BY <1>3, <1>4, ProofUnmoved DEF TypeOK, CheckTimestamp, Goto, Judged, carried, keys
  <1>5. ASSUME NEW q \in Requests, StoreNonce(q)  PROVE Kept
    <2>1. kind[q] = "call" /\ \E step \in Ended : at' = [at EXCEPT ![q] = step]
      BY <1>5 DEF ProofInv, DelayInv, UnderWay, StoreNonce, Goto, Ended
    <2>2. UNCHANGED <<now, kind, since, challenge, code, issued, challengeKey, codeKey>>
      BY <1>5 DEF StoreNonce, carried
    <2> QED  BY <1>3, <2>1, <2>2, ProofUnmoved DEF TypeOK, Ended
  <1>6. ASSUME NEW q \in Requests, CheckSource(q)  PROVE Kept
    BY <1>3, <1>6, ProofUnmoved DEF TypeOK, CheckSource, Goto, Judged, carried, keys
  <1>7. ASSUME NEW q \in Requests, RecordFailure(q)  PROVE Kept
    BY <1>3, <1>7, ProofUnmoved DEF TypeOK, RecordFailure, Goto, carried
  <1>8. ASSUME NEW q \in Requests, CountCall(q)  PROVE Kept
    BY <1>3, <1>8, ProofUnmoved DEF TypeOK, CountCall, Pass, Goto, Judged, Others, carried
  <1>9. ASSUME NEW q \in Requests, ExpireRate(q)  PROVE Kept
    BY <1>3, <1>9, ProofUnmoved DEF TypeOK, ExpireRate, Pass, Goto, Others, carried
  <1>10. ASSUME NEW q \in Requests, Fail(q)  PROVE Kept
    BY <1>3, <1>10, ProofUnmoved DEF TypeOK, Fail, Goto, carried, keys
  <1>11. ASSUME UNCHANGED <<kind, at, since, challenge, code, codeKey>>,
                issued \subseteq issued', now' \in Int, now <= now',
                \A c \in issued : challengeKey'[c] = challengeKey[c]
         PROVE  Kept
    <2>1. ASSUME NEW r \in Requests  PROVE ProofKept(r)'
      <3>1. ProofKept(r)
        BY DEF ProofInv
      <3>2. code[r] <= now + MaxAhead => code[r] <= now' + MaxAhead
        <4>1. code[r] \in Int
          BY CodeIsTime
        <4> QED  BY <1>3, <1>11, <4>1, Durations
      <3> QED  BY <1>11, <3>1, <3>2 DEF ProofKept
    <2> QED  BY <1>11, <2>1 DEF ProofInv, ProofOnce, Accepted
  <1>12. ASSUME NEW n \in Nonces, Sign(n)  PROVE Kept
    BY <1>3, <1>11, <1>12 DEF Sign, carried, keys
  <1>13. ASSUME NEW c \in Challenges, Issue(c)  PROVE Kept
    <2>1. /\ issued \subseteq issued' /\ \A d \in issued : challengeKey'[d] = challengeKey[d]
          /\ UNCHANGED <<now, kind, at, since, challenge, code, codeKey>>
      BY <1>13 DEF TypeOK, Issue, carried
    <2> QED  BY <1>3, <1>11, <2>1
  <1>14. ASSUME Tick  PROVE Kept
    <2>1. now' \in Int /\ now <= now'
      BY <1>14, Durations DEF TypeOK, Tick
    <2> QED  BY <1>11, <1>14, <2>1 DEF Tick, carried, keys
  <1>15. ASSUME UNCHANGED vars  PROVE Kept
    BY <1>3, <1>11, <1>15 DEF vars, carried, keys
  <1>16. Kept
    BY <1>2, <1>4, <1>5, <1>6, <1>7, <1>8, <1>9, <1>10, <1>12, <1>13, <1>14, <1>15 DEF Next
  <1> QED  BY <1>1, <1>16 DEF ProofInv

(* One code, one redemption, and one challenge, one attempt, whatever the  *)
(* retries in flight (StepUpStore.redeem).                                 *)
THEOREM ProofsOnce == Spec => []ProofOnce
  <1>1. Init => ProofInv
    BY DEF Init, ProofInv, DelayInv, UnderWay, Waiting, Ended, ProofKept, ProofOnce, Accepted
  <1>2. TypeOK /\ ProofInv /\ [Next]_vars => ProofInv'
    BY ProofStep
  <1>3. ProofInv => ProofOnce
    BY DEF ProofInv
  <1> QED  BY <1>1, <1>2, <1>3, TypeCorrect, PTL DEF Spec

-----------------------------------------------------------------------------
Recording == {r \in Requests : at[r] = "record"}

(* Each wrong key passed the block or is counted: what is counted and what *)
(* is about to be do not exceed the limit by more than the requests.       *)
FailureInv ==
  /\ IsFiniteSet(Recording)
  /\ Count + Cardinality(Recording) <= FailureLimit + Cardinality(Requests)

(* A set of requests has a size, at most that of all requests.             *)
LEMMA SizeFacts ==
  /\ IsFiniteSet(Recording) /\ Cardinality(Requests) \in Nat
  /\ Cardinality(Recording) \in Nat /\ Cardinality(Recording) <= Cardinality(Requests)
  <1>1. Recording \subseteq Requests
    BY DEF Recording
  <1> QED  BY <1>1, RequestsAssumption, FS_Subset, FS_CardinalityType

(* The count of the source is a number, and time can only end its window.  *)
LEMMA CountType == ASSUME TypeOK  PROVE Count \in Nat
  BY DEF TypeOK, Count

(* Every step keeps the failures within the limit and the burst.           *)
LEMMA FailureStep ==
  ASSUME TypeOK, TypeOK', FailureInv, [Next]_vars  PROVE FailureInv'
  <1> DEFINE Size == Cardinality(Recording)
  <1>0. /\ Size \in Nat /\ Cardinality(Requests) \in Nat /\ Count \in Nat /\ FailureLimit \in Nat
        /\ IsFiniteSet(Recording)
    BY SizeFacts, CountType, Durations
  <1>1. IsFiniteSet(Recording') /\ Cardinality(Recording') \in Nat
        /\ Cardinality(Recording') <= Cardinality(Requests) /\ Count' \in Nat
    <2>1. Recording' \subseteq Requests
      BY DEF Recording
    <2>2. Count' \in Nat
      BY DEF TypeOK, Count
    <2> QED  BY <2>1, <2>2, RequestsAssumption, FS_Subset, FS_CardinalityType
  <1>2. ASSUME Recording' \subseteq Recording, Count' <= Count  PROVE FailureInv'
    <2>1. Cardinality(Recording') <= Size
      BY <1>0, <1>2, FS_Subset
    <2> QED  BY <1>0, <1>1, <1>2, <2>1 DEF FailureInv
  <1>3. ASSUME NEW q \in Requests, CheckSource(q)  PROVE FailureInv'
    <2>1. UNCHANGED <<now, failures>> /\ ~Blocked
      BY <1>3 DEF CheckSource, keys
    <2>2. Count' = Count
      BY <2>1 DEF Count, Live
    <2>3. Count <= FailureLimit
      BY <1>0, <2>1 DEF Blocked
    <2> QED  BY <1>0, <1>1, <2>2, <2>3 DEF FailureInv
  <1>4. ASSUME NEW q \in Requests, RecordFailure(q)  PROVE FailureInv'
    <2>1. q \in Recording /\ Recording' = Recording \ {q}
      BY <1>4 DEF TypeOK, RecordFailure, Goto, Recording
    <2>2. Cardinality(Recording') = Size - 1
      BY <1>0, <2>1, FS_RemoveElement
    <2>3. Count' <= Count + 1
      <3>1. failures'.count = Count + 1
        BY <1>4 DEF RecordFailure
      <3>2. Count' \in {0, Count + 1}
        BY <3>1 DEF Count
      <3> QED  BY <1>0, <3>2
    <2> QED  BY <1>0, <1>1, <2>2, <2>3 DEF FailureInv
  <1>5. ASSUME UNCHANGED <<now, failures>>, Recording' \subseteq Recording  PROVE FailureInv'
    <2>1. Count' = Count
      BY <1>5 DEF Count, Live
    <2> QED  BY <1>0, <1>2, <1>5, <2>1
  <1>6. ASSUME NEW q \in Requests,
               \/ CheckTimestamp(q) \/ StoreNonce(q) \/ Redeem(q) \/ VerifyProof(q)
               \/ Dedup(q) \/ CountCall(q) \/ ExpireRate(q) \/ Fail(q)
        PROVE  FailureInv'
    <2>1. UNCHANGED <<now, failures>>
      BY <1>6 DEF CheckTimestamp, StoreNonce, Redeem, VerifyProof, Dedup, CountCall,
                  ExpireRate, Fail, Others, keys
    <2>2. at' = at \/ \E step \in Steps \ {"record"} : at' = [at EXCEPT ![q] = step]
      BY <1>6 DEF CheckTimestamp, StoreNonce, Redeem, VerifyProof, Dedup, CountCall,
                  ExpireRate, Fail, Pass, Goto, Steps, Ended
    <2>3. Recording' \subseteq Recording
      BY <2>2 DEF TypeOK, Recording
    <2> QED  BY <1>5, <2>1, <2>3
  <1>7. ASSUME NEW n \in Nonces, Sign(n)  PROVE FailureInv'
    BY <1>5, <1>7 DEF Sign, Recording, keys
  <1>8. ASSUME NEW c \in Challenges, Issue(c)  PROVE FailureInv'
    BY <1>5, <1>8 DEF Issue, Recording
  <1>9. ASSUME Tick  PROVE FailureInv'
    <2>1. Recording' = Recording
      BY <1>9 DEF Tick, Recording
    <2>2. Count' <= Count
      BY <1>9, <1>0 DEF TypeOK, Tick, Count, Live, keys
    <2> QED  BY <1>2, <2>1, <2>2
  <1>10. ASSUME UNCHANGED vars  PROVE FailureInv'
    BY <1>5, <1>10 DEF vars, Recording, keys
  <1> QED  BY <1>3, <1>4, <1>6, <1>7, <1>8, <1>9, <1>10 DEF Next

-----------------------------------------------------------------------------
Pending == \E r \in Requests : at[r] = "expire"

(* The last m passes are of the window that rate counts: no more than its  *)
(* count, nor the limit, and one less while the first call has yet to pass.*)
(* The passes before it came a whole window before its end, those before   *)
(* the window before it a whole window ago.                                *)
InWindow(m) ==
  /\ m <= Len(passed) /\ m <= RateLimit /\ m <= rate.count
  /\ Pending => m < RateLimit /\ m < rate.count
  /\ rate.expires # Forever =>
       \A i \in 1..Len(passed) : i <= Len(passed) - m => passed[i] + RateWindow <= rate.expires
  /\ \A i \in 1..Len(passed) : i <= Len(passed) - m - RateLimit => passed[i] + RateWindow <= now

PassesSpread ==
  \A i \in 1..(Len(passed) - 2 * RateLimit) :
    passed[i + 2 * RateLimit] - passed[i] >= RateWindow

RateInv ==
  /\ Pending => rate.expires = Forever
  /\ \A r, s \in Requests : at[r] = "expire" /\ at[s] = "expire" => r = s
  /\ \A i \in 1..Len(passed) : passed[i] <= now
  /\ \E m \in Nat : InWindow(m)
  /\ PassesSpread

(* A pass now comes a window after the pass twice the limit before it.     *)
LEMMA PassSpread ==
  ASSUME TypeOK, RateInv, NEW m \in Nat, InWindow(m), m < RateLimit,
         passed' = Append(passed, now), UNCHANGED now
  PROVE  /\ Len(passed') = Len(passed) + 1
         /\ \A i \in 1..Len(passed) : passed'[i] = passed[i]
         /\ passed'[Len(passed) + 1] = now
         /\ \A i \in 1..Len(passed') : passed'[i] <= now
         /\ \A i \in 1..Len(passed') :
              i <= Len(passed') - (m + 1) - RateLimit => passed'[i] + RateWindow <= now
         /\ PassesSpread'
  <1>1. /\ passed \in Seq(0..MaxTime) /\ now \in 0..MaxTime /\ Len(passed) \in Nat
        /\ \A i \in 1..Len(passed) : passed[i] \in Int
    BY ElementOfSeq, LenProperties, Durations DEF TypeOK
  <1>2. /\ Len(passed') = Len(passed) + 1
        /\ \A i \in 1..Len(passed) : passed'[i] = passed[i]
        /\ passed'[Len(passed) + 1] = now
    BY <1>1, AppendProperties
  <1>3. /\ RateLimit \in Nat /\ RateLimit > 0 /\ RateWindow \in Nat
    BY Durations
  <1>4. \A i \in 1..Len(passed') : passed'[i] <= now
    BY <1>1, <1>2, <1>3 DEF RateInv
  <1>5. \A i \in 1..Len(passed) :
          i <= Len(passed) - m - RateLimit => passed[i] + RateWindow <= now
    BY DEF InWindow
  <1>6. ASSUME NEW i \in 1..Len(passed'), i <= Len(passed') - (m + 1) - RateLimit
        PROVE  passed'[i] + RateWindow <= now
    BY <1>1, <1>2, <1>3, <1>5, <1>6
  <1>7. ASSUME NEW i \in 1..(Len(passed') - 2 * RateLimit)
        PROVE  passed'[i + 2 * RateLimit] - passed'[i] >= RateWindow
    <2>1. i \in 1..Len(passed) /\ passed'[i] = passed[i]
      BY <1>1, <1>2, <1>3, <1>7
    <2>2. CASE i + 2 * RateLimit <= Len(passed)
      <3>1. i + 2 * RateLimit \in 1..Len(passed)
        BY <1>1, <1>3, <2>1, <2>2
      <3>2. passed'[i + 2 * RateLimit] = passed[i + 2 * RateLimit]
        BY <1>2, <3>1
      <3>3. i \in 1..(Len(passed) - 2 * RateLimit)
        BY <1>1, <1>3, <2>1, <2>2
      <3> QED  BY <2>1, <3>2, <3>3 DEF RateInv, PassesSpread
    <2>3. CASE i + 2 * RateLimit > Len(passed)
      <3>1. i + 2 * RateLimit = Len(passed) + 1
        BY <1>1, <1>2, <1>3, <2>1, <2>3, <1>7, SMTT(30)
      <3>2. i <= Len(passed) - m - RateLimit
        BY <1>1, <1>3, <2>1, <3>1
      <3>3. passed[i] + RateWindow <= now
        BY <1>5, <2>1, <3>2
      <3>4. passed[i] \in Int
        BY <1>1, <2>1
      <3> QED  BY <1>1, <1>2, <1>3, <2>1, <3>1, <3>3, <3>4
    <2> QED  BY <1>1, <1>3, <2>1, <2>2, <2>3, SMTT(30)
  <1> QED  BY <1>2, <1>4, <1>6, <1>7 DEF PassesSpread

(* Steps of other requests, and time, leave the windows as they are.       *)
LEMMA RateUnmoved ==
  ASSUME TypeOK, RateInv, UNCHANGED <<rate, passed>>, now' \in Int, now <= now',
         \A r \in Requests : at'[r] = "expire" => at[r] = "expire"
  PROVE  RateInv'
  <1>1. /\ now \in Int /\ RateWindow \in Int
        /\ \A i \in 1..Len(passed) : passed[i] \in Int
    BY ElementOfSeq, Durations DEF TypeOK
  <1>2. Pending' => Pending
    BY DEF Pending
  <1>3. PICK m \in Nat : InWindow(m)
    BY DEF RateInv
  <1>4. \A i \in 1..Len(passed) :
          i <= Len(passed) - m - RateLimit => passed[i] + RateWindow <= now'
    BY <1>1, <1>3 DEF InWindow
  <1>5. InWindow(m)'
    BY <1>2, <1>3, <1>4 DEF InWindow
  <1>6. \A i \in 1..Len(passed) : passed[i] <= now'
    BY <1>1 DEF RateInv
  <1>7. PassesSpread'
    BY DEF RateInv, PassesSpread
  <1>8. \A r, s \in Requests : at'[r] = "expire" /\ at'[s] = "expire" => r = s
    BY DEF RateInv
  <1>9. Pending' => rate'.expires = Forever
    BY <1>2 DEF RateInv
  <1> QED  BY <1>3, <1>5, <1>6, <1>7, <1>8, <1>9 DEF RateInv

(* INCR: a new window, one more pass of this one, or a refusal.            *)
LEMMA CountCallStep ==
  ASSUME TypeOK, RateInv, NEW q \in Requests, CountCall(q)  PROVE RateInv'
  <1> DEFINE count == IF Live(rate.expires) THEN rate.count + 1 ELSE 1
  <1>1. /\ now \in 0..MaxTime /\ rate.count \in Nat /\ rate.expires \in Nat
        /\ Len(passed) \in Nat /\ \A i \in 1..Len(passed) : passed[i] \in Int
        /\ RateLimit \in Nat /\ RateLimit > 0 /\ RateWindow \in Nat /\ MaxTime \in Nat
    BY ElementOfSeq, LenProperties, Durations DEF TypeOK
  <1>2. /\ at[q] = "new" /\ now' = now
        /\ rate' = [count |-> count, expires |-> IF count = 1 THEN Forever ELSE rate.expires]
    BY DEF CountCall, Others
  <1>3. PICK m \in Nat : InWindow(m)
    BY DEF RateInv
  <1>4. Live(rate.expires) \/ rate.expires # Forever
    BY <1>1 DEF Live, Forever
  <1>5. CASE count = 1
    <2>1. at' = [at EXCEPT ![q] = "expire"] /\ passed' = passed
      BY <1>5 DEF CountCall, Goto
    <2>2. ~Pending
      BY <1>1, <1>3, <1>4, <1>5 DEF RateInv, InWindow
    <2>3. \A i \in 1..Len(passed) : i <= Len(passed) - RateLimit => passed[i] + RateWindow <= now
      <3>1. CASE Live(rate.expires)
        <4>1. m = 0
          BY <1>1, <1>3, <1>5, <3>1 DEF InWindow
        <4> QED  BY <1>1, <1>3, <4>1 DEF InWindow
      <3>2. CASE ~Live(rate.expires)
        <4>1. rate.expires <= now /\ rate.expires # Forever /\ m <= RateLimit
          BY <1>1, <1>3, <1>4, <3>2 DEF Live, InWindow
        <4>2. ASSUME NEW i \in 1..Len(passed), i <= Len(passed) - RateLimit
              PROVE  passed[i] + RateWindow <= now
          <5>1. i <= Len(passed) - m
            BY <1>1, <4>1, <4>2
          <5>2. passed[i] + RateWindow <= rate.expires
            BY <1>3, <4>1, <5>1 DEF InWindow
          <5> QED  BY <1>1, <4>1, <5>2
        <4> QED  BY <4>2
      <3> QED  BY <3>1, <3>2
    <2>4. rate'.count = 1 /\ rate'.expires = Forever
      BY <1>2, <1>5
    <2>5. InWindow(0)'
      BY <1>1, <1>2, <2>1, <2>3, <2>4 DEF InWindow
    <2>6. \A r \in Requests : at'[r] = "expire" => r = q
      BY <2>1, <2>2 DEF TypeOK, Pending
    <2> QED  BY <1>2, <2>1, <2>4, <2>5, <2>6 DEF RateInv, PassesSpread
  <1>6. CASE count # 1 /\ WithinRate(count)
    <2>1. at' = [at EXCEPT ![q] = "new"] /\ passed' = Append(passed, now)
      BY <1>6 DEF CountCall, Pass, Goto
    <2>2. /\ count = rate.count + 1 /\ rate.count < RateLimit
          /\ rate'.count = count /\ rate'.expires = rate.expires
      BY <1>1, <1>2, <1>6 DEF WithinRate
    <2>3. m < RateLimit /\ m + 1 <= count /\ (Pending => m + 1 < RateLimit /\ m + 1 < count)
      BY <1>1, <1>3, <2>2 DEF InWindow
    <2>4. at'[q] = "new" /\ \A r \in Requests : at'[r] = "expire" => at[r] = "expire"
      BY <2>1 DEF TypeOK
    <2>5. Pending' => Pending
      BY <2>4 DEF Pending
    <2>6. /\ Len(passed') = Len(passed) + 1
          /\ \A i \in 1..Len(passed) : passed'[i] = passed[i]
          /\ \A i \in 1..Len(passed') : passed'[i] <= now
          /\ \A i \in 1..Len(passed') :
               i <= Len(passed') - (m + 1) - RateLimit => passed'[i] + RateWindow <= now
          /\ PassesSpread'
      BY <1>2, <1>3, <2>1, <2>3, PassSpread
    <2>7. ASSUME rate.expires # Forever, NEW i \in 1..Len(passed'), i <= Len(passed') - (m + 1)
          PROVE  passed'[i] + RateWindow <= rate.expires
      <3>1. i \in 1..Len(passed) /\ i <= Len(passed) - m
        BY <1>1, <2>6, <2>7
      <3> QED  BY <1>3, <2>6, <2>7, <3>1 DEF InWindow
    <2>8. m + 1 \in Nat /\ m + 1 <= Len(passed') /\ m + 1 <= RateLimit
      BY <1>1, <1>3, <2>3, <2>6 DEF InWindow
    <2>9. InWindow(m + 1)'
      BY <1>2, <2>2, <2>3, <2>5, <2>6, <2>7, <2>8 DEF InWindow
    <2> QED  BY <1>2, <2>2, <2>4, <2>5, <2>6, <2>8, <2>9 DEF RateInv
  <1>7. CASE count # 1 /\ ~WithinRate(count)
    <2>1. UNCHANGED <<at, passed>>
      BY <1>7 DEF CountCall
    <2>2. rate'.count = rate.count + 1 /\ rate'.expires = rate.expires
      BY <1>2, <1>7
    <2>3. Pending' <=> Pending
      BY <2>1 DEF Pending
    <2>4. m <= rate.count + 1 /\ (m < rate.count => m < rate.count + 1)
      BY <1>1, <1>3 DEF InWindow
    <2>5. InWindow(m)'
      BY <1>2, <1>3, <2>1, <2>2, <2>3, <2>4 DEF InWindow
    <2> QED  BY <1>2, <2>1, <2>2, <2>3, <2>5 DEF RateInv, PassesSpread
  <1> QED  BY <1>5, <1>6, <1>7

(* EXPIRE: the first call of the window passes, and its end is known.      *)
LEMMA ExpireStep ==
  ASSUME TypeOK, RateInv, NEW q \in Requests, ExpireRate(q)  PROVE RateInv'
  <1>1. /\ now \in Int /\ rate.count \in Nat /\ Len(passed) \in Nat
        /\ \A i \in 1..Len(passed) : passed[i] \in Int
        /\ RateLimit \in Nat /\ RateWindow \in Nat
    BY ElementOfSeq, LenProperties, Durations DEF TypeOK
  <1>2. /\ at[q] = "expire" /\ now' = now
        /\ rate'.count = rate.count /\ rate'.expires = now + RateWindow
        /\ at' = [at EXCEPT ![q] = "new"] /\ passed' = Append(passed, now)
    BY DEF ExpireRate, Pass, Goto, Others
  <1>3. Pending
    BY <1>2 DEF Pending
  <1>4. PICK m \in Nat : InWindow(m)
    BY DEF RateInv
  <1>5. m < RateLimit /\ m < rate.count /\ m <= Len(passed)
    BY <1>3, <1>4 DEF InWindow
  <1>6. \A r \in Requests : at'[r] # "expire"
    BY <1>2 DEF TypeOK, RateInv
  <1>7. ~Pending'
    BY <1>6 DEF Pending
  <1>8. /\ Len(passed') = Len(passed) + 1
        /\ \A i \in 1..Len(passed) : passed'[i] = passed[i]
        /\ \A i \in 1..Len(passed') : passed'[i] <= now
        /\ \A i \in 1..Len(passed') :
             i <= Len(passed') - (m + 1) - RateLimit => passed'[i] + RateWindow <= now
        /\ PassesSpread'
    BY <1>2, <1>4, <1>5, PassSpread
  <1>9. ASSUME NEW i \in 1..Len(passed'), i <= Len(passed') - (m + 1)
        PROVE  passed'[i] + RateWindow <= now + RateWindow
    <2>1. i \in 1..Len(passed)
      BY <1>1, <1>8, <1>9
    <2> QED  BY <1>1, <1>8, <2>1
  <1>10. m + 1 \in Nat /\ m + 1 <= Len(passed') /\ m + 1 <= RateLimit /\ m + 1 <= rate.count
    BY <1>1, <1>5, <1>8
  <1>11. InWindow(m + 1)'
    BY <1>2, <1>7, <1>8, <1>9, <1>10 DEF InWindow
  <1> QED  BY <1>2, <1>6, <1>7, <1>8, <1>10, <1>11 DEF RateInv

(* Every step keeps the windows.                                           *)
LEMMA RateStep ==
  ASSUME TypeOK, RateInv, [Next]_vars  PROVE RateInv'
  <1>0. now \in Int /\ now <= now
    BY Durations DEF TypeOK
  <1>1. ASSUME NEW q \in Requests, CountCall(q) \/ ExpireRate(q)  PROVE RateInv'
    BY <1>1, CountCallStep, ExpireStep
  <1>2. ASSUME NEW q \in Requests,
               \/ CheckTimestamp(q) \/ StoreNonce(q) \/ Redeem(q) \/ VerifyProof(q)
               \/ Dedup(q) \/ CheckSource(q) \/ RecordFailure(q) \/ Fail(q)
        PROVE  RateInv'
    <2>1. UNCHANGED <<now, rate, passed>>
      BY <1>2 DEF CheckTimestamp, StoreNonce, Redeem, VerifyProof, Dedup, CheckSource,
                  RecordFailure, Fail, keys, paced
    <2>2. \E step \in Steps \ {"expire"} : at' = [at EXCEPT ![q] = step]
      BY <1>2 DEF CheckTimestamp, StoreNonce, Redeem, VerifyProof, Dedup, CheckSource,
                  RecordFailure, Fail, Goto, Steps, Ended
    <2>3. \A r \in Requests : at'[r] = "expire" => at[r] = "expire"
      BY <2>2 DEF TypeOK
    <2> QED  BY <1>0, <2>1, <2>3, RateUnmoved
  <1>3. ASSUME UNCHANGED <<now, at, rate, passed>>  PROVE RateInv'
    BY <1>0, <1>3, RateUnmoved
  <1>4. ASSUME NEW n \in Nonces, Sign(n)  PROVE RateInv'
    BY <1>3, <1>4 DEF Sign, keys, paced
  <1>5. ASSUME NEW c \in Challenges, Issue(c)  PROVE RateInv'
    BY <1>3, <1>5 DEF Issue, paced
  <1>6. ASSUME Tick  PROVE RateInv'
    <2>1. now' \in Int /\ now <= now' /\ UNCHANGED <<at, rate, passed>>
      BY <1>6, Durations DEF TypeOK, Tick, keys, paced
    <2> QED  BY <2>1, RateUnmoved
  <1>7. ASSUME UNCHANGED vars  PROVE RateInv'
    BY <1>3, <1>7 DEF vars, keys, paced
  <1> QED  BY <1>1, <1>2, <1>4, <1>5, <1>6, <1>7 DEF Next

(* No burst of wrong keys exceeds the limit by more than the requests that *)
(* were under way (resolve_identity_tracked), and no window of the length  *)
(* of check_rate_limit's holds more than twice its limit of passes.        *)
THEOREM BurstsBounded == Spec => []BurstBounded
  <1>1. Init => FailureInv
    <2> SUFFICES ASSUME Init  PROVE FailureInv
      OBVIOUS
    <2>1. Count = 0
      BY DEF Init, Count
    <2> QED  BY <2>1, SizeFacts, Durations DEF FailureInv
  <1>2. Init => RateInv
    <2> SUFFICES ASSUME Init  PROVE RateInv
      OBVIOUS
    <2>1. Len(passed) = 0 /\ rate.count = 0 /\ ~Pending
      BY EmptySeq DEF Init, Pending
    <2>2. InWindow(0)
      BY <2>1, Durations DEF InWindow
    <2>3. PassesSpread
      BY <2>1, Durations DEF PassesSpread
    <2> QED  BY <2>1, <2>2, <2>3 DEF RateInv, Pending
  <1>3. TypeOK /\ TypeOK' /\ FailureInv /\ [Next]_vars => FailureInv'
    BY FailureStep
  <1>4. TypeOK /\ RateInv /\ [Next]_vars => RateInv'
    BY RateStep
  <1>5. TypeOK /\ FailureInv /\ RateInv => BurstBounded
    <2> SUFFICES ASSUME TypeOK, FailureInv, RateInv  PROVE BurstBounded
      OBVIOUS
    <2>1. Count <= FailureLimit + Cardinality(Requests)
      BY SizeFacts, CountType, Durations DEF FailureInv
    <2> QED  BY <2>1 DEF RateInv, PassesSpread, BurstBounded
  <1> QED  BY <1>1, <1>2, <1>3, <1>4, <1>5, TypeCorrect, PTL DEF Spec
=============================================================================
