---------------------------- MODULE Calls_proofs ----------------------------
(***************************************************************************)
(* What a Core promises about the calls it takes, for any number of them,  *)
(* of callers and of replicas: its idempotency interceptor, when no        *)
(* handler outlives StaleAfter, its rate limiter, and the bundle it serves *)
(* to browsers; about the calls it makes to the policy and the parties     *)
(* services and to the Banco Central; and about the context that follows   *)
(* from Core to Core.                                                      *)
(***************************************************************************)
EXTENDS Idempotency, RateLimit, Bundle, Neighbours, Tracing, Rates,
        FiniteSetTheorems, NaturalsInduction, WellFoundedInduction, TLAPS

-----------------------------------------------------------------------------
(* The idempotency interceptor.                                              *)

(* No call has started and the key has no row.                             *)
LEMMA ClaimInvInit == ASSUME Slow = FALSE PROVE Init => ClaimInv
BY IdempotencyAssumption
   DEF Init, ClaimInv, TypeOK, OneOwner, ClaimIsOwned, OutcomeIsReal, RowIsOwn,
       RecordedIsKept, ReplayIsOwn, Owners, NoRow, Row, Code

(* Recording leaves the row as it was, or completes it with c's response   *)
(* under the hash c claimed it with.                                       *)
LEMMA RecordedRow ==
  ASSUME Slow = FALSE, ClaimInv, NEW c \in Call, Record(c)
  PROVE  \/ UNCHANGED <<row, recorded>>
         \/ /\ row' = [status |-> "completed", hash |-> request[c], resp |-> c, age |-> "fresh"]
            /\ recorded' = recorded \cup {c}
<1>1. c \in Owners BY DEF Record, Owners
<1>2. row.hash = request[c] /\ row.age = "fresh" BY <1>1 DEF ClaimInv, ClaimIsOwned
<1>3. CASE Stored(c) /\ Exists
  <2>1. row' = [row EXCEPT !.status = "completed", !.resp = c] /\ recorded' = recorded \cup {c}
    BY <1>3 DEF Stored
  <2>2. row = [status |-> row.status, hash |-> row.hash, resp |-> row.resp, age |-> row.age]
    BY DEF ClaimInv, TypeOK, Row
  <2> QED BY <1>2, <2>1, <2>2
<1>4. CASE Stored(c) /\ ~ Exists BY <1>4 DEF Stored
<1> QED BY <1>3, <1>4 DEF Record

(* What every step keeps, one conjunct of the invariant at a time.         *)
LEMMA TypeStep == ASSUME Slow = FALSE, ClaimInv, [Next]_vars PROVE TypeOK'
<1> USE IdempotencyAssumption
    DEF ClaimInv, TypeOK, Row, Code, NoRow, Claimed, Goto, Returns, ReturnsResponse,
        TakesEffect, NoEffect
<1>1. ASSUME NEW c \in Call, Run(c) PROVE TypeOK'
  <2>1. CASE Insert(c) BY <2>1 DEF Insert, Exists
  <2>2. CASE Takeover(c) BY <2>2 DEF Takeover, Exists
  <2>3. CASE Select(c) BY <2>3 DEF Select, Exists
  <2>4. CASE Unreachable(c) BY <2>4 DEF Unreachable, Exists
  <2>5. CASE HandlerReturns(c) BY <2>5 DEF HandlerReturns
  <2>6. CASE HandlerFails(c) BY <2>6 DEF HandlerFails
  <2>7. CASE Record(c)
    <3>0. c \in effects BY <2>7 DEF Record, OutcomeIsReal
    <3>1. CASE UNCHANGED <<row, recorded>> BY <2>7, <3>0, <3>1 DEF Record, ReturnsResponse
    <3>2. CASE /\ row' = [status |-> "completed", hash |-> request[c], resp |-> c, age |-> "fresh"]
               /\ recorded' = recorded \cup {c}
      BY <2>7, <3>0, <3>2 DEF Record, ReturnsResponse
    <3> QED BY <2>7, <3>1, <3>2, RecordedRow
  <2>8. CASE Release(c) BY <2>8 DEF Release
  <2>9. CASE Crash(c) BY <2>9 DEF Crash
  <2> QED BY <1>1, <2>1, <2>2, <2>3, <2>4, <2>5, <2>6, <2>7, <2>8, <2>9 DEF Run
<1>2. CASE GoStale BY <1>2 DEF GoStale, Exists
<1>3. CASE Expire BY <1>3 DEF Expire
<1>4. CASE Cleanup BY <1>4 DEF Cleanup
<1>5. CASE UNCHANGED vars BY <1>5 DEF vars
<1> QED BY <1>1, <1>2, <1>3, <1>4, <1>5 DEF Next

(* A claim is taken only when nobody owns the key.                         *)
LEMMA OwnerStep == ASSUME Slow = FALSE, ClaimInv, [Next]_vars PROVE (OneOwner /\ ClaimIsOwned)'
<1> USE IdempotencyAssumption DEF ClaimInv, TypeOK, Row, Code, NoRow, Goto, Owners,
               OneOwner, ClaimIsOwned
<1>1. ASSUME NEW c \in Call, Run(c) PROVE (OneOwner /\ ClaimIsOwned)'
  <2>1. CASE Insert(c) BY <2>1 DEF Insert, Exists, Claimed
  <2>2. CASE Takeover(c) BY <2>2 DEF Takeover, Exists, Forsaken, Claimed
  <2>3. CASE Select(c) BY <2>3 DEF Select, Exists, Returns, ReturnsResponse
  <2>4. CASE Unreachable(c) BY <2>4 DEF Unreachable, Exists, Forsaken, Claimed, Returns
  <2>5. CASE HandlerReturns(c) BY <2>5 DEF HandlerReturns, TakesEffect
  <2>6. CASE HandlerFails(c) BY <2>6 DEF HandlerFails, TakesEffect, NoEffect
  <2>7. CASE Record(c) BY <2>7 DEF Record, Stored, Exists, ReturnsResponse
  <2>8. CASE Release(c) BY <2>8 DEF Release, Returns
  <2>9. CASE Crash(c) BY <2>9 DEF Crash, TakesEffect, NoEffect
  <2> QED BY <1>1, <2>1, <2>2, <2>3, <2>4, <2>5, <2>6, <2>7, <2>8, <2>9 DEF Run
<1>2. CASE GoStale BY <1>2 DEF GoStale, Exists
<1>3. CASE Expire BY <1>3 DEF Expire
<1>4. CASE Cleanup BY <1>4 DEF Cleanup
<1>5. CASE UNCHANGED vars BY <1>5 DEF vars
<1> QED BY <1>1, <1>2, <1>3, <1>4, <1>5 DEF Next

(* What reaches the row took effect, in a call that is over.               *)
LEMMA OutcomeStep == ASSUME Slow = FALSE, ClaimInv, [Next]_vars PROVE (OutcomeIsReal /\ RowIsOwn)'
<1> USE IdempotencyAssumption DEF ClaimInv, TypeOK, Row, Code, NoRow, Goto, Owners,
               OneOwner, ClaimIsOwned, OutcomeIsReal, RowIsOwn
<1>1. ASSUME NEW c \in Call, Run(c) PROVE (OutcomeIsReal /\ RowIsOwn)'
  <2>1. CASE Insert(c) BY <2>1 DEF Insert, Exists, Claimed
  <2>2. CASE Takeover(c) BY <2>2 DEF Takeover, Exists, Forsaken, Claimed
  <2>3. CASE Select(c) BY <2>3 DEF Select, Exists, Returns, ReturnsResponse
  <2>4. CASE Unreachable(c) BY <2>4 DEF Unreachable, Exists, Forsaken, Claimed, Returns
  <2>5. CASE HandlerReturns(c) BY <2>5 DEF HandlerReturns, TakesEffect
  <2>6. CASE HandlerFails(c) BY <2>6 DEF HandlerFails, TakesEffect, NoEffect
  <2>7. CASE Record(c)
    <3>1. CASE UNCHANGED <<row, recorded>> BY <2>7, <3>1 DEF Record, ReturnsResponse
    <3>2. CASE /\ row' = [status |-> "completed", hash |-> request[c], resp |-> c, age |-> "fresh"]
               /\ recorded' = recorded \cup {c}
      BY <2>7, <3>2 DEF Record, ReturnsResponse
    <3> QED BY <2>7, <3>1, <3>2, RecordedRow
  <2>8. CASE Release(c) BY <2>8 DEF Release, Returns
  <2>9. CASE Crash(c) BY <2>9 DEF Crash, TakesEffect, NoEffect
  <2> QED BY <1>1, <2>1, <2>2, <2>3, <2>4, <2>5, <2>6, <2>7, <2>8, <2>9 DEF Run
<1>2. CASE GoStale BY <1>2 DEF GoStale, Exists
<1>3. CASE Expire BY <1>3 DEF Expire
<1>4. CASE Cleanup BY <1>4 DEF Cleanup
<1>5. CASE UNCHANGED vars BY <1>5 DEF vars
<1> QED BY <1>1, <1>2, <1>3, <1>4, <1>5 DEF Next

(* A response of this turn stays in the row.                               *)
LEMMA KeptStep == ASSUME Slow = FALSE, ClaimInv, [Next]_vars PROVE RecordedIsKept'
<1> USE IdempotencyAssumption DEF ClaimInv, TypeOK, Row, Code, NoRow, Goto, Owners,
               OneOwner, ClaimIsOwned, OutcomeIsReal, RecordedIsKept
<1>1. ASSUME NEW c \in Call, Run(c) PROVE RecordedIsKept'
  <2>1. CASE Insert(c) BY <2>1 DEF Insert, Exists, Claimed
  <2>2. CASE Takeover(c) BY <2>2 DEF Takeover, Exists, Forsaken, Claimed
  <2>3. CASE Select(c) BY <2>3 DEF Select, Exists, Returns, ReturnsResponse
  <2>4. CASE Unreachable(c) BY <2>4 DEF Unreachable, Exists, Forsaken, Claimed, Returns
  <2>5. CASE HandlerReturns(c) BY <2>5 DEF HandlerReturns, TakesEffect
  <2>6. CASE HandlerFails(c) BY <2>6 DEF HandlerFails, TakesEffect, NoEffect
  <2>7. CASE Record(c)
    <3>1. CASE UNCHANGED <<row, recorded>> BY <2>7, <3>1 DEF Record, ReturnsResponse
    <3>2. CASE /\ row' = [status |-> "completed", hash |-> request[c], resp |-> c, age |-> "fresh"]
               /\ recorded' = recorded \cup {c}
      BY <2>7, <3>2 DEF Record, ReturnsResponse
    <3> QED BY <2>7, <3>1, <3>2, RecordedRow
  <2>8. CASE Release(c) BY <2>8 DEF Release, Returns
  <2>9. CASE Crash(c) BY <2>9 DEF Crash, TakesEffect, NoEffect
  <2> QED BY <1>1, <2>1, <2>2, <2>3, <2>4, <2>5, <2>6, <2>7, <2>8, <2>9 DEF Run
<1>2. CASE GoStale BY <1>2 DEF GoStale, Exists
<1>3. CASE Expire BY <1>3 DEF Expire
<1>4. CASE Cleanup BY <1>4 DEF Cleanup
<1>5. CASE UNCHANGED vars BY <1>5 DEF vars
<1> QED BY <1>1, <1>2, <1>3, <1>4, <1>5 DEF Next

(* A call returns a response to its own request.                           *)
LEMMA ReplayStep == ASSUME Slow = FALSE, ClaimInv, [Next]_vars PROVE ReplayIsOwn'
<1> USE IdempotencyAssumption DEF ClaimInv, TypeOK, Row, Code, NoRow, Goto,
               RowIsOwn, ReplayIsOwn
<1>1. ASSUME NEW c \in Call, Run(c) PROVE ReplayIsOwn'
  <2>1. CASE Insert(c) BY <2>1 DEF Insert, Exists, Claimed
  <2>2. CASE Takeover(c) BY <2>2 DEF Takeover, Exists, Forsaken, Claimed
  <2>3. CASE Select(c) BY <2>3 DEF Select, Exists, Returns, ReturnsResponse
  <2>4. CASE Unreachable(c) BY <2>4 DEF Unreachable, Exists, Forsaken, Claimed, Returns
  <2>5. CASE HandlerReturns(c) BY <2>5 DEF HandlerReturns, TakesEffect
  <2>6. CASE HandlerFails(c) BY <2>6 DEF HandlerFails, TakesEffect, NoEffect
  <2>7. CASE Record(c)
    <3>1. CASE UNCHANGED <<row, recorded>> BY <2>7, <3>1 DEF Record, ReturnsResponse
    <3>2. CASE /\ row' = [status |-> "completed", hash |-> request[c], resp |-> c, age |-> "fresh"]
               /\ recorded' = recorded \cup {c}
      BY <2>7, <3>2 DEF Record, ReturnsResponse
    <3> QED BY <2>7, <3>1, <3>2, RecordedRow
  <2>8. CASE Release(c) BY <2>8 DEF Release, Returns
  <2>9. CASE Crash(c) BY <2>9 DEF Crash, TakesEffect, NoEffect
  <2> QED BY <1>1, <2>1, <2>2, <2>3, <2>4, <2>5, <2>6, <2>7, <2>8, <2>9 DEF Run
<1>2. CASE GoStale BY <1>2 DEF GoStale, Exists
<1>3. CASE Expire BY <1>3 DEF Expire
<1>4. CASE Cleanup BY <1>4 DEF Cleanup
<1>5. CASE UNCHANGED vars BY <1>5 DEF vars
<1> QED BY <1>1, <1>2, <1>3, <1>4, <1>5 DEF Next

\* Handlers that keep to StaleAfter never make the inductive invariant false.
THEOREM ClaimInvHolds == ASSUME Slow = FALSE PROVE Spec => []ClaimInv
<1>1. Init => ClaimInv BY ClaimInvInit
<1>2. ClaimInv /\ [Next]_vars => ClaimInv'
  BY TypeStep, OwnerStep, OutcomeStep, KeptStep, ReplayStep DEF ClaimInv
<1> QED BY <1>1, <1>2, PTL DEF Spec

\* A key's handler does not run again within the TTL once its response is
\* recorded (Interceptor.Unary).
THEOREM NoRerunHolds == ASSUME Slow = FALSE PROVE Spec => []NoRerun
<1>1. ClaimInv => NoRerun
  BY DEF ClaimInv, ClaimIsOwned, RecordedIsKept, NoRerun, Owners
<1> QED BY <1>1, ClaimInvHolds, PTL

\* No call gets the response to another request (requestHash).
THEOREM ReplayIsOwnHolds == ASSUME Slow = FALSE PROVE Spec => []ReplayIsOwn
<1>1. ClaimInv => ReplayIsOwn BY DEF ClaimInv
<1> QED BY <1>1, ClaimInvHolds, PTL

-----------------------------------------------------------------------------
(* The rate limiter: tokens and the calls they let through.                  *)

\* A limited holder has a rate and a burst it can use.
LEMMA LimitsOK ==
  ASSUME NEW k \in Holders
  PROVE  LimitFor(k.type).rate \in Int /\ Burst(k) \in Nat \ {0}
<1>1. LimitFor(k.type) \in {UserLimit, ServiceLimit, AgentLimit}
  BY DEF LimitFor
<1> QED
  BY <1>1, LimitAssumption DEF Burst

\* What a rate earns in two spans it earns in both together.
LEMMA RateAdds ==
  ASSUME NEW rate \in Int, NEW a \in Int, NEW b \in Int
  PROVE  rate * (a + b) = rate * a + rate * b
OBVIOUS

\* A rate above zero earns no less in a longer time.
LEMMA RateGrows ==
  ASSUME NEW rate \in Nat, NEW a \in Int, NEW b \in Int, a <= b
  PROVE  rate * a <= rate * b
<1>1. rate * (b - a) >= 0
  OBVIOUS
<1>2. rate * b = rate * a + rate * (b - a)
  OBVIOUS
<1> QED
  BY <1>1, <1>2

LEMMA LimitInvInit == LimitInit => LimitInv
<1> SUFFICES ASSUME LimitInit PROVE LimitInv
  OBVIOUS
<1>1. LimitTypeOK
  BY DEF LimitInit, LimitTypeOK
<1>2. HandlingOK
  BY DEF LimitInit, HandlingOK, Awaited
<1>3. NobodyPaysForOthers /\ \A k \in Holders : Accounts(k)
  BY DEF LimitInit, NobodyPaysForOthers, Accounts
<1> QED
  BY <1>1, <1>2, <1>3 DEF LimitInv

\* A call's record says whose it is from its arrival to its end.
LEMMA CallOK ==
  ASSUME LimitTypeOK, NEW h \in Handlers
  PROVE  /\ handling[h].pc \in {"lookup", "clock"} =>
              /\ handling[h] \in [pc : {"lookup", "clock"}, holder : Holders]
              /\ handling[h].holder \in Holders
         /\ handling[h].pc = "take" =>
              /\ handling[h] \in [pc : {"take"}, holder : Holders, time : Nat]
              /\ handling[h].holder \in Holders /\ handling[h].time \in Nat
BY DEF LimitTypeOK, Awaited

\* An admitted call leaves the account of its bucket balanced ...
LEMMA AdmittedAccount ==
  ASSUME NEW rate \in Nat, NEW burst \in Nat, NEW had \in Nat, NEW count \in Nat,
         NEW last \in Nat, NEW shift \in Nat, NEW elapsed \in Nat, NEW back \in Nat, NEW time \in Nat,
         had + count <= burst + rate * (last + shift),
         time + back = last + elapsed
  PROVE  AtMost(burst, had + elapsed * rate) + count <= burst + rate * (time + (shift + back))
<1>1. time + (shift + back) = (last + shift) + elapsed
  OBVIOUS
<1>2. rate * (time + (shift + back)) = rate * (last + shift) + rate * elapsed
  BY <1>1, RateAdds
<1>3. rate * (time + (shift + back)) = rate * (last + shift) + elapsed * rate
  BY <1>2
<1>4. rate * (last + shift) \in Nat /\ elapsed * rate \in Nat
  OBVIOUS
<1>5. AtMost(burst, had + elapsed * rate) <= had + elapsed * rate
  BY <1>4 DEF AtMost
<1> HIDE DEF AtMost
<1>6. AtMost(burst, had + elapsed * rate) \in Nat
  BY <1>4 DEF AtMost
<1> QED
  BY <1>3, <1>4, <1>5, <1>6

\* ... and takes no more than what the bucket had.
LEMMA TokensLeft ==
  ASSUME NEW rate \in Nat, NEW burst \in Nat, NEW had \in Nat, NEW count \in Nat, NEW elapsed \in Nat,
         burst - count <= had
  PROVE  AtMost(burst, had + elapsed * rate) >= burst - count
<1>1. elapsed * rate \in Nat
  OBVIOUS
<1> QED
  BY <1>1 DEF AtMost


\* TakeToken keeps the account of the bucket, and refuses nobody early.
LEMMA TakeKeepsInv ==
  ASSUME LimitInv, NEW h \in Handlers, TakeToken(h)
  PROVE  LimitInv'
<1>1. PICK k \in Holders, time \in Nat :
        k = handling[h].holder /\ time = handling[h].time /\ handling[h].pc = "take"
  BY CallOK DEF TakeToken, LimitInv
<1> DEFINE bucket == buckets[k]
           rate == LimitFor(k.type).rate
           elapsed == IF time < bucket.last THEN 0 ELSE time - bucket.last
           back == IF time < bucket.last THEN bucket.last - time ELSE 0
           tokens == AtMost(Burst(k), bucket.tokens + elapsed * rate)
<1>3. Limited(k) /\ bucket # NoBucket /\ time <= now
  BY <1>1 DEF LimitInv, HandlingOK
<1>4. bucket.tokens \in Nat /\ bucket.last \in Nat
  BY <1>3 DEF LimitInv, LimitTypeOK
<1>5. rate \in Nat /\ Burst(k) \in Nat
  BY <1>3, LimitsOK DEF Limited
<1>6. elapsed \in Nat /\ back \in Nat /\ time + back = bucket.last + elapsed
  BY <1>4
<1>7. elapsed * rate \in Nat
  BY <1>5, <1>6
<1>8. tokens \in Nat
  BY <1>4, <1>5, <1>7 DEF AtMost
<1>9. \/ /\ tokens >= 1
         /\ buckets' = [buckets EXCEPT ![k] = [tokens |-> tokens - 1, last |-> time]]
         /\ passed' = [passed EXCEPT ![k] = @ + 1]
         /\ skew' = [skew EXCEPT ![k] = @ + back]
         /\ UNCHANGED refused
      \/ /\ ~ (tokens >= 1)
         /\ refused' = IF passed[k] < Burst(k) THEN refused \cup {k} ELSE refused
         /\ UNCHANGED <<buckets, passed, skew>>
  BY <1>1 DEF TakeToken, KeyOf
<1>10. /\ k \in Holders /\ tokens \in Nat /\ elapsed \in Nat /\ back \in Nat /\ time \in Nat
       /\ Limited(k) /\ buckets[k] # NoBucket /\ time <= now
       /\ time + back = buckets[k].last + elapsed
       /\ tokens = AtMost(Burst(k), buckets[k].tokens + elapsed * LimitFor(k.type).rate)
       /\ tokens >= 1 \/ tokens < 1
  BY <1>3, <1>6, <1>8
<1> HIDE DEF tokens, elapsed, back
<1>11. handling' = [handling EXCEPT ![h] = Awaited] /\ now' = now
  BY DEF TakeToken
<1>12. LimitTypeOK /\ HandlingOK /\ NobodyPaysForOthers /\ Accounts(k)
  BY <1>10 DEF LimitInv
<1>13. /\ LimitFor(k.type).rate \in Nat /\ Burst(k) \in Nat \ {0}
      /\ buckets[k].tokens \in Nat /\ buckets[k].last \in Nat
      /\ passed[k] \in Nat /\ skew[k] \in Nat
  BY <1>10, <1>12, LimitsOK DEF Limited, LimitTypeOK
<1>14. /\ buckets[k].tokens + passed[k] <= Burst(k) + LimitFor(k.type).rate * (buckets[k].last + skew[k])
      /\ Burst(k) - passed[k] <= buckets[k].tokens
  BY <1>10, <1>12 DEF Accounts
<1>15. tokens >= Burst(k) - passed[k]
  BY <1>10, <1>13, <1>14, TokensLeft
<1>16. tokens + passed[k] <= Burst(k) + LimitFor(k.type).rate * (time + (skew[k] + back))
  BY <1>10, <1>13, <1>14, AdmittedAccount
<1>17. buckets'[k] # NoBucket /\ \A j \in Holders : buckets[j] # NoBucket => buckets'[j] # NoBucket
  BY <1>9, <1>10, <1>12, LimitAssumption DEF LimitTypeOK
<1>18. HandlingOK'
  <2>1. handling'[h] = Awaited /\ \A g \in Handlers \ {h} : handling'[g] = handling[g]
    BY <1>11, <1>12 DEF LimitTypeOK
  <2>2. ASSUME NEW g \in Handlers \ {h}, handling[g].pc \in {"clock", "take"}
        PROVE  buckets'[handling[g].holder] # NoBucket
    BY <1>12, <1>17, <2>2, CallOK DEF HandlingOK
  <2> QED
    BY <1>11, <1>12, <2>1, <2>2 DEF HandlingOK, Awaited
<1>19. CASE tokens >= 1
  <2>1. /\ buckets' = [buckets EXCEPT ![k] = [tokens |-> tokens - 1, last |-> time]]
        /\ passed' = [passed EXCEPT ![k] = @ + 1]
        /\ skew' = [skew EXCEPT ![k] = @ + back]
        /\ refused' = refused
    BY <1>9, <1>19
  <2>2. LimitTypeOK'
    BY <1>10, <1>11, <1>12, <1>19, <2>1 DEF LimitTypeOK
  <2>3. Accounts(k)'
    <3>1. buckets'[k].tokens = tokens - 1 /\ buckets'[k].last = time
          /\ passed'[k] = passed[k] + 1 /\ skew'[k] = skew[k] + back
      BY <1>12, <2>1 DEF LimitTypeOK
    <3> QED
      BY <1>10, <1>11, <1>13, <1>15, <1>16, <1>17, <3>1 DEF Accounts
  <2>4. ASSUME NEW j \in Holders \ {k} PROVE Accounts(j)'
    <3>1. buckets'[j] = buckets[j] /\ passed'[j] = passed[j] /\ skew'[j] = skew[j]
      BY <1>12, <2>1 DEF LimitTypeOK
    <3> QED
      BY <1>11, <3>1 DEF LimitInv, Accounts
  <2> QED
    BY <1>12, <1>18, <2>1, <2>2, <2>3, <2>4 DEF LimitInv, NobodyPaysForOthers
<1>20. CASE tokens < 1
  <2>1. passed[k] >= Burst(k)
    BY <1>10, <1>13, <1>15, <1>20
  <2>2. UNCHANGED <<buckets, passed, skew, refused, now>>
    BY <1>9, <1>10, <1>11, <1>13, <1>20, <2>1
  <2>3. LimitTypeOK'
    BY <1>11, <1>12, <2>2 DEF LimitTypeOK
  <2> QED
    BY <1>18, <2>2, <2>3 DEF LimitInv, NobodyPaysForOthers, Accounts
<1> QED
  BY <1>10, <1>19, <1>20

LEMMA LimitInvNext == LimitInv /\ [LimitNext]_limitVars => LimitInv'
<1> SUFFICES ASSUME LimitInv, [LimitNext]_limitVars PROVE LimitInv'
  OBVIOUS
<1>0. LimitTypeOK /\ HandlingOK
  BY DEF LimitInv
<1>1. ASSUME NEW h \in Handlers, NEW holder \in Holders, Arrive(h, holder) PROVE LimitInv'
  <2>1. UNCHANGED <<now, buckets, passed, skew, refused>>
    BY <1>1 DEF Arrive
  <2>2. LimitTypeOK'
    BY <1>0, <1>1, <2>1 DEF Arrive, LimitTypeOK
  <2>3. HandlingOK'
    BY <1>0, <1>1, <2>1 DEF Arrive, LimitTypeOK, HandlingOK
  <2> QED
    BY <2>1, <2>2, <2>3 DEF LimitInv, NobodyPaysForOthers, Accounts
<1>2. ASSUME NEW h \in Handlers, FindBucket(h) PROVE LimitInv'
  <2>0. PICK k \in Holders : k = handling[h].holder /\ handling[h].pc = "lookup"
    BY <1>0, <1>2, CallOK DEF FindBucket
  <2>1. /\ Limited(k) /\ k = handling[h].holder
        /\ handling[h] \in [pc : {"lookup", "clock"}, holder : Holders]
        /\ handling' = [handling EXCEPT ![h].pc = "clock"]
        /\ UNCHANGED <<now, passed, skew, refused>>
    BY <1>0, <1>2, <2>0, CallOK DEF FindBucket, HandlingOK
  <2>2. buckets' = [buckets EXCEPT ![k] =
          IF @ = NoBucket THEN [tokens |-> Burst(k), last |-> now] ELSE @]
    BY <1>2, <2>0 DEF FindBucket, KeyOf
  <2>3. LimitFor(k.type).rate \in Nat /\ Burst(k) \in Nat /\ now \in Nat
    BY <1>0, <2>1, LimitsOK DEF Limited, LimitTypeOK
  <2>4. /\ buckets'[k] = IF buckets[k] = NoBucket THEN [tokens |-> Burst(k), last |-> now] ELSE buckets[k]
        /\ \A j \in Holders \ {k} : buckets'[j] = buckets[j]
    BY <1>0, <2>1, <2>2 DEF LimitTypeOK
  <2>5. buckets' \in [Holders -> {NoBucket} \cup [tokens : Nat, last : Nat]]
    BY <1>0, <2>1, <2>2, <2>3 DEF LimitTypeOK
  <2>6. buckets'[k] # NoBucket /\ \A j \in Holders : buckets[j] # NoBucket => buckets'[j] # NoBucket
    <3>1. [tokens |-> Burst(k), last |-> now] # NoBucket
      BY <2>3, LimitAssumption
    <3> QED
      BY <2>4, <3>1
  <2>7. LimitTypeOK'
    BY <1>0, <2>1, <2>5 DEF LimitTypeOK
  <2>8. HandlingOK'
    <3>1. /\ handling'[h].pc = "clock" /\ handling'[h].holder = k
          /\ \A g \in Handlers \ {h} : handling'[g] = handling[g]
      BY <1>0, <2>1 DEF LimitTypeOK
    <3>2. ASSUME NEW g \in Handlers \ {h}, handling[g].pc \in {"clock", "take"}
          PROVE  buckets'[handling[g].holder] # NoBucket
      BY <1>0, <2>6, <3>2, CallOK DEF HandlingOK
    <3> QED
      BY <1>0, <2>1, <2>6, <3>1, <3>2 DEF HandlingOK
  <2>9. ASSUME NEW j \in Holders PROVE Accounts(j)'
    <3>1. Accounts(j) /\ UNCHANGED <<now, passed, skew>>
      BY <2>1 DEF LimitInv
    <3>2. CASE buckets'[j] = buckets[j]
      BY <3>1, <3>2 DEF Accounts
    <3>3. CASE j = k /\ buckets[k] = NoBucket
      <4>1. buckets'[j].tokens = Burst(j) /\ buckets'[j].last = now /\ passed'[j] = 0
        BY <2>4, <3>1, <3>3 DEF Accounts
      <4>2. skew'[j] \in Nat
        BY <2>7 DEF LimitTypeOK
      <4>3. LimitFor(j.type).rate * (now + skew'[j]) \in Nat
        BY <2>3, <3>3, <4>2
      <4> QED
        BY <2>1, <2>3, <2>6, <3>3, <4>1, <4>3 DEF Accounts
    <3> QED
      BY <2>4, <3>2, <3>3
  <2> QED
    BY <2>1, <2>7, <2>8, <2>9 DEF LimitInv, NobodyPaysForOthers
<1>3. ASSUME NEW h \in Handlers, ReadClock(h) PROVE LimitInv'
  <2>1. UNCHANGED <<now, buckets, passed, skew, refused>>
    BY <1>3 DEF ReadClock
  <2>2. /\ handling[h].holder \in Holders /\ Limited(handling[h].holder)
        /\ buckets[handling[h].holder] # NoBucket /\ now \in Nat
        /\ handling' = [handling EXCEPT ![h] =
             [pc |-> "take", holder |-> handling[h].holder, time |-> now]]
    BY <1>0, <1>3, CallOK DEF ReadClock, HandlingOK, LimitTypeOK
  <2>3. LimitTypeOK'
    BY <1>0, <2>1, <2>2 DEF LimitTypeOK
  <2>4. HandlingOK'
    BY <1>0, <2>1, <2>2 DEF LimitTypeOK, HandlingOK
  <2> QED
    BY <2>1, <2>3, <2>4 DEF LimitInv, NobodyPaysForOthers, Accounts
<1>4. ASSUME NEW h \in Handlers, TakeToken(h) PROVE LimitInv'
  BY <1>4, TakeKeepsInv
<1>5. CASE Elapse
  <2>1. now' = now + 1 /\ now \in Nat /\ UNCHANGED <<buckets, handling, passed, skew, refused>>
    BY <1>0, <1>5 DEF Elapse, LimitTypeOK
  <2>2. LimitTypeOK'
    BY <1>0, <2>1 DEF LimitTypeOK
  <2>3. HandlingOK'
    <3>1. \A h \in Handlers : handling[h].pc = "take" => handling[h].time \in Nat
      BY <1>0, CallOK
    <3> QED
      BY <1>0, <2>1, <3>1 DEF HandlingOK
  <2>4. ASSUME NEW k \in Holders PROVE Accounts(k)'
    <3>1. Accounts(k) /\ (buckets[k] # NoBucket => buckets[k].last \in Nat)
      BY <1>0 DEF LimitInv, LimitTypeOK
    <3> QED
      BY <2>1, <3>1 DEF Accounts
  <2> QED
    BY <2>1, <2>2, <2>3, <2>4 DEF LimitInv, NobodyPaysForOthers
<1>6. CASE UNCHANGED limitVars
  BY <1>6 DEF limitVars, LimitInv, LimitTypeOK, HandlingOK, NobodyPaysForOthers, Accounts
<1> QED
  BY <1>1, <1>2, <1>3, <1>4, <1>5, <1>6 DEF LimitNext

LEMMA LimitInvHolds == LimitSpec => []LimitInv
BY LimitInvInit, LimitInvNext, PTL DEF LimitSpec

\* However many calls race for however many buckets, and whatever times they
\* read: a bucket lets through no more than its burst and its rate, and refuses
\* nobody for the calls of another (Limiter.Allow).
THEOREM LimitsAreFair == LimitSpec => []FairLimits
<1>1. LimitInv => AdmissionBound
  <2> SUFFICES ASSUME LimitInv, NEW k \in Holders, Limited(k)
               PROVE  passed[k] <= Burst(k) + LimitFor(k.type).rate * (now + skew[k])
    BY DEF AdmissionBound
  <2>1. /\ LimitFor(k.type).rate \in Nat /\ Burst(k) \in Nat
        /\ now \in Nat /\ passed[k] \in Nat /\ skew[k] \in Nat
    BY LimitsOK DEF LimitInv, LimitTypeOK, Limited
  <2>2. CASE buckets[k] = NoBucket
    <3>1. passed[k] = 0
      BY <2>2 DEF LimitInv, Accounts
    <3>2. LimitFor(k.type).rate * (now + skew[k]) \in Nat
      BY <2>1
    <3> QED
      BY <2>1, <3>1, <3>2
  <2>3. CASE buckets[k] # NoBucket
    <3>1. /\ buckets[k].tokens \in Nat /\ buckets[k].last \in Nat /\ buckets[k].last <= now
          /\ buckets[k].tokens + passed[k] <= Burst(k) + LimitFor(k.type).rate * (buckets[k].last + skew[k])
      BY <2>3 DEF LimitInv, LimitTypeOK, Accounts
    <3>2. LimitFor(k.type).rate * (buckets[k].last + skew[k]) <= LimitFor(k.type).rate * (now + skew[k])
      BY <2>1, <3>1, RateGrows
    <3>3. /\ LimitFor(k.type).rate * (buckets[k].last + skew[k]) \in Nat
          /\ LimitFor(k.type).rate * (now + skew[k]) \in Nat
      BY <2>1, <3>1
    <3> QED
      BY <2>1, <3>1, <3>2, <3>3
  <2> QED
    BY <2>2, <2>3
<1>2. LimitInv => FairLimits
  BY <1>1 DEF LimitInv, FairLimits
<1> QED
  BY <1>2, LimitInvHolds, PTL

-----------------------------------------------------------------------------
(* The bundle: whatever replicas there are, whatever they are deployed with  *)
(* and whenever the cache forgets, a browser is given a build that ran.      *)

\* A copy is told from no copy.
CopyOK ==
  cache = NoCopy \/ cache \in [build : Builds, etag : {Hash(b) : b \in Builds}, fresh : {FALSE}]

\* CopyNamesBuild, spelt out for the prover.
BundleInv ==
  /\ running \in [Replicas -> [build : Builds, etag : {Hash(b) : b \in Builds}]]
  /\ CopyOK
  /\ CopyNamesBuild

\* What a process starts with is a build and its own hash.
LEMMA EmbeddedOK ==
  ASSUME NEW build \in Builds
  PROVE  /\ Embedded(build) \in [build : Builds, etag : {Hash(b) : b \in Builds}]
         /\ Embedded(build).build = build /\ Embedded(build).etag = Hash(build)
BY DEF Embedded

LEMMA BundleInvInit == BundleInit => BundleInv
<1> SUFFICES ASSUME BundleInit PROVE BundleInv
  OBVIOUS
<1>1. \A r \in Replicas :
        /\ running[r] \in [build : Builds, etag : {Hash(b) : b \in Builds}]
        /\ running[r].build \in Builds /\ running[r].etag = Hash(running[r].build)
  BY EmbeddedOK DEF BundleInit
<1>2. running \in [Replicas -> [build : Builds, etag : {Hash(b) : b \in Builds}]]
  BY <1>1 DEF BundleInit
<1> QED
  BY <1>1, <1>2 DEF BundleInit, BundleInv, CopyOK, CopyNamesBuild, DeployIsSeen

\* What a replica answers with is a copy the cache may keep, which asks again.
LEMMA ResponseOK ==
  ASSUME BundleInv, NEW r \in Replicas
  PROVE  /\ Response(running[r]) \in [build : Builds, etag : {Hash(b) : b \in Builds}, fresh : {FALSE}]
         /\ Response(running[r]).build = running[r].build
         /\ Response(running[r]).etag = Hash(running[r].build)
         /\ Response(running[r]).fresh = FALSE
BY DEF BundleInv, CopyNamesBuild, Response

\* An answer at the end of a request, with the copy that stays in the cache.
LEMMA GivesKeepsInv ==
  ASSUME BundleInv, ask # NoAsk, NEW build, NEW copy,
         Gives(build, copy), build \in ask.during,
         copy = NoCopy \/
           /\ copy \in [build : Builds, etag : {Hash(b) : b \in Builds}, fresh : {FALSE}]
           /\ copy.etag = Hash(copy.build)
  PROVE  BundleInv'
<1>1. running' = running /\ cache' = copy /\ ask' = NoAsk
      /\ served' = [build |-> build, during |-> ask.during]
  BY DEF Gives
<1>2. CopyOK'
  BY <1>1 DEF CopyOK
<1>3. CopyNamesBuild'
  <2>1. DeployIsSeen'
    BY <1>1 DEF DeployIsSeen
  <2>2. cache' # NoCopy =>
          /\ ~cache'.fresh /\ cache'.build \in Builds
          /\ cache'.etag = Hash(cache'.build)
    BY <1>1
  <2> QED
    BY <1>1, <2>1, <2>2 DEF BundleInv, CopyNamesBuild
<1> QED
  BY <1>1, <1>2, <1>3 DEF BundleInv

LEMMA BundleInvNext == BundleInv /\ [BundleNext]_bundleVars => BundleInv'
<1> SUFFICES ASSUME BundleInv, [BundleNext]_bundleVars PROVE BundleInv'
  OBVIOUS
<1>1. ASSUME NEW r \in Replicas, NEW build \in Builds, Deploy(r, build) PROVE BundleInv'
  <2>1. running' \in [Replicas -> [build : Builds, etag : {Hash(b) : b \in Builds}]]
    BY <1>1, EmbeddedOK DEF Deploy, BundleInv
  <2>2. \A s \in Replicas :
          /\ running'[s].build \in Builds /\ running'[s].etag = Hash(running'[s].build)
          /\ s # r => running'[s] = running[s]
          /\ running'[r].build = build
    BY <1>1, EmbeddedOK DEF Deploy, BundleInv, CopyNamesBuild
  <2>3. ask' # NoAsk => \A s \in Replicas : running'[s].build \in ask'.during
    <3> SUFFICES ASSUME ask' # NoAsk, NEW s \in Replicas PROVE running'[s].build \in ask'.during
      OBVIOUS
    <3>1. ask # NoAsk /\ ask' = [during |-> ask.during \cup {build}]
      BY <1>1 DEF Deploy
    <3>2. running[s].build \in ask.during
      BY <3>1 DEF BundleInv, CopyNamesBuild
    <3> QED
      BY <2>2, <3>1, <3>2, <1>1 DEF Deploy
  <2>4. cache' = cache /\ served' = NoFile
    BY <1>1 DEF Deploy
  <2> QED
    BY <2>1, <2>2, <2>3, <2>4 DEF BundleInv, CopyNamesBuild, CopyOK, DeployIsSeen
<1>2. CASE Ask
  <2>1. \A r \in Replicas : running[r].build \in Running
    BY DEF Running
  <2> QED
    BY <1>2, <2>1 DEF Ask, BundleInv, CopyNamesBuild, CopyOK, DeployIsSeen
<1>3. CASE FromCache
  BY <1>3 DEF FromCache, BundleInv, CopyNamesBuild
<1>4. ASSUME NEW r \in Replicas, NotModified(r) PROVE BundleInv'
  <2>1. ask # NoAsk /\ cache # NoCopy /\ cache.etag = running[r].etag /\ Gives(cache.build, cache)
    BY <1>4 DEF NotModified
  <2>2. cache.build = running[r].build
    BY <2>1, BundleAssumption DEF BundleInv, CopyNamesBuild
  <2>3. cache.build \in ask.during
    BY <2>1, <2>2 DEF BundleInv, CopyNamesBuild
  <2>4. /\ cache \in [build : Builds, etag : {Hash(b) : b \in Builds}, fresh : {FALSE}]
        /\ cache.etag = Hash(cache.build)
    BY <2>1 DEF BundleInv, CopyOK, CopyNamesBuild
  <2> QED
    BY <2>1, <2>3, <2>4, GivesKeepsInv
<1>5. ASSUME NEW r \in Replicas, Whole(r) PROVE BundleInv'
  <2>1. ask # NoAsk
    BY <1>5 DEF Whole
  <2>2. running[r].build \in ask.during
    BY <2>1 DEF BundleInv, CopyNamesBuild
  <2>3. PICK copy \in {NoCopy, Response(running[r])} : Gives(running[r].build, copy)
    BY <1>5 DEF Whole
  <2>4. copy = NoCopy \/
          /\ copy \in [build : Builds, etag : {Hash(b) : b \in Builds}, fresh : {FALSE}]
          /\ copy.etag = Hash(copy.build)
    BY <2>3, ResponseOK
  <2> QED
    BY <2>1, <2>2, <2>3, <2>4, GivesKeepsInv
<1>6. CASE Evict
  BY <1>6 DEF Evict, BundleInv, CopyNamesBuild, CopyOK, DeployIsSeen
<1>7. CASE UNCHANGED bundleVars
  BY <1>7 DEF bundleVars, BundleInv, CopyNamesBuild, CopyOK, DeployIsSeen
<1> QED
  BY <1>1, <1>2, <1>3, <1>4, <1>5, <1>6, <1>7 DEF BundleNext

\* Every answer to a browser is a build that some replica ran while it asked:
\* a deploy is seen as soon as the last replica has it (uiserve.go:18-22).
THEOREM BundleIsCurrent == BundleSpec => []DeployIsSeen
<1>1. BundleInv => DeployIsSeen
  BY DEF BundleInv, CopyNamesBuild
<1> QED
  BY <1>1, BundleInvInit, BundleInvNext, PTL DEF BundleSpec

-----------------------------------------------------------------------------
(* What two neighbours are reported to have said.                          *)

(* An id that does not go out is the id of no supplier.                    *)
LEMMA NoSupplierIsLeftOut ==
  ASSUME NEW ids, NEW table \in Tables
  PROVE  WireIds(ids) \cap DOMAIN table = ids \cap DOMAIN table
<1>1. DOMAIN table \subseteq 1 .. 2 ^ Width - 1 BY NeighboursAssumption DEF Tables
<1>2. 2 ^ Width - 1 \in Int BY NeighboursAssumption
<1>3. \A id \in DOMAIN table : 0 < id /\ id <= 2 ^ Width - 1 BY <1>1, <1>2
<1> QED BY <1>3 DEF WireIds

(* So the reply that is read off a table says of the asked ids what the    *)
(* table does.                                                             *)
LEMMA ReplyIsTrue ==
  ASSUME NEW ids, NEW table \in Tables
  PROVE  LookupReply(ids, table) = [id \in ids \cap DOMAIN table |-> table[id]]
BY NoSupplierIsLeftOut DEF LookupReply

(* A whole reply has a decision for each item; a fault's has one fewer.    *)
LEMMA ReplyLength ==
  ASSUME NEW items \in Batches, items # << >>, NEW token, NEW revision
  PROVE  LET results == BatchReply(items, token, revision)
         IN /\ DOMAIN results = DOMAIN items
            /\ Len(Tail(results)) # Len(items)
<1> DEFINE results == BatchReply(items, token, revision)
           said == {results[i] : i \in DOMAIN items}
<1>1. items \in Seq({items[i] : i \in DOMAIN items}) BY NeighboursAssumption
<1>2. DOMAIN items = 1 .. Len(items) /\ Len(items) \in Nat BY <1>1
<1>3. Len(items) # 0 BY <1>1
<1>4. DOMAIN results = DOMAIN items BY DEF BatchReply
<1>5. results \in [1 .. Len(items) -> said] BY <1>2, <1>4 DEF BatchReply
<1>6. results \in Seq(said) /\ Len(results) = Len(items)
  <2> HIDE DEF results, said
  <2> QED BY <1>2, <1>5
<1>7. Len(Tail(results)) = Len(results) - 1
  <2> HIDE DEF results, said
  <2> QED BY <1>2, <1>3, <1>6
<1>8. Len(Tail(results)) # Len(items)
  <2> HIDE DEF results, said
  <2> QED BY <1>2, <1>6, <1>7
<1> QED BY <1>4, <1>8

(* The decisions of one revision, and none older than the token.           *)
LEMMA DecisionsAreTrue ==
  ASSUME NEW items \in Batches, NEW token \in Nat, NEW revision \in DOMAIN ledger,
         ledger \in Ledgers
  PROVE  /\ BatchIsTrue([call |-> "batch", items |-> items, token |-> token],
                        BatchReply(items, token, revision))
         /\ \A i \in DOMAIN items :
              BatchReply(items, token, revision)[i].decidedAt \in {0, revision}
<1> DEFINE of == [call |-> "batch", items |-> items, token |-> token]
           said == BatchReply(items, token, revision)
<1>1. DOMAIN said = DOMAIN items BY DEF BatchReply
<1>2. revision \in Nat BY DEF Ledgers
<1>3. ASSUME NEW i \in DOMAIN items
      PROVE  /\ said[i].decidedAt \in {0, revision}
             /\ \/ said[i] = Denied
                \/ /\ said[i].decidedAt >= token
                   /\ said[i].allowed = (<<items[i].subject, items[i].resource>>
                                           \in ledger[said[i].decidedAt])
  <2>1. said[i] = Decides(ToProto(items[i], token), revision) BY DEF BatchReply
  <2>2. said[i] = IF token > revision THEN Denied
                  ELSE [allowed |-> <<items[i].subject, items[i].resource>> \in ledger[revision],
                        decidedAt |-> revision]
    BY <2>1 DEF Decides, ToProto
  <2> HIDE DEF said
  <2>3. CASE token > revision BY <2>2, <2>3 DEF Denied
  <2>4. CASE ~ (token > revision) BY <1>2, <2>2, <2>4
  <2> QED BY <2>3, <2>4
<1>4. of.items = items /\ of.token = token OBVIOUS
<1>5. BatchIsTrue(of, said)
  <2> HIDE DEF of, said
  <2> QED BY <1>1, <1>3, <1>4 DEF BatchIsTrue
<1>6. \A i \in DOMAIN items : said[i].decidedAt \in {0, revision}
  <2> HIDE DEF said
  <2> QED BY <1>3
<1> QED BY <1>5, <1>6

LEMMA NeighboursInvInit == NeighboursInit => NeighboursInv
<1> SUFFICES ASSUME NeighboursInit PROVE NeighboursInv OBVIOUS
<1>1. suppliers \in Tables
  <2>1. << >> \in [{} -> BOOLEAN] OBVIOUS
  <2> QED BY <2>1 DEF NeighboursInit, Tables
<1>2. ledger \in Ledgers BY DEF NeighboursInit, Ledgers
<1> QED BY <1>1, <1>2
    DEF NeighboursInit, NeighboursInv, LookupUnderWay, BatchUnderWay, NeighboursAreHeard

(* A step that leaves the batch, the ledger and the freshest decision      *)
(* alone leaves what is known of a batch under way.                        *)
LEMMA BatchIsLeft ==
  ASSUME BatchUnderWay, UNCHANGED <<ledger, batch>> PROVE BatchUnderWay'
<1>1. ASSUME NEW items, NEW token, NEW revision
      PROVE  BatchReply(items, token, revision)' = BatchReply(items, token, revision)
  BY DEF BatchReply, Decides
<1> QED BY <1>1 DEF BatchUnderWay

LEMMA LookupIsLeft ==
  ASSUME LookupUnderWay, UNCHANGED <<suppliers, lookup>> PROVE LookupUnderWay'
BY DEF LookupUnderWay

(* Parties.                                                                *)
LEMMA BlockStep == ASSUME NeighboursInv, Block PROVE NeighboursInv'
<1>1. suppliers' \in Tables
  <2>1. PICK id \in SupplierIds, active \in BOOLEAN :
          suppliers' = [s \in DOMAIN suppliers \cup {id} |-> IF s = id THEN active ELSE suppliers[s]]
    BY DEF Block
  <2>2. PICK ids \in SUBSET SupplierIds : suppliers \in [ids -> BOOLEAN]
    BY DEF NeighboursInv, Tables
  <2>3. DOMAIN suppliers = ids BY <2>2
  <2>4. suppliers' \in [ids \cup {id} -> BOOLEAN] BY <2>1, <2>2, <2>3
  <2>5. ids \cup {id} \in SUBSET SupplierIds OBVIOUS
  <2> QED BY <2>4, <2>5 DEF Tables
<1>2. LookupUnderWay'
  <2> SUFFICES ASSUME lookup' # Nobody PROVE LookupUnderWay' BY DEF LookupUnderWay
  <2>1. lookup # Nobody /\ lookup' = [lookup EXCEPT !.during = @ \cup {suppliers'}] BY DEF Block
  <2> QED BY <1>1, <2>1 DEF NeighboursInv, LookupUnderWay
<1>3. BatchUnderWay' BY BatchIsLeft DEF Block, NeighboursInv
<1> QED BY <1>1, <1>2, <1>3 DEF Block, NeighboursInv, NeighboursAreHeard

(* The table that core-clients reads is the one of that moment.            *)
LEMMA ClientsServeStep == ASSUME NeighboursInv, ClientsServe PROVE NeighboursInv'
<1>1. LookupUnderWay'
  <2> SUFFICES ASSUME lookup' # Nobody PROVE LookupUnderWay' BY DEF LookupUnderWay
  <2> DEFINE reply == IF Cardinality(lookup.wire) > LookupCap THEN Failed
                      ELSE [id \in lookup.wire \cap DOMAIN suppliers |-> suppliers[id]]
  <2>1. lookup # Nobody /\ lookup' = [lookup EXCEPT !.reply = reply] BY DEF ClientsServe
  <2>2. reply \in {Failed, LookupReply(lookup.ids, suppliers)}
    BY <2>1 DEF NeighboursInv, LookupUnderWay, LookupReply
  <2> HIDE DEF reply
  <2>3. /\ lookup'.wire = WireIds(lookup'.ids) /\ lookup'.during = lookup.during
        /\ lookup'.ids = lookup.ids
    BY <2>1 DEF NeighboursInv, LookupUnderWay
  <2>4. suppliers \in lookup.during /\ lookup.during \subseteq Tables
    BY <2>1 DEF NeighboursInv, LookupUnderWay
  <2>5. lookup'.reply \in {NotYet, Failed, reply} BY <2>1
  <2>6. suppliers' = suppliers BY DEF ClientsServe
  <2> QED BY <2>2, <2>3, <2>4, <2>5, <2>6 DEF LookupUnderWay
<1>2. BatchUnderWay' BY BatchIsLeft DEF ClientsServe, NeighboursInv
<1> QED BY <1>1, <1>2 DEF ClientsServe, NeighboursInv, NeighboursAreHeard

LEMMA LookupSuppliersStep ==
  ASSUME NeighboursInv, NEW ids, LookupSuppliers(ids) PROVE NeighboursInv'
<1>1. BatchUnderWay' BY BatchIsLeft DEF LookupSuppliers, NeighboursInv
<1>2. UNCHANGED <<suppliers, ledger, decidedAt>> BY DEF LookupSuppliers
<1>3. CASE ids = {}
  <2>1. UNCHANGED lookup BY <1>3 DEF LookupSuppliers
  <2>2. LookupUnderWay' BY <1>2, <2>1, LookupIsLeft DEF NeighboursInv
  <2> DEFINE of == [call |-> "lookup", ids |-> {}, during |-> {suppliers}]
  <2>3. heard' = [of |-> of, said |-> << >>] BY <1>3 DEF LookupSuppliers, Hears
  <2>4. LookupIsTrue(of, << >>)
    <3>1. [id \in {} \cap DOMAIN suppliers |-> suppliers[id]] = << >> OBVIOUS
    <3> QED BY <3>1 DEF LookupIsTrue
  <2>5. heard'.of.call = "lookup" /\ heard'.of = of /\ heard'.said = << >> BY <2>3
  <2>6. NeighboursAreHeard'
    <3> HIDE DEF of
    <3> QED BY <2>4, <2>5 DEF NeighboursAreHeard, LookupIsTrue
  <2> QED BY <1>1, <1>2, <2>2, <2>6 DEF NeighboursInv
<1>4. CASE ids # {}
  <2>1. /\ lookup' = [call |-> "lookup", ids |-> ids, wire |-> WireIds(ids),
                      during |-> {suppliers}, reply |-> NotYet]
        /\ heard' = NotYet
    BY <1>4 DEF LookupSuppliers
  <2>2. LookupUnderWay' BY <1>2, <2>1 DEF NeighboursInv, LookupUnderWay
  <2> QED BY <1>1, <1>2, <2>1, <2>2 DEF NeighboursInv, NeighboursAreHeard
<1> QED BY <1>3, <1>4

(* What came back is what one of the tables of the call says.              *)
LEMMA LookedUpStep == ASSUME NeighboursInv, LookedUp PROVE NeighboursInv'
<1>1. BatchUnderWay' BY BatchIsLeft DEF LookedUp, NeighboursInv
<1>2. UNCHANGED <<suppliers, ledger, decidedAt>> BY DEF LookedUp
<1>3. lookup' = Nobody BY DEF LookedUp
<1>4. LookupUnderWay' BY <1>3 DEF LookupUnderWay
<1> DEFINE of == [call |-> "lookup", ids |-> lookup.ids, during |-> lookup.during]
<1>5. heard' = [of |-> of, said |-> lookup.reply] BY DEF LookedUp, Hears
<1>6. ASSUME lookup.reply # Failed PROVE LookupIsTrue(of, lookup.reply)
  <2>1. lookup # Nobody /\ lookup.reply # NotYet BY DEF LookedUp
  <2>2. PICK table \in lookup.during : lookup.reply = LookupReply(lookup.ids, table)
    BY <1>6, <2>1 DEF NeighboursInv, LookupUnderWay
  <2>3. table \in Tables BY <2>1, <2>2 DEF NeighboursInv, LookupUnderWay
  <2>4. lookup.reply = [id \in lookup.ids \cap DOMAIN table |-> table[id]]
    BY <2>2, <2>3, ReplyIsTrue
  <2> QED BY <2>4 DEF LookupIsTrue
<1>7. NeighboursAreHeard'
  <2>1. heard'.of = of /\ heard'.said = lookup.reply /\ heard'.of.call = "lookup" BY <1>5
  <2> HIDE DEF of
  <2> QED BY <1>6, <2>1 DEF NeighboursAreHeard, LookupIsTrue
<1> QED BY <1>1, <1>2, <1>4, <1>7 DEF NeighboursInv

LEMMA LookupFailsStep == ASSUME NeighboursInv, LookupFails PROVE NeighboursInv'
<1>1. BatchUnderWay' BY BatchIsLeft DEF LookupFails, NeighboursInv
<1>2. LookupUnderWay' BY DEF LookupFails, LookupUnderWay
<1>3. heard'.said = Failed BY DEF LookupFails, Hears
<1>4. NeighboursAreHeard' BY <1>3 DEF NeighboursAreHeard
<1> QED BY <1>1, <1>2, <1>4 DEF LookupFails, NeighboursInv

(* The PDP. A revision that it had keeps its place in the ledger.          *)
LEMMA GrantStep == ASSUME NeighboursInv, Grant PROVE NeighboursInv'
<1>1. PICK granted \in SUBSET (Subjects \X Resources) : ledger' = Append(ledger, granted)
  BY DEF Grant
<1>2. ledger' \in Ledgers BY <1>1 DEF NeighboursInv, Ledgers
<1>3. \A revision \in DOMAIN ledger : revision \in DOMAIN ledger' /\ ledger'[revision] = ledger[revision]
  BY <1>1 DEF NeighboursInv, Ledgers
<1>4. LookupUnderWay' BY LookupIsLeft DEF Grant, NeighboursInv
<1>5. BatchUnderWay'
  <2> SUFFICES ASSUME batch # Nobody, batch' = batch PROVE BatchUnderWay'
    BY DEF BatchUnderWay, Grant
  <2>1. ASSUME NEW revision \in DOMAIN ledger
        PROVE  BatchReply(batch.items, batch.token, revision)
                 = BatchReply(batch.items, batch.token, revision)'
    BY <1>3, <2>1 DEF BatchReply, Decides
  <2>2. \/ batch.reply \in {NotYet, Failed}
        \/ \E revision \in DOMAIN ledger' :
             batch.reply \in {BatchReply(batch.items, batch.token, revision)',
                              Tail(BatchReply(batch.items, batch.token, revision)')}
    <3>1. CASE batch.reply \in {NotYet, Failed} BY <3>1
    <3>2. CASE \E revision \in DOMAIN ledger :
                 batch.reply \in {BatchReply(batch.items, batch.token, revision),
                                  Tail(BatchReply(batch.items, batch.token, revision))}
      BY <1>3, <2>1, <3>2
    <3> QED BY <3>1, <3>2 DEF NeighboursInv, BatchUnderWay
  <2> QED BY <2>2 DEF NeighboursInv, BatchUnderWay
<1> QED BY <1>2, <1>4, <1>5 DEF Grant, NeighboursInv, NeighboursAreHeard

LEMMA PdpServeStep == ASSUME NeighboursInv, PdpServe PROVE NeighboursInv'
<1>1. LookupUnderWay' BY LookupIsLeft DEF PdpServe, NeighboursInv
<1>2. BatchUnderWay'
  <2> SUFFICES ASSUME batch' # Nobody PROVE BatchUnderWay' BY DEF BatchUnderWay
  <2>1. PICK revision \in DOMAIN ledger :
          LET results == [i \in DOMAIN batch.wire |-> Decides(batch.wire[i], revision)]
          IN \E reply \in {results, Tail(results), Failed} : batch' = [batch EXCEPT !.reply = reply]
    BY DEF PdpServe
  <2> DEFINE results == BatchReply(batch.items, batch.token, revision)
  <2>2. /\ batch # Nobody /\ batch.items \in Batches /\ batch.items # << >> /\ batch.token \in Nat
        /\ batch.wire = [i \in DOMAIN batch.items |-> ToProto(batch.items[i], batch.token)]
    BY DEF PdpServe, NeighboursInv, BatchUnderWay
  <2>3. [i \in DOMAIN batch.wire |-> Decides(batch.wire[i], revision)] = results
    BY <2>2 DEF BatchReply
  <2> HIDE DEF results
  <2>4. PICK reply \in {results, Tail(results), Failed} : batch' = [batch EXCEPT !.reply = reply]
    BY <2>1, <2>3
  <2>5. batch'.items = batch.items /\ batch'.token = batch.token /\ batch'.wire = batch.wire
    BY <2>4
  <2>6. batch'.reply \in {batch.reply, reply} BY <2>4
  <2>7. ledger' = ledger BY DEF PdpServe
  <2>8. \/ batch'.reply \in {NotYet, Failed}
        \/ batch'.reply \in {results, Tail(results)}
    BY <2>4, <2>6
  <2>9. results = BatchReply(batch.items, batch.token, revision)'
    BY <2>5, <2>7 DEF results, BatchReply, Decides
  <2>10. revision \in DOMAIN ledger' BY <2>7
  <2> QED BY <2>2, <2>5, <2>8, <2>9, <2>10 DEF BatchUnderWay
<1> QED BY <1>1, <1>2 DEF PdpServe, NeighboursInv, NeighboursAreHeard

(* A batch that goes out is what was asked; one that does not was refused, *)
(* or needs no answer.                                                     *)
LEMMA BatchAllowedStep ==
  ASSUME NeighboursInv, NEW items \in Batches, NEW token \in {0, decidedAt},
         BatchAllowed(items, token)
  PROVE  NeighboursInv'
<1>1. UNCHANGED <<suppliers, ledger, lookup, decidedAt>> BY DEF BatchAllowed
<1>2. LookupUnderWay' BY <1>1, LookupIsLeft DEF NeighboursInv
<1> DEFINE of == [call |-> "batch", items |-> items, token |-> token]
<1>3. CASE items = << >> \/ Len(items) > MaxBatch \/ ~ SameSubject(items)
  <2>1. UNCHANGED batch BY <1>3 DEF BatchAllowed
  <2>2. BatchUnderWay' BY <1>1, <2>1, BatchIsLeft DEF NeighboursInv
  <2>3. heard' = [of |-> of, said |-> IF items = << >> THEN << >> ELSE Failed]
    BY <1>3 DEF BatchAllowed, Hears
  <2>4. CASE items # << >>
    <3>1. heard'.said = Failed BY <2>3, <2>4
    <3> QED BY <1>1, <1>2, <2>2, <3>1 DEF NeighboursInv, NeighboursAreHeard
  <2>5. CASE items = << >>
    <3>1. heard'.of = of /\ heard'.said = << >> /\ of.call = "batch" /\ of.items = items
      BY <2>3, <2>5
    <3>2. BatchIsTrue(of, << >>)'
      <4> HIDE DEF of
      <4> QED BY <2>5, <3>1 DEF BatchIsTrue
    <3>3. NeighboursAreHeard'
      <4> HIDE DEF of
      <4> QED BY <3>1, <3>2 DEF NeighboursAreHeard
    <3> QED BY <1>1, <1>2, <2>2, <3>3 DEF NeighboursInv
  <2> QED BY <2>4, <2>5
<1>4. CASE ~ (items = << >> \/ Len(items) > MaxBatch \/ ~ SameSubject(items))
  <2>1. /\ batch' = [call |-> "batch", items |-> items, token |-> token,
                     wire |-> [i \in DOMAIN items |-> ToProto(items[i], token)], reply |-> NotYet]
        /\ heard' = NotYet
    BY <1>4 DEF BatchAllowed
  <2>2. token \in Nat BY DEF NeighboursInv
  <2>3. BatchUnderWay' BY <1>4, <2>1, <2>2 DEF BatchUnderWay
  <2> QED BY <1>1, <1>2, <2>1, <2>3 DEF NeighboursInv, NeighboursAreHeard
<1> QED BY <1>3, <1>4

(* What is true of a ledger when it is said is heard so.                   *)
LEMMA SaidIsHeard ==
  ASSUME NEW of, NEW said, of.call = "batch", heard' = [of |-> of, said |-> said],
         UNCHANGED ledger, said # Failed => BatchIsTrue(of, said)
  PROVE  NeighboursAreHeard'
<1>1. heard'.of = of /\ heard'.said = said OBVIOUS
<1>2. ASSUME said # Failed PROVE BatchIsTrue(of, said)' BY <1>2 DEF BatchIsTrue
<1> QED BY <1>1, <1>2 DEF NeighboursAreHeard, BatchIsTrue

(* A short reply is an error; of a whole one, nothing that it says was     *)
(* decided before the token, and the Core keeps the freshest of it.        *)
LEMMA BatchDoneStep == ASSUME NeighboursInv, BatchDone PROVE NeighboursInv'
<1>1. UNCHANGED <<suppliers, ledger, lookup>> /\ batch' = Nobody BY DEF BatchDone
<1>2. LookupUnderWay' BY <1>1, LookupIsLeft DEF NeighboursInv
<1>3. BatchUnderWay' BY <1>1 DEF BatchUnderWay
<1> DEFINE of == [call |-> "batch", items |-> batch.items, token |-> batch.token]
           said == FromProto(batch.items, batch.reply)
<1>4. /\ heard' = [of |-> of, said |-> said]
      /\ decidedAt' = IF said = Failed THEN decidedAt
                      ELSE CHOOSE d \in Latest(said) : \A e \in Latest(said) : d >= e
  BY DEF BatchDone, Hears
<1>5. /\ batch.items \in Batches /\ batch.items # << >> /\ batch.token \in Nat
      /\ \/ batch.reply = Failed
         \/ \E revision \in DOMAIN ledger :
              \/ batch.reply = BatchReply(batch.items, batch.token, revision)
              \/ batch.reply = Tail(BatchReply(batch.items, batch.token, revision))
  BY DEF BatchDone, NeighboursInv, BatchUnderWay
<1>6. ASSUME said # Failed
      PROVE  \E revision \in DOMAIN ledger : said = BatchReply(batch.items, batch.token, revision)
  <2>1. said = batch.reply /\ batch.reply # Failed /\ Len(batch.reply) = Len(batch.items)
    BY <1>6 DEF FromProto
  <2>2. PICK revision \in DOMAIN ledger :
              \/ batch.reply = BatchReply(batch.items, batch.token, revision)
              \/ batch.reply = Tail(BatchReply(batch.items, batch.token, revision))
    BY <1>5, <2>1
  <2>3. Len(Tail(BatchReply(batch.items, batch.token, revision))) # Len(batch.items)
    BY <1>5, ReplyLength
  <2> QED BY <2>1, <2>2, <2>3
<1>7. ASSUME said # Failed
      PROVE  /\ BatchIsTrue(of, said)
             /\ \E revision \in Nat :
                  \A i \in DOMAIN said : said[i].decidedAt \in {0, revision}
  <2>1. PICK revision \in DOMAIN ledger : said = BatchReply(batch.items, batch.token, revision)
    BY <1>6, <1>7
  <2>2. DOMAIN said = DOMAIN batch.items BY <2>1 DEF BatchReply
  <2>3. ledger \in Ledgers /\ revision \in Nat BY <2>1 DEF NeighboursInv, Ledgers
  <2>4. /\ BatchIsTrue(of, BatchReply(batch.items, batch.token, revision))
        /\ \A i \in DOMAIN batch.items :
             BatchReply(batch.items, batch.token, revision)[i].decidedAt \in {0, revision}
    BY <1>5, <2>3, DecisionsAreTrue
  <2> HIDE DEF of, said
  <2> QED BY <2>1, <2>2, <2>3, <2>4
<1>8. NeighboursAreHeard'
  <2>1. of.call = "batch" OBVIOUS
  <2>2. UNCHANGED ledger BY <1>1
  <2> HIDE DEF of, said
  <2> QED BY <1>4, <1>7, <2>1, <2>2, SaidIsHeard
<1>9. decidedAt' \in Nat
  <2>1. CASE said = Failed BY <1>4, <2>1 DEF NeighboursInv
  <2>2. CASE said # Failed
    <3>1. PICK revision \in Nat : \A i \in DOMAIN said : said[i].decidedAt \in {0, revision}
      BY <1>7, <2>2
    <3> HIDE DEF said
    <3>2. Latest(said) \subseteq {0, revision, decidedAt} /\ decidedAt \in Latest(said)
      BY <3>1 DEF Latest
    <3>3. decidedAt \in Nat /\ revision \in Nat BY <3>1 DEF NeighboursInv
    <3>4. \E d \in Latest(said) : \A e \in Latest(said) : d >= e
      <4>1. CASE revision \in Latest(said) /\ revision >= decidedAt BY <3>2, <3>3, <4>1
      <4>2. CASE ~ (revision \in Latest(said) /\ revision >= decidedAt)
        <5>1. \A e \in Latest(said) : decidedAt >= e BY <3>2, <3>3, <4>2
        <5> QED BY <3>2, <5>1
      <4> QED BY <4>1, <4>2
    <3>5. decidedAt' \in Latest(said) BY <1>4, <2>2, <3>4
    <3> QED BY <3>2, <3>3, <3>5
  <2> QED BY <2>1, <2>2
<1> QED BY <1>1, <1>2, <1>3, <1>8, <1>9 DEF NeighboursInv

LEMMA BatchFailsStep == ASSUME NeighboursInv, BatchFails PROVE NeighboursInv'
<1>1. LookupUnderWay' BY LookupIsLeft DEF BatchFails, NeighboursInv
<1>2. BatchUnderWay' BY DEF BatchFails, BatchUnderWay
<1>3. heard'.said = Failed BY DEF BatchFails, Hears
<1>4. NeighboursAreHeard' BY <1>3 DEF NeighboursAreHeard
<1> QED BY <1>1, <1>2, <1>4 DEF BatchFails, NeighboursInv

LEMMA NeighboursStay ==
  ASSUME NeighboursInv, UNCHANGED neighboursVars PROVE NeighboursInv'
<1>1. UNCHANGED <<suppliers, ledger, lookup, batch, decidedAt, heard>> BY DEF neighboursVars
<1>2. LookupUnderWay' BY <1>1, LookupIsLeft DEF NeighboursInv
<1>3. BatchUnderWay' BY <1>1, BatchIsLeft DEF NeighboursInv
<1>4. NeighboursAreHeard'
  BY <1>1 DEF NeighboursInv, NeighboursAreHeard, LookupIsTrue, BatchIsTrue
<1> QED BY <1>1, <1>2, <1>3, <1>4 DEF NeighboursInv

(* What a Core tells its caller about suppliers and permissions is what    *)
(* core-clients or the PDP knew while the call lasted, whatever the ids,   *)
(* the items and the token, and however often either neighbour changes     *)
(* (parties/client.go, pdp/client.go): no id that is cut off at the wire   *)
(* is another supplier's, no short answer is taken for a whole one, and no *)
(* revocation that the Core was told of is undone.                         *)
THEOREM NeighboursHeard == NeighboursSpec => []NeighboursAreHeard
<1>1. ASSUME NeighboursInv, [NeighboursNext]_neighboursVars PROVE NeighboursInv'
  <2>1. CASE Block BY <1>1, <2>1, BlockStep
  <2>2. CASE ClientsServe BY <1>1, <2>2, ClientsServeStep
  <2>3. CASE LookedUp BY <1>1, <2>3, LookedUpStep
  <2>4. CASE LookupFails BY <1>1, <2>4, LookupFailsStep
  <2>5. ASSUME NEW ids \in Lookups, LookupSuppliers(ids) PROVE NeighboursInv'
    BY <1>1, <2>5, LookupSuppliersStep
  <2>6. CASE Grant BY <1>1, <2>6, GrantStep
  <2>7. CASE PdpServe BY <1>1, <2>7, PdpServeStep
  <2>8. CASE BatchDone BY <1>1, <2>8, BatchDoneStep
  <2>9. CASE BatchFails BY <1>1, <2>9, BatchFailsStep
  <2>10. ASSUME NEW items \in Batches, NEW token \in {0, decidedAt}, BatchAllowed(items, token)
         PROVE  NeighboursInv'
    BY <1>1, <2>10, BatchAllowedStep
  <2>11. CASE UNCHANGED neighboursVars BY <1>1, <2>11, NeighboursStay
  <2> QED
    BY <1>1, <2>1, <2>2, <2>3, <2>4, <2>5, <2>6, <2>7, <2>8, <2>9, <2>10, <2>11
    DEF NeighboursNext, LookupNext, BatchNext
<1> QED BY NeighboursInvInit, <1>1, PTL DEF NeighboursSpec, NeighboursInv

-----------------------------------------------------------------------------
(* The context that follows the work. The way back of work is a recursion  *)
(* over what was done before it: one function obeys it, since each piece   *)
(* of work adds one value to the function of the work before.              *)
BackRule(f, up) == f = [i \in DOMAIN up |-> {i} \cup IF up[i] = 0 THEN {} ELSE f[up[i]]]

OneWayBack(up) ==
  BackRule(WaysBack(up), up) /\ \A g : BackRule(g, up) => g = WaysBack(up)

LEMMA OnlyOne ==
  ASSUME NEW up, NEW f, BackRule(f, up), \A g : BackRule(g, up) => g = f
  PROVE  OneWayBack(up) /\ WaysBack(up) = f
<1>1. WaysBack(up) = CHOOSE h : BackRule(h, up) BY Zenon DEF WaysBack, BackRule
<1>2. BackRule(WaysBack(up), up) BY <1>1, Zenon
<1>3. WaysBack(up) = f BY <1>2, Zenon
<1> QED BY <1>3, Zenon DEF OneWayBack

LEMMA NoWayBack == ASSUME NEW up, DOMAIN up = {} PROVE OneWayBack(up)
<1> DEFINE none == [i \in {} |-> {}]
<1>1. ASSUME NEW g PROVE [i \in {} |-> {i} \cup IF up[i] = 0 THEN {} ELSE g[up[i]]] = none
  OBVIOUS
<1>2. BackRule(none, up) BY <1>1, Zenon DEF BackRule
<1>3. \A g : BackRule(g, up) => g = none BY <1>1, Zenon DEF BackRule
<1> HIDE DEF none
<1> QED BY <1>2, <1>3, OnlyOne

LEMMA BackOfOneMore ==
  ASSUME NEW n \in Nat,
         NEW up, DOMAIN up = 1 .. n, \A i \in 1 .. n : up[i] # 0 => up[i] \in 1 .. i - 1,
         NEW more, DOMAIN more = 1 .. n + 1, \A i \in 1 .. n : more[i] = up[i],
         more[n + 1] # 0 => more[n + 1] \in 1 .. n,
         OneWayBack(up)
  PROVE  /\ OneWayBack(more)
         /\ \A i \in 1 .. n : WaysBack(more)[i] = WaysBack(up)[i]
         /\ WaysBack(more)[n + 1]
              = {n + 1} \cup IF more[n + 1] = 0 THEN {} ELSE WaysBack(up)[more[n + 1]]
<1> DEFINE f == WaysBack(up)
           last == {n + 1} \cup IF more[n + 1] = 0 THEN {} ELSE f[more[n + 1]]
           longer == [i \in 1 .. n + 1 |-> IF i = n + 1 THEN last ELSE f[i]]
           Back(g, i) == {i} \cup IF more[i] = 0 THEN {} ELSE g[more[i]]
<1>0. /\ \A i \in 1 .. n : i # n + 1 /\ i \in 1 .. n + 1
      /\ \A i \in 1 .. n : more[i] # 0 => more[i] \in 1 .. n
      /\ \A i \in 1 .. n + 1 : i \in 1 .. n \/ i = n + 1
  OBVIOUS
<1>1. BackRule(f, up) /\ \A g : BackRule(g, up) => g = f BY Zenon DEF OneWayBack
<1>2. f = [i \in 1 .. n |-> {i} \cup IF up[i] = 0 THEN {} ELSE f[up[i]]]
  <2>1. BackRule(f, up) BY <1>1, Zenon
  <2> HIDE DEF f
  <2> QED BY <2>1, Zenon DEF BackRule
<1> HIDE DEF f
<1>3. ASSUME NEW i \in 1 .. n PROVE f[i] = Back(f, i)
  <2>1. f[i] = {i} \cup IF up[i] = 0 THEN {} ELSE f[up[i]] BY <1>2
  <2> QED BY <2>1
<1>4. ASSUME NEW i \in 1 .. n PROVE longer[i] = f[i] BY <1>0
<1>5. n + 1 \in 1 .. n + 1 OBVIOUS
<1>6. longer[n + 1] = last BY <1>5
<1> HIDE DEF longer
<1>7. ASSUME NEW i \in 1 .. n + 1 PROVE longer[i] = Back(longer, i)
  <2>1. CASE i = n + 1 BY <1>4, <1>6, <2>1
  <2>2. CASE i \in 1 .. n
    <3>1. longer[i] = Back(f, i) BY <1>3, <1>4, <2>2
    <3>2. more[i] # 0 => longer[more[i]] = f[more[i]] BY <1>0, <1>4, <2>2
    <3> QED BY <3>1, <3>2
  <2> QED BY <1>0, <2>1, <2>2
<1>8. longer = [i \in 1 .. n + 1 |-> Back(longer, i)]
  <2>1. longer = [i \in 1 .. n + 1 |-> longer[i]] BY DEF longer
  <2> HIDE DEF Back
  <2> QED BY <1>7, <2>1
<1>9. BackRule(longer, more) BY <1>8, Zenon DEF BackRule
<1>10. ASSUME NEW g, BackRule(g, more) PROVE g = longer
  <2> DEFINE shorter == [i \in 1 .. n |-> g[i]]
  <2>1. g = [i \in 1 .. n + 1 |-> Back(g, i)] BY <1>10, Zenon DEF BackRule
  <2>2. \A i \in 1 .. n + 1 : g[i] = Back(g, i)
    <3> HIDE DEF Back
    <3> QED BY <2>1
  <2>3. \A i \in 1 .. n : shorter[i] = g[i] OBVIOUS
  <2>4. shorter = [i \in 1 .. n |-> shorter[i]] OBVIOUS
  <2> HIDE DEF shorter
  <2>5. ASSUME NEW i \in 1 .. n
        PROVE  shorter[i] = {i} \cup IF up[i] = 0 THEN {} ELSE shorter[up[i]]
    <3>1. shorter[i] = Back(g, i) BY <1>0, <2>2, <2>3
    <3>2. up[i] # 0 => shorter[up[i]] = g[up[i]] BY <1>0, <2>3
    <3> QED BY <3>1, <3>2
  <2>6. BackRule(shorter, up)
    <3>1. shorter = [i \in 1 .. n |-> {i} \cup IF up[i] = 0 THEN {} ELSE shorter[up[i]]]
      BY <2>4, <2>5
    <3> QED BY <3>1, Zenon DEF BackRule
  <2>7. shorter = f BY <1>1, <2>6, Zenon
  <2>8. \A i \in 1 .. n : g[i] = longer[i] BY <1>4, <2>3, <2>7
  <2>9. g[n + 1] = longer[n + 1]
    <3>1. g[n + 1] = Back(g, n + 1) BY <1>5, <2>2
    <3>2. more[n + 1] # 0 => g[more[n + 1]] = f[more[n + 1]] BY <2>3, <2>7
    <3> QED BY <1>6, <3>1, <3>2
  <2>10. \A i \in 1 .. n + 1 : g[i] = longer[i] BY <1>0, <2>8, <2>9
  <2>11. g = [i \in 1 .. n + 1 |-> g[i]] BY <2>1
  <2>12. longer = [i \in 1 .. n + 1 |-> longer[i]] BY DEF longer
  <2> QED BY <2>10, <2>11, <2>12
<1>11. \A g : BackRule(g, more) => g = longer BY <1>10
<1>12. OneWayBack(more) /\ WaysBack(more) = longer BY <1>9, <1>11, OnlyOne
<1>13. \A i \in 1 .. n : WaysBack(more)[i] = f[i] BY <1>4, <1>12
<1>14. WaysBack(more)[n + 1] = last BY <1>6, <1>12
<1> QED BY <1>12, <1>13, <1>14 DEF f

TracesInv == TracingInv /\ OneWayBack(HandedBy) /\ OneWayBack(CausedBy)

(* No work is done yet.                                                    *)
LEMMA TracesInvInit == TracingInit => TracesInv
<1> SUFFICES ASSUME TracingInit PROVE TracesInv OBVIOUS
<1>1. works = << >> /\ works \in Seq(AnyWork) /\ DOMAIN works = {} BY DEF TracingInit
<1>2. DOMAIN HandedBy = {} /\ DOMAIN CausedBy = {} BY <1>1 DEF HandedBy, CausedBy
<1>3. OneWayBack(HandedBy) /\ OneWayBack(CausedBy) BY <1>2, NoWayBack
<1>4. columns \in [Nodes -> BOOLEAN] BY DEF TracingInit
<1> QED BY <1>1, <1>3, <1>4
    DEF TracesInv, TracingInv, FollowsFromEarlier, TraceIsHandedOn, ChainIsHandedOn

(* What every piece of work is like when it is done.                       *)
Follows(work) ==
  /\ work \in AnyWork
  /\ work.kept \/ work.how = "event" => work.from \in DOMAIN works
  /\ IF work.kept /\ works[work.from].trace # NoTrace
     THEN work.trace = works[work.from].trace
     ELSE work.trace \in {NoTrace, Outer, Len(works) + 1}
  /\ work.how = "event" =>
       /\ work.node \in Range(work.chain)
       /\ work.kept => Range(works[work.from].chain) \subseteq Range(work.chain) \ {work.node}

LEMMA RequestFollows ==
  ASSUME TracesInv, NEW node \in Nodes, NEW traceparent \in {NoTrace, Outer},
         RequestArrives(node, traceparent)
  PROVE  \E work : Follows(work) /\ Do(work)
<1> DEFINE trace == Span(node, Extracted(node, traceparent))
           work == [node |-> node, how |-> "request", from |-> 0, kept |-> FALSE,
                    trace |-> trace, chain |-> << >>]
<1>1. Len(works) \in Nat BY DEF TracesInv, TracingInv
<1>2. trace \in {NoTrace, Outer, Len(works) + 1} BY DEF Span, Extracted
<1> HIDE DEF trace
<1>3. work \in AnyWork BY <1>1, <1>2 DEF AnyWork
<1>4. Follows(work)
  <2>1. ~ work.kept /\ work.how # "event" /\ work.trace = trace OBVIOUS
  <2> HIDE DEF work
  <2> QED BY <1>2, <1>3, <2>1 DEF Follows
<1>5. Do(work) BY DEF RequestArrives, trace
<1> QED BY <1>4, <1>5

LEMMA CallFollows ==
  ASSUME TracesInv, NEW w \in DOMAIN works, NEW node \in Nodes, NEW dialed \in BOOLEAN,
         CallOut(w, node, dialed)
  PROVE  \E work : Follows(work) /\ Do(work)
<1> DEFINE trace == Span(node, Extracted(node, Injected(w, dialed)))
           work == [node |-> node, how |-> "call", from |-> w, kept |-> dialed,
                    trace |-> trace, chain |-> << >>]
<1>1. /\ Len(works) \in Nat /\ DOMAIN works = 1 .. Len(works)
      /\ works[w] \in AnyWork
  BY DEF TracesInv, TracingInv
<1>2. \A e : Setup(e).propagates BY DEF Setup
<1>3. Extracted(node, Injected(w, dialed)) = IF dialed THEN works[w].trace ELSE NoTrace
  BY <1>2 DEF Extracted, Injected
<1>4. /\ dialed /\ works[w].trace # NoTrace => trace = works[w].trace
      /\ ~ (dialed /\ works[w].trace # NoTrace) => trace \in {NoTrace, Len(works) + 1}
  BY <1>3 DEF Span
<1>5. trace \in Nat \cup {NoTrace, Outer} BY <1>1, <1>4 DEF AnyWork
<1> HIDE DEF trace
<1>6. work \in AnyWork BY <1>1, <1>5 DEF AnyWork
<1>7. Follows(work)
  <2>1. work.kept = dialed /\ work.how # "event" /\ work.trace = trace /\ work.from = w OBVIOUS
  <2> HIDE DEF work
  <2> QED BY <1>4, <1>6, <2>1 DEF Follows
<1>8. Do(work) BY DEF CallOut, trace
<1> QED BY <1>7, <1>8

LEMMA ReactionFollows ==
  ASSUME TracesInv, NEW w \in DOMAIN works, NEW with \in BOOLEAN, NEW node \in Nodes,
         React(w, with, node)
  PROVE  \E work : Follows(work) /\ Do(work)
<1> DEFINE kept == with /\ columns[works[w].node]
           envelope == Envelope(w, with)
           trace == Span(node, envelope.trace)
           chain == Append(envelope.chain, node)
           work == [node |-> node, how |-> "event", from |-> w, kept |-> kept,
                    trace |-> trace, chain |-> chain]
<1>1. /\ Len(works) \in Nat /\ DOMAIN works = 1 .. Len(works)
      /\ works[w] \in AnyWork
  BY DEF TracesInv, TracingInv
<1>2. kept \in BOOLEAN
  <2>1. columns \in [Nodes -> BOOLEAN] BY DEF TracesInv, TracingInv
  <2>2. works[w].node \in Nodes BY <1>1 DEF AnyWork
  <2> QED BY <2>1, <2>2
<1>3. envelope = IF kept THEN [trace |-> works[w].trace, chain |-> works[w].chain]
                 ELSE [trace |-> NoTrace, chain |-> << >>]
  BY DEF Envelope, RowOf
<1>4. envelope.chain \in Seq(Nodes) BY <1>1, <1>3 DEF AnyWork
<1> HIDE DEF envelope, kept
<1>5. /\ kept /\ works[w].trace # NoTrace => trace = works[w].trace
      /\ ~ (kept /\ works[w].trace # NoTrace) => trace \in {NoTrace, Len(works) + 1}
  BY <1>3 DEF Span
<1>6. trace \in Nat \cup {NoTrace, Outer} BY <1>1, <1>5 DEF AnyWork
<1>7. chain \in Seq(Nodes) /\ Range(chain) = Range(envelope.chain) \cup {node}
  <2> HIDE DEF chain
  <2>1. chain \in Seq(Nodes) /\ Len(chain) = Len(envelope.chain) + 1 BY <1>4 DEF chain
  <2>2. /\ chain[Len(chain)] = node
        /\ \A i \in DOMAIN envelope.chain : i \in DOMAIN chain /\ chain[i] = envelope.chain[i]
        /\ \A i \in DOMAIN chain : i \in DOMAIN envelope.chain \/ i = Len(chain)
        /\ Len(chain) \in DOMAIN chain
    BY <1>4, <2>1 DEF chain
  <2> QED BY <2>1, <2>2 DEF Range
<1>8. node \notin Range(envelope.chain) BY DEF React, NextCausation, envelope
<1> HIDE DEF trace, chain
<1>9. kept => envelope.chain = works[w].chain BY <1>3
<1>10. work \in AnyWork BY <1>1, <1>2, <1>6, <1>7 DEF AnyWork
<1>11. Follows(work)
  <2>1. /\ work.kept = kept /\ work.how = "event" /\ work.trace = trace /\ work.from = w
        /\ work.node = node /\ work.chain = chain
    OBVIOUS
  <2> HIDE DEF work
  <2>2. work.node \in Range(work.chain) BY <1>7, <2>1
  <2>3. work.kept => Range(works[w].chain) \subseteq Range(work.chain) \ {work.node}
    BY <1>7, <1>8, <1>9, <2>1
  <2> QED BY <1>5, <1>10, <2>1, <2>2, <2>3 DEF Follows
<1>12. Do(work) BY DEF React, kept, envelope, trace, chain
<1> QED BY <1>11, <1>12

(* Another piece of work leaves what is known of the work before.          *)
LEMMA WorkIsDone == ASSUME TracesInv, NEW work, Follows(work), Do(work) PROVE TracesInv'
<1> DEFINE n == Len(works)
<1>1. /\ n \in Nat /\ DOMAIN works = 1 .. n /\ works \in Seq(AnyWork) /\ work \in AnyWork
      /\ FollowsFromEarlier /\ TraceIsHandedOn /\ ChainIsHandedOn
      /\ columns \in [Nodes -> BOOLEAN]
  BY DEF TracesInv, TracingInv, Follows
<1>2. works' = Append(works, work) /\ columns' = columns BY DEF Do
<1>3. /\ works' \in Seq(AnyWork) /\ DOMAIN works' = 1 .. n + 1 /\ works'[n + 1] = work
      /\ \A i \in 1 .. n : works'[i] = works[i]
  BY <1>1, <1>2
<1>4. work.kept \/ work.how = "event" => work.from \in 1 .. n BY <1>1 DEF Follows
<1>5. /\ n + 1 \in 1 .. n + 1 /\ 1 .. n \subseteq 1 .. n + 1
      /\ \A i \in 1 .. n + 1 : i \in 1 .. n \/ i = n + 1
      /\ \A i \in 1 .. n : i # n + 1
  BY <1>1
<1>6. \A i \in 1 .. n : works[i].kept \/ works[i].how = "event" =>
        works[i].from \in 1 .. i - 1 /\ works[i].from \in 1 .. n /\ works[i].from # 0
  BY <1>1 DEF FollowsFromEarlier
<1>7. FollowsFromEarlier'
  <2>1. \A i \in 1 .. n + 1 : works'[i].kept \/ works'[i].how = "event" =>
          works'[i].from \in 1 .. i - 1
    <3>1. \A i \in 1 .. n : works'[i].kept \/ works'[i].how = "event" =>
            works'[i].from \in 1 .. i - 1
      BY <1>3, <1>6
    <3>2. work.kept \/ work.how = "event" => work.from \in 1 .. (n + 1) - 1 BY <1>1, <1>4
    <3> QED BY <1>3, <1>5, <3>1, <3>2
  <2> QED BY <1>3, <2>1 DEF FollowsFromEarlier
<1>8. PICK handed, handed1, caused, caused1 :
        handed = HandedBy /\ handed1 = HandedBy' /\ caused = CausedBy /\ caused1 = CausedBy'
  OBVIOUS
<1> HIDE DEF n
<1>9. /\ DOMAIN handed = 1 .. n
      /\ \A i \in 1 .. n :
           handed[i] = IF works[i].kept /\ works[works[i].from].trace # NoTrace
                       THEN works[i].from ELSE 0
  BY <1>1, <1>8 DEF HandedBy
<1>10. /\ DOMAIN handed1 = 1 .. n + 1
       /\ \A i \in 1 .. n + 1 :
            handed1[i] = IF works'[i].kept /\ works'[works'[i].from].trace # NoTrace
                         THEN works'[i].from ELSE 0
  BY <1>3, <1>8 DEF HandedBy
<1>11. \A i \in 1 .. n : handed1[i] = handed[i] BY <1>3, <1>5, <1>6, <1>9, <1>10
<1>12. handed1[n + 1] = IF work.kept /\ works[work.from].trace # NoTrace THEN work.from ELSE 0
  BY <1>3, <1>4, <1>5, <1>10
<1>13. /\ DOMAIN caused = 1 .. n
       /\ \A i \in 1 .. n :
            caused[i] = IF works[i].how = "event" /\ works[i].kept THEN works[i].from ELSE 0
  BY <1>1, <1>8 DEF CausedBy
<1>14. /\ DOMAIN caused1 = 1 .. n + 1
       /\ \A i \in 1 .. n + 1 :
            caused1[i] = IF works'[i].how = "event" /\ works'[i].kept THEN works'[i].from ELSE 0
  BY <1>3, <1>8 DEF CausedBy
<1>15. \A i \in 1 .. n : caused1[i] = caused[i] BY <1>3, <1>5, <1>13, <1>14
<1>16. caused1[n + 1] = IF work.how = "event" /\ work.kept THEN work.from ELSE 0
  BY <1>3, <1>5, <1>14
<1>17. /\ OneWayBack(handed1)
       /\ \A i \in 1 .. n : WaysBack(handed1)[i] = WaysBack(handed)[i]
       /\ WaysBack(handed1)[n + 1]
            = {n + 1} \cup IF handed1[n + 1] = 0 THEN {} ELSE WaysBack(handed)[handed1[n + 1]]
  <2>1. OneWayBack(handed) BY <1>8 DEF TracesInv
  <2>2. \A i \in 1 .. n : handed[i] # 0 => handed[i] \in 1 .. i - 1 BY <1>6, <1>9
  <2>3. handed1[n + 1] # 0 => handed1[n + 1] \in 1 .. n BY <1>4, <1>12
  <2> QED BY <1>1, <1>9, <1>10, <1>11, <2>1, <2>2, <2>3, BackOfOneMore
<1>18. /\ OneWayBack(caused1)
       /\ \A i \in 1 .. n : WaysBack(caused1)[i] = WaysBack(caused)[i]
       /\ WaysBack(caused1)[n + 1]
            = {n + 1} \cup IF caused1[n + 1] = 0 THEN {} ELSE WaysBack(caused)[caused1[n + 1]]
  <2>1. OneWayBack(caused) BY <1>8 DEF TracesInv
  <2>2. \A i \in 1 .. n : caused[i] # 0 => caused[i] \in 1 .. i - 1 BY <1>6, <1>13
  <2>3. caused1[n + 1] # 0 => caused1[n + 1] \in 1 .. n BY <1>4, <1>16
  <2> QED BY <1>1, <1>13, <1>14, <1>15, <2>1, <2>2, <2>3, BackOfOneMore
<1>19. TraceIsHandedOn'
  <2> DEFINE back == WaysBack(handed1)
             old == WaysBack(handed)
  <2>1. ASSUME NEW i \in 1 .. n
        PROVE  /\ old[i] \subseteq 1 .. n
               /\ handed[i] # 0 => works[i].trace # NoTrace
               /\ works[i].trace # NoTrace =>
                    /\ \A j \in old[i] : works[j].trace = works[i].trace
                    /\ works[i].trace \in {Outer} \cup old[i]
    BY <1>1, <1>8 DEF TraceIsHandedOn
  <2>2. /\ \A i \in 1 .. n : back[i] = old[i]
        /\ back[n + 1]
             = {n + 1} \cup IF handed1[n + 1] = 0 THEN {} ELSE old[handed1[n + 1]]
    BY <1>17
  <2> HIDE DEF back, old
  <2>3. ASSUME NEW i \in 1 .. n + 1
        PROVE  /\ back[i] \subseteq 1 .. n + 1
               /\ handed1[i] # 0 => works'[i].trace # NoTrace
               /\ works'[i].trace # NoTrace =>
                    /\ \A j \in back[i] : works'[j].trace = works'[i].trace
                    /\ works'[i].trace \in {Outer} \cup back[i]
    <3>1. CASE i \in 1 .. n
      <4>1. back[i] = old[i] /\ old[i] \subseteq 1 .. n /\ works'[i] = works[i]
            /\ handed1[i] = handed[i]
        BY <1>3, <1>11, <2>1, <2>2, <3>1
      <4>2. \A j \in back[i] : works'[j] = works[j] BY <1>3, <4>1
      <4> QED BY <1>5, <2>1, <3>1, <4>1, <4>2
    <3>2. CASE i = n + 1 /\ handed1[n + 1] = 0
      <4>1. back[i] = {n + 1} BY <2>2, <3>2
      <4>2. ~ (work.kept /\ works[work.from].trace # NoTrace) BY <1>4, <1>12, <1>5, <3>2, <1>1
      <4>3. work.trace \in {NoTrace, Outer, n + 1} BY <4>2 DEF Follows, n
      <4> QED BY <1>3, <1>5, <3>2, <4>1, <4>3
    <3>3. CASE i = n + 1 /\ handed1[n + 1] # 0
      <4>1. /\ work.kept /\ works[work.from].trace # NoTrace /\ work.from \in 1 .. n
            /\ handed1[n + 1] = work.from
        BY <1>4, <1>12, <3>3
      <4>2. work.trace = works[work.from].trace BY <4>1 DEF Follows
      <4>3. back[i] = {n + 1} \cup old[work.from] BY <2>2, <3>3, <4>1
      <4>4. /\ old[work.from] \subseteq 1 .. n
            /\ \A j \in old[work.from] : works[j].trace = work.trace
            /\ work.trace \in {Outer} \cup old[work.from]
        BY <2>1, <4>1, <4>2
      <4>5. \A j \in back[i] : works'[j].trace = work.trace BY <1>3, <4>3, <4>4
      <4>6. back[i] \subseteq 1 .. n + 1 BY <1>5, <4>3, <4>4
      <4>7. work.trace # NoTrace /\ work.trace \in {Outer} \cup back[i]
        BY <4>1, <4>2, <4>3, <4>4
      <4> QED BY <1>3, <3>3, <4>5, <4>6, <4>7
    <3> QED BY <1>5, <3>1, <3>2, <3>3
  <2> QED BY <1>3, <1>8, <2>3 DEF TraceIsHandedOn, back
<1>20. ChainIsHandedOn'
  <2> DEFINE back == WaysBack(caused1)
             old == WaysBack(caused)
  <2>1. ASSUME NEW i \in 1 .. n
        PROVE  /\ old[i] \subseteq 1 .. n
               /\ \A j \in old[i] :
                    works[i].how = "event" /\ works[j].how = "event" =>
                      /\ works[j].node \in Range(works[i].chain)
                      /\ j # i => works[j].node # works[i].node
    BY <1>1, <1>8 DEF ChainIsHandedOn
  <2>2. /\ \A i \in 1 .. n : back[i] = old[i]
        /\ back[n + 1]
             = {n + 1} \cup IF caused1[n + 1] = 0 THEN {} ELSE old[caused1[n + 1]]
    BY <1>18
  <2> HIDE DEF back, old
  <2>3. ASSUME NEW i \in 1 .. n
        PROVE  old[i] = {i} \cup IF caused[i] = 0 THEN {} ELSE old[caused[i]]
    <3>1. OneWayBack(caused) BY <1>8 DEF TracesInv
    <3>2. old = [k \in 1 .. n |-> {k} \cup IF caused[k] = 0 THEN {} ELSE old[caused[k]]]
      BY <1>13, <3>1 DEF OneWayBack, BackRule, old
    <3> QED BY <3>2
  <2>4. ASSUME NEW i \in 1 .. n + 1
        PROVE  /\ back[i] \subseteq 1 .. n + 1
               /\ \A j \in back[i] :
                    works'[i].how = "event" /\ works'[j].how = "event" =>
                      /\ works'[j].node \in Range(works'[i].chain)
                      /\ j # i => works'[j].node # works'[i].node
    <3>1. CASE i \in 1 .. n
      <4>1. back[i] = old[i] /\ old[i] \subseteq 1 .. n /\ works'[i] = works[i]
        BY <1>3, <2>1, <2>2, <3>1
      <4>2. \A j \in back[i] : works'[j] = works[j] BY <1>3, <4>1
      <4> QED BY <1>5, <2>1, <3>1, <4>1, <4>2
    <3>2. CASE i = n + 1 /\ caused1[n + 1] = 0
      <4>1. back[i] = {n + 1} BY <2>2, <3>2
      <4>2. work.how = "event" => work.node \in Range(work.chain) BY DEF Follows
      <4> QED BY <1>3, <1>5, <3>2, <4>1, <4>2
    <3>3. CASE i = n + 1 /\ caused1[n + 1] # 0
      <4>1. /\ work.how = "event" /\ work.kept /\ work.from \in 1 .. n
            /\ caused1[n + 1] = work.from
        BY <1>4, <1>16, <3>3
      <4>2. /\ work.node \in Range(work.chain)
            /\ Range(works[work.from].chain) \subseteq Range(work.chain) \ {work.node}
        BY <4>1 DEF Follows
      <4>3. back[i] = {n + 1} \cup old[work.from] /\ old[work.from] \subseteq 1 .. n
        BY <2>1, <2>2, <3>3, <4>1
      <4>4. ASSUME NEW j \in old[work.from], works[j].how = "event"
            PROVE  works[j].node \in Range(works[work.from].chain)
        <5>1. CASE works[work.from].how = "event" BY <2>1, <4>1, <4>4, <5>1
        <5>2. CASE works[work.from].how # "event"
          <6>1. caused[work.from] = 0 BY <1>13, <4>1, <5>2
          <6>2. old[work.from] = {work.from} BY <2>3, <4>1, <6>1
          <6> QED BY <4>4, <5>2, <6>2
        <5> QED BY <5>1, <5>2
      <4>5. ASSUME NEW j \in back[i], works'[j].how = "event"
            PROVE  /\ works'[j].node \in Range(work.chain)
                   /\ j # i => works'[j].node # work.node
        <5>1. CASE j = n + 1 BY <1>3, <3>3, <4>2, <5>1
        <5>2. CASE j \in old[work.from]
          <6>1. works'[j] = works[j] BY <1>3, <4>3, <5>2
          <6>2. works[j].node \in Range(works[work.from].chain) BY <4>4, <4>5, <5>2, <6>1
          <6> QED BY <4>2, <6>1, <6>2
        <5> QED BY <4>3, <5>1, <5>2
      <4>6. back[i] \subseteq 1 .. n + 1 BY <1>5, <4>3
      <4> QED BY <1>3, <3>3, <4>5, <4>6
    <3> QED BY <1>5, <3>1, <3>2, <3>3
  <2> QED BY <1>3, <1>8, <2>4 DEF ChainIsHandedOn, back
<1>21. OneWayBack(HandedBy)' /\ OneWayBack(CausedBy)' BY <1>8, <1>17, <1>18
<1> QED BY <1>1, <1>2, <1>3, <1>7, <1>19, <1>20, <1>21 DEF TracesInv, TracingInv

LEMMA TracesStay == ASSUME TracesInv, UNCHANGED tracingVars PROVE TracesInv'
<1>1. UNCHANGED <<works, columns>> BY DEF tracingVars
<1>2. UNCHANGED <<HandedBy, CausedBy>> BY <1>1 DEF HandedBy, CausedBy
<1>3. OneWayBack(HandedBy)' /\ OneWayBack(CausedBy)' BY <1>2 DEF TracesInv
<1>4. TraceIsHandedOn' BY <1>1, <1>2 DEF TracesInv, TracingInv, TraceIsHandedOn
<1>5. ChainIsHandedOn' BY <1>1, <1>2 DEF TracesInv, TracingInv, ChainIsHandedOn
<1>6. FollowsFromEarlier' BY <1>1 DEF TracesInv, TracingInv, FollowsFromEarlier
<1> QED BY <1>1, <1>3, <1>4, <1>5, <1>6 DEF TracesInv, TracingInv

(* Two ways back that meet are of one trace, and a trace of a Core's own   *)
(* is where all its ways go; a reaction's chain bars it from whoever wrote *)
(* an event on its way.                                                    *)
LEMMA TracesImply == TracesInv => ContextFollows
<1> SUFFICES ASSUME TracesInv PROVE ContextFollows OBVIOUS
<1> DEFINE back == WaysBack(HandedBy)
           traced == {k \in DOMAIN works : works[k].trace # NoTrace}
<1>1. /\ DOMAIN works = 1 .. Len(works) /\ works \in Seq(AnyWork)
      /\ \A i \in DOMAIN works : works[i] \in AnyWork
  BY DEF TracesInv, TracingInv
<1>2. ASSUME NEW i \in DOMAIN works
      PROVE  /\ back[i] \subseteq DOMAIN works
             /\ HandedBy[i] # 0 => works[i].trace # NoTrace
             /\ works[i].trace # NoTrace =>
                  /\ \A j \in back[i] : works[j].trace = works[i].trace
                  /\ works[i].trace \in {Outer} \cup back[i]
  BY DEF TracesInv, TracingInv, TraceIsHandedOn
<1>3. ASSUME NEW i \in DOMAIN works, works[i].kept, works[i].from \in traced PROVE i \in traced
  <2>1. HandedBy[i] = works[i].from BY <1>3 DEF HandedBy
  <2>2. works[i].from # 0 BY <1>1, <1>3
  <2> QED BY <1>2, <2>1, <2>2
<1> HIDE DEF back
<1>4. ASSUME NEW i \in traced, NEW j \in traced
      PROVE  works[i].trace = works[j].trace
               <=> back[i] \cap back[j] # {} \/ {works[i].trace, works[j].trace} = {Outer}
  <2>1. ASSUME works[i].trace = works[j].trace, works[i].trace # Outer
        PROVE  back[i] \cap back[j] # {}
    <3>1. works[i].trace \in back[i] /\ works[j].trace \in back[j] BY <1>2, <2>1
    <3> QED BY <2>1, <3>1
  <2>2. ASSUME NEW k \in back[i] \cap back[j] PROVE works[i].trace = works[j].trace
    BY <1>2
  <2> QED BY <2>1, <2>2
<1>5. TracesAreStories
  <2> HIDE DEF traced
  <2> QED BY <1>3, <1>4 DEF TracesAreStories, traced, back
<1>6. LoopsEnd BY DEF TracesInv, TracingInv, ChainIsHandedOn, LoopsEnd
<1> QED BY <1>5, <1>6 DEF ContextFollows

(* However the work goes on from Core to Core, by calls and by events,     *)
(* with whatever environments, relays and connections on the way           *)
(* (telemetry.go, meta.go): what is in one trace followed from one piece   *)
(* of work, what lost it on the way is in no trace of another, and no Core *)
(* reacts to what its own reaction brought about while the chain is kept.  *)
THEOREM ContextIsFollowed == TracingSpec => []ContextFollows
<1>1. ASSUME TracesInv, [TracingNext]_tracingVars PROVE TracesInv'
  <2>1. ASSUME NEW node \in Nodes, NEW traceparent \in {NoTrace, Outer},
               RequestArrives(node, traceparent)
        PROVE  TracesInv'
    <3>1. PICK work : Follows(work) /\ Do(work) BY <1>1, <2>1, RequestFollows
    <3> QED BY <1>1, <3>1, WorkIsDone
  <2>2. ASSUME NEW w \in DOMAIN works, NEW node \in Nodes, NEW aware \in BOOLEAN,
               CallOut(w, node, aware)
        PROVE  TracesInv'
    <3>1. PICK work : Follows(work) /\ Do(work) BY <1>1, <2>2, CallFollows
    <3> QED BY <1>1, <3>1, WorkIsDone
  <2>3. ASSUME NEW w \in DOMAIN works, NEW node \in Nodes, NEW aware \in BOOLEAN,
               React(w, aware, node)
        PROVE  TracesInv'
    <3>1. PICK work : Follows(work) /\ Do(work) BY <1>1, <2>3, ReactionFollows
    <3> QED BY <1>1, <3>1, WorkIsDone
  <2>4. CASE UNCHANGED tracingVars BY <1>1, <2>4, TracesStay
  <2> QED BY <1>1, <2>1, <2>2, <2>3, <2>4 DEF TracingNext
<1> QED BY TracesInvInit, TracesImply, <1>1, PTL DEF TracingSpec

-----------------------------------------------------------------------------
(* The exchange rates.                                                       *)

(* A set of numbers with 0 and each next one has them all.                 *)
LEMMA AllNumbers ==
  ASSUME NEW T \in SUBSET Nat, 0 \in T, \A n \in T : n + 1 \in T
  PROVE  T = Nat
<1> SUFFICES ASSUME Nat \ T # {} PROVE FALSE
  OBVIOUS
<1> DEFINE Less == OpToRel(<, Nat)
<1>0. IsWellFoundedOn(Less, Nat)
  BY NatLessThanWellFounded, Zenon
<1>5. \A m, n \in Nat : m < n => <<m, n>> \in Less
  BY Zenon DEF OpToRel
<1> HIDE DEF Less
<1>1. PICK n \in Nat \ T : \A m \in Nat \ T : ~ (<<m, n>> \in Less)
  BY <1>0, WFMin
<1>2. n - 1 \in Nat /\ n - 1 < n
  BY <1>1
<1>3. n - 1 \notin T
  BY <1>2
<1>4. <<n - 1, n>> \in Less
  BY <1>1, <1>2, <1>5
<1> QED
  BY <1>1, <1>2, <1>3, <1>4

\* Points of different days, each with a number for its day.
Dated(points) ==
  /\ IsFiniteSet(points)
  /\ \A p \in points : p.day \in Int
  /\ \A p, q \in points : p.day = q.day => p = q

\* The same points, one after the other by day.
IsByDay(list, points) ==
  /\ list \in [1 .. Cardinality(points) -> points]
  /\ \A point \in points : \E i \in DOMAIN list : list[i] = point
  /\ \A i, j \in DOMAIN list : i < j => list[i].day < list[j].day

\* Of some points one is the last.
LEMMA LastDay ==
  ASSUME NEW points, Dated(points), points # {}
  PROVE  \E last \in points : \A p \in points : p = last \/ p.day < last.day
<1> DEFINE HasLast(S) == S # {} => \E last \in S : \A p \in S : p.day <= last.day
           T == {n \in Nat : \A S \in SUBSET points : Cardinality(S) = n => HasLast(S)}
<1>1. \A S \in SUBSET points : IsFiniteSet(S) /\ Cardinality(S) \in Nat
  BY FS_Subset, FS_CardinalityType DEF Dated
<1>2. 0 \in T BY <1>1, FS_EmptySet
<1>3. ASSUME NEW n \in T PROVE n + 1 \in T
  <2> SUFFICES ASSUME NEW S \in SUBSET points, Cardinality(S) = n + 1, S # {}
               PROVE  \E last \in S : \A p \in S : p.day <= last.day
    OBVIOUS
  <2>1. PICK p \in S : TRUE OBVIOUS
  <2>2. Cardinality(S \ {p}) = n /\ S \ {p} \in SUBSET points
    <3>1. Cardinality(S \ {p}) = Cardinality(S) - 1 BY <1>1, <2>1, FS_RemoveElement
    <3> QED BY <3>1
  <2>3. HasLast(S \ {p}) BY <2>2
  <2>4. \A q \in S : q.day \in Int BY DEF Dated
  <2>5. CASE S \ {p} = {}
    <3>1. \A q \in S : q = p BY <2>5
    <3>2. \A q \in S : q.day <= p.day BY <2>4, <3>1
    <3> QED BY <2>1, <3>2
  <2>6. CASE S \ {p} # {}
    <3>1. PICK last \in S \ {p} : \A q \in S \ {p} : q.day <= last.day BY <2>3, <2>6
    <3>2. CASE p.day <= last.day
      <4>1. \A q \in S : q.day <= last.day BY <3>1, <3>2
      <4> QED BY <3>1, <4>1
    <3>3. CASE ~ (p.day <= last.day)
      <4>1. \A q \in S \ {p} : q.day <= p.day BY <2>1, <2>4, <3>1, <3>3
      <4>2. p.day <= p.day BY <2>1, <2>4
      <4>3. \A q \in S : q.day <= p.day BY <4>1, <4>2
      <4> QED BY <2>1, <4>3
    <3> QED BY <3>2, <3>3
  <2> QED BY <2>5, <2>6
<1>4. T = Nat
  <2> HIDE DEF T
  <2>1. T \in SUBSET Nat BY DEF T
  <2> QED BY <1>2, <1>3, <2>1, AllNumbers
<1>5. HasLast(points) BY <1>1, <1>4
<1>6. PICK last \in points : \A p \in points : p.day <= last.day BY <1>5
<1>7. \A p \in points : p = last \/ p.day < last.day BY <1>6 DEF Dated
<1> QED BY <1>6, <1>7

\* Points of different days can be put in order.
LEMMA ListsExist ==
  ASSUME NEW points, Dated(points)
  PROVE  \E list : IsByDay(list, points)
<1> DEFINE T == {n \in Nat : \A S \in SUBSET points : Cardinality(S) = n => \E list : IsByDay(list, S)}
<1>1. \A S \in SUBSET points : IsFiniteSet(S) /\ Cardinality(S) \in Nat /\ Dated(S)
  BY FS_Subset, FS_CardinalityType DEF Dated
<1>2. 0 \in T
  <2> SUFFICES ASSUME NEW S \in SUBSET points, Cardinality(S) = 0 PROVE \E list : IsByDay(list, S)
    OBVIOUS
  <2>1. S = {} BY <1>1, FS_EmptySet
  <2> DEFINE none == [i \in 1 .. 0 |-> 0]
  <2>2. none \in [1 .. 0 -> {}] /\ DOMAIN none = {} OBVIOUS
  <2>3. IsByDay(none, S) BY <2>1, <2>2 DEF IsByDay
  <2> QED BY <2>3
<1>3. ASSUME NEW n \in T PROVE n + 1 \in T
  <2> SUFFICES ASSUME NEW S \in SUBSET points, Cardinality(S) = n + 1
               PROVE  \E list : IsByDay(list, S)
    OBVIOUS
  <2>0. n \in Nat OBVIOUS
  <2>1. S # {} BY <2>0, FS_EmptySet
  <2>2. PICK last \in S : \A p \in S : p = last \/ p.day < last.day BY <1>1, <2>1, LastDay
  <2> DEFINE rest == S \ {last}
  <2>3. Cardinality(rest) = n /\ rest \in SUBSET points
    <3>1. Cardinality(rest) = Cardinality(S) - 1 BY <1>1, <2>2, FS_RemoveElement
    <3> QED BY <2>0, <3>1
  <2>4. PICK list : IsByDay(list, rest) BY <2>3
  <2> DEFINE longer == [i \in 1 .. n + 1 |-> IF i = n + 1 THEN last ELSE list[i]]
  <2>5. list \in [1 .. n -> rest] BY <2>3, <2>4 DEF IsByDay
  <2>6. longer[n + 1] = last /\ \A i \in 1 .. n : longer[i] = list[i] BY <2>0
  <2>7. longer \in [1 .. n + 1 -> S] BY <2>0, <2>2, <2>5
  <2> HIDE DEF longer
  <2>8. ASSUME NEW point \in S PROVE \E i \in 1 .. n + 1 : longer[i] = point
    <3>1. CASE point = last BY <2>0, <2>6, <3>1
    <3>2. CASE point # last
      <4>1. PICK i \in 1 .. n : list[i] = point BY <2>4, <2>5, <3>2 DEF IsByDay
      <4> QED BY <2>0, <2>6, <4>1
    <3> QED BY <3>1, <3>2
  <2>9. ASSUME NEW i \in 1 .. n + 1, NEW j \in 1 .. n + 1, i < j PROVE longer[i].day < longer[j].day
    <3>1. i \in 1 .. n /\ longer[i] = list[i] /\ list[i] \in rest BY <2>0, <2>5, <2>6, <2>9
    <3>2. CASE j = n + 1
      <4>1. list[i].day < last.day BY <2>2, <3>1
      <4> QED BY <2>6, <3>1, <3>2, <4>1
    <3>3. CASE j # n + 1
      <4>1. j \in 1 .. n /\ longer[j] = list[j] BY <2>0, <2>6, <3>3
      <4>2. list[i].day < list[j].day BY <2>4, <2>5, <2>9, <3>1, <4>1 DEF IsByDay
      <4> QED BY <3>1, <4>1, <4>2
    <3> QED BY <3>2, <3>3
  <2>10. IsByDay(longer, S)
    <3>1. DOMAIN longer = 1 .. n + 1 BY <2>7
    <3> QED BY <2>7, <2>8, <2>9, <3>1 DEF IsByDay
  <2> QED BY <2>10
<1>4. T = Nat
  <2> HIDE DEF T
  <2>1. T \in SUBSET Nat BY DEF T
  <2> QED BY <1>2, <1>3, <2>1, AllNumbers
<1> QED BY <1>1, <1>4

\* Series' sort lists the points it was given by day.
LEMMA SortedByDay ==
  ASSUME NEW points, Dated(points)
  PROVE  IsByDay(ByDay(points), points)
<1> DEFINE Good(list) ==
      /\ \A point \in points : \E i \in DOMAIN list : list[i] = point
      /\ \A i, j \in DOMAIN list : i < j => list[i].day <= list[j].day /\ list[i] # list[j]
    domain == 1 .. Cardinality(points)
    sorted == CHOOSE list \in [domain -> points] : Good(list)
<1>1. PICK some : IsByDay(some, points) BY ListsExist
<1>2. some \in [domain -> points] /\ DOMAIN some = domain BY <1>1 DEF IsByDay
<1>3. ASSUME NEW i \in DOMAIN some, NEW j \in DOMAIN some, i < j
      PROVE  some[i].day <= some[j].day /\ some[i] # some[j]
  <2>1. some[i].day < some[j].day BY <1>1, <1>3 DEF IsByDay
  <2>2. some[i] \in points /\ some[j] \in points BY <1>2
  <2>3. some[i].day \in Int /\ some[j].day \in Int BY <2>2 DEF Dated
  <2> QED BY <2>1, <2>3
<1>4. Good(some) BY <1>1, <1>3 DEF IsByDay
<1> HIDE DEF Good, domain
<1>5. sorted \in [domain -> points] /\ Good(sorted) BY <1>2, <1>4
<1>6. ByDay(points) = sorted BY DEF ByDay, Good, domain
<1> HIDE DEF sorted
<1>7. ASSUME NEW i \in DOMAIN sorted, NEW j \in DOMAIN sorted, i < j
      PROVE  sorted[i].day < sorted[j].day
  <2>1. sorted[i].day <= sorted[j].day /\ sorted[i] # sorted[j] BY <1>5, <1>7 DEF Good
  <2>2. sorted[i] \in points /\ sorted[j] \in points BY <1>5
  <2> QED BY <2>1, <2>2 DEF Dated
<1> QED BY <1>5, <1>6, <1>7 DEF IsByDay, Good, domain

\* What a body has of an indicator: nothing, where it has no list.
AllPoints(body, indicator) == IF body.datos = Null THEN {} ELSE PointsOf(body, indicator)

\* A body has finitely many points.
LEMMA PointsAreFinite ==
  ASSUME NEW body \in Bodies, body.datos # Null, NEW indicator
  PROVE  IsFiniteSet(PointsOf(body, indicator))
<1> DEFINE own == {i \in DOMAIN body.datos : body.datos[i].code = indicator}
           Given(i) == {body.datos[i].series[j] : j \in DOMAIN body.datos[i].series}
           family == {Given(i) : i \in own}
<1>1. /\ Len(body.datos) \in Nat /\ DOMAIN body.datos = 1 .. Len(body.datos)
      /\ \A i \in DOMAIN body.datos :
           /\ Len(body.datos[i].series) \in Nat
           /\ DOMAIN body.datos[i].series = 1 .. Len(body.datos[i].series)
  BY RatesAssumption
<1>2. IsFiniteSet(own)
  <2>1. IsFiniteSet(1 .. Len(body.datos)) BY <1>1, FS_Interval
  <2>2. own \in SUBSET (1 .. Len(body.datos)) BY <1>1
  <2> QED BY <2>1, <2>2, FS_Subset
<1>3. ASSUME NEW i \in own PROVE IsFiniteSet(Given(i))
  <2> DEFINE spots == DOMAIN body.datos[i].series
             given == [j \in spots |-> body.datos[i].series[j]]
  <2>1. IsFiniteSet(spots)
    <3>1. i \in DOMAIN body.datos OBVIOUS
    <3>2. spots = 1 .. Len(body.datos[i].series) /\ Len(body.datos[i].series) \in Int BY <1>1, <3>1
    <3> QED BY <3>2, FS_Interval
  <2>2. given \in Surjection(spots, Given(i)) BY DEF Surjection
  <2> QED BY <2>1, <2>2, FS_Surjection
<1>4. IsFiniteSet(family)
  <2> DEFINE each == [i \in own |-> Given(i)]
  <2> HIDE DEF own, Given
  <2>1. each \in Surjection(own, family) BY DEF Surjection
  <2> QED BY <1>2, <2>1, FS_Surjection
<1>5. IsFiniteSet(UNION family)
  <2> HIDE DEF own, Given
  <2>1. \A S \in family : IsFiniteSet(S) BY <1>3
  <2> HIDE DEF family
  <2> QED BY <1>4, <2>1, FS_UNION
<1>6. PointsOf(body, indicator) = UNION family BY DEF PointsOf
<1> QED BY <1>5, <1>6

\* The points of a body are those at its spots.
LEMMA PointsAreAtSpots ==
  ASSUME NEW body, NEW indicator
  PROVE  PointsOf(body, indicator) = {PointAt(body, spot) : spot \in Spots(body, indicator)}
<1> DEFINE own == {i \in DOMAIN body.datos : body.datos[i].code = indicator}
<1>1. \A p : p \in PointsOf(body, indicator) <=>
        \E i \in own : \E j \in DOMAIN body.datos[i].series : p = body.datos[i].series[j]
  BY DEF PointsOf
<1>2. \A spot : spot \in Spots(body, indicator) <=>
        \E i \in own : \E j \in DOMAIN body.datos[i].series : spot = <<i, j>>
  BY DEF Spots
<1>3. \A i, j : PointAt(body, <<i, j>>) = body.datos[i].series[j] BY DEF PointAt
<1> HIDE DEF own
<1>4. ASSUME NEW p \in PointsOf(body, indicator)
      PROVE  \E spot \in Spots(body, indicator) : p = PointAt(body, spot)
  <2>1. PICK i \in own : \E j \in DOMAIN body.datos[i].series : p = body.datos[i].series[j] BY <1>1
  <2>2. PICK j \in DOMAIN body.datos[i].series : p = body.datos[i].series[j] BY <2>1
  <2>3. <<i, j>> \in Spots(body, indicator) BY <1>2, <2>2
  <2> QED BY <1>3, <2>2, <2>3
<1>5. ASSUME NEW spot \in Spots(body, indicator)
      PROVE  PointAt(body, spot) \in PointsOf(body, indicator)
  <2>1. PICK i \in own : \E j \in DOMAIN body.datos[i].series : spot = <<i, j>> BY <1>2
  <2>2. PICK j \in DOMAIN body.datos[i].series : spot = <<i, j>> BY <2>1
  <2> QED BY <1>1, <1>3, <2>2
<1> QED BY <1>4, <1>5

\* A body that parses has one point a day of the indicator, and what is taken
\* of them is what has a value.
LEMMA ParsedPoints ==
  ASSUME NEW body \in Bodies, NEW indicator, ParseSeries(body, indicator) # RateError
  PROVE  /\ body.estado # FALSE
         /\ ParseSeries(body, indicator) = Valued(AllPoints(body, indicator))
         /\ Dated(AllPoints(body, indicator))
         /\ \A p \in AllPoints(body, indicator) : p.value # Null => p.value \in Int /\ p.value > 0
<1> DEFINE all == AllPoints(body, indicator)
           spots == Spots(body, indicator)
<1>1. body.estado # FALSE /\ ~ (body.estado = Null /\ body.datos = Null) BY DEF ParseSeries
<1>2. CASE body.datos \in {Null, << >>}
  <2>1. ParseSeries(body, indicator) = {} BY <1>1, <1>2 DEF ParseSeries
  <2>2. all = {}
    <3>1. CASE body.datos = Null BY <3>1 DEF AllPoints
    <3>2. CASE body.datos = << >> /\ body.datos # Null
      <4>1. DOMAIN body.datos = {} BY <3>2
      <4> QED BY <3>2, <4>1 DEF AllPoints, PointsOf
    <3> QED BY <1>2, <3>1, <3>2
  <2>3. Dated(all) BY <2>2, FS_EmptySet DEF Dated
  <2> QED BY <1>1, <2>1, <2>2, <2>3 DEF Valued
<1>3. CASE body.datos \notin {Null, << >>}
  <2>1. all = {PointAt(body, spot) : spot \in spots} BY <1>3, PointsAreAtSpots DEF AllPoints
  <2>2. /\ \A spot \in spots : Sound(PointAt(body, spot))
        /\ \A spot, other \in spots : PointAt(body, spot).day = PointAt(body, other).day => spot = other
    BY <1>1, <1>3 DEF ParseSeries
  <2>3. ParseSeries(body, indicator) = Valued(all)
    BY <1>1, <1>3, <2>1, <2>2 DEF ParseSeries
  <2>4. \A p \in all : p.day \in Int \cup {Junk} /\ p.value \in Int \cup {Null, Junk}
    <3>1. all = PointsOf(body, indicator) BY <1>3 DEF AllPoints
    <3>2. \A i \in DOMAIN body.datos : \A j \in DOMAIN body.datos[i].series :
            /\ body.datos[i].series[j].day \in Int \cup {Junk}
            /\ body.datos[i].series[j].value \in Int \cup {Null, Junk}
      BY <1>3, RatesAssumption
    <3> QED BY <3>1, <3>2 DEF PointsOf
  <2> HIDE DEF all, spots
  <2>5. \A p \in all : Sound(p) BY <2>1, <2>2
  <2>6. \A p \in all : p.day \in Int /\ (p.value # Null => p.value \in Int /\ p.value > 0)
    BY <2>4, <2>5 DEF Sound
  <2>7. \A p, q \in all : p.day = q.day => p = q BY <2>1, <2>2
  <2>8. IsFiniteSet(all) BY <1>3, PointsAreFinite DEF all, AllPoints
  <2>9. Dated(all) BY <2>6, <2>7, <2>8 DEF Dated
  <2> QED BY <1>1, <2>3, <2>6, <2>9 DEF all
<1> QED BY <1>2, <1>3

\* Fewer points of different days are so too.
LEMMA FewerPoints ==
  ASSUME NEW points, Dated(points), NEW some \in SUBSET points
  PROVE  Dated(some)
BY FS_Subset DEF Dated

\* What Series answers with.
LEMMA SeriesIsWhole ==
  ASSUME NEW body \in Bodies, NEW indicator, NEW from, NEW to,
         SeriesOf(body, indicator, from, to) # RateError
  PROVE  /\ body.estado # FALSE
         /\ Dated(AllPoints(body, indicator))
         /\ \A p \in AllPoints(body, indicator) : p.value # Null => p.value \in Int /\ p.value > 0
         /\ IsByDay(SeriesOf(body, indicator, from, to),
                    {p \in AllPoints(body, indicator) : p.value # Null /\ p.day \in from .. to})
<1> DEFINE all == AllPoints(body, indicator)
           asked == {p \in all : p.value # Null /\ p.day \in from .. to}
<1>1. ParseSeries(body, indicator) # RateError BY DEF SeriesOf
<1>2. /\ body.estado # FALSE /\ ParseSeries(body, indicator) = Valued(all) /\ Dated(all)
      /\ \A p \in all : p.value # Null => p.value \in Int /\ p.value > 0
  BY <1>1, ParsedPoints
<1> HIDE DEF all
<1>3. {p \in Valued(all) : p.day \in from .. to} = asked BY DEF Valued
<1>4. SeriesOf(body, indicator, from, to) = ByDay(asked) BY <1>1, <1>2, <1>3 DEF SeriesOf
<1>5. Dated(asked) BY <1>2, FewerPoints
<1>6. IsByDay(ByDay(asked), asked) BY <1>5, SortedByDay
<1> QED BY <1>2, <1>4, <1>6 DEF all

\* What Rate answers with.
LEMMA RateIsOfTheDay ==
  ASSUME NEW body \in Bodies, NEW indicator, NEW day \in Int,
         RateOf(SeriesOf(body, indicator, day, day), day) # RateError
  PROVE  LET result == RateOf(SeriesOf(body, indicator, day, day), day)
             values == {p.value : p \in {p \in AllPoints(body, indicator) : p.day = day}}
         IN /\ body.estado # FALSE
            /\ IF result = NotPublished THEN values \subseteq {Null}
               ELSE values = {result} /\ result > 0
<1> DEFINE list == SeriesOf(body, indicator, day, day)
           result == RateOf(list, day)
           all == AllPoints(body, indicator)
           asked == {p \in all : p.value # Null /\ p.day \in day .. day}
           hits == {i \in DOMAIN list : list[i].day = day}
<1>1. list # RateError BY DEF RateOf
<1>2. /\ body.estado # FALSE /\ Dated(all) /\ IsByDay(list, asked)
      /\ \A p \in all : p.value # Null => p.value \in Int /\ p.value > 0
  BY <1>1, SeriesIsWhole
<1>3. result = IF hits = {} THEN NotPublished
               ELSE list[CHOOSE i \in hits : \A j \in hits : i <= j].value
  BY <1>1 DEF RateOf
<1> HIDE DEF list, result, all
<1>4. \A p \in all : p.day \in Int BY <1>2 DEF Dated
<1>5. CASE hits = {}
  <2>1. result = NotPublished BY <1>3, <1>5
  <2>2. ASSUME NEW p \in all, p.day = day PROVE p.value = Null
    <3> SUFFICES ASSUME p.value # Null PROVE FALSE OBVIOUS
    <3>1. p \in asked BY <2>2
    <3>2. PICK i \in DOMAIN list : list[i] = p BY <1>2, <3>1 DEF IsByDay
    <3> QED BY <1>5, <2>2, <3>2
  <2> QED BY <1>2, <2>1, <2>2 DEF list, result, all
<1>6. CASE hits # {}
  <2>1. PICK i \in hits : TRUE BY <1>6
  <2>2. DOMAIN list = 1 .. Cardinality(asked) /\ i \in Int BY <1>2 DEF IsByDay
  <2>3. ASSUME NEW j \in hits PROVE j = i
    <3>1. j \in Int BY <2>2
    <3>2. ~ (i < j) BY <1>2, <2>1 DEF IsByDay
    <3>3. ~ (j < i) BY <1>2, <2>1 DEF IsByDay
    <3> QED BY <2>2, <3>1, <3>2, <3>3
  <2>4. (CHOOSE k \in hits : \A j \in hits : k <= j) = i BY <2>1, <2>2, <2>3
  <2>5. result = list[i].value BY <1>3, <1>6, <2>4
  <2>6. list[i] \in asked BY <1>2, <2>1, <2>2 DEF IsByDay
  <2>7. result \in Int /\ result > 0 BY <1>2, <2>5, <2>6
  <2>8. result # NotPublished BY <2>7, RatesAssumption
  <2>9. \A p \in all : p.day = day => p = list[i] BY <1>2, <2>1, <2>6 DEF Dated
  <2>10. {p.value : p \in {p \in all : p.day = day}} = {result}
    <3>1. list[i] \in {p \in all : p.day = day} BY <2>1, <2>6
    <3>2. {p \in all : p.day = day} = {list[i]} BY <2>9, <3>1
    <3> QED BY <2>5, <3>2
  <2> QED BY <1>2, <2>7, <2>8, <2>10 DEF list, result, all
<1> QED BY <1>5, <1>6

\* The waits, doubled as often as there are attempts.
Doubles(f, first, last) == f = [n \in 1 .. last |-> IF n = 1 THEN first ELSE 2 * f[n - 1]]

\* Doubled is defined by what it was one attempt ago, and there is such a one.
LEMMA DoublesExist ==
  ASSUME NEW first, NEW last \in Nat
  PROVE  \E f : Doubles(f, first, last)
<1> DEFINE T == {n \in Nat : \E f : Doubles(f, first, n)}
<1>1. 0 \in T
  <2> DEFINE none == [n \in 1 .. 0 |-> 0]
  <2>1. none = [n \in 1 .. 0 |-> IF n = 1 THEN first ELSE 2 * none[n - 1]] OBVIOUS
  <2>2. Doubles(none, first, 0) BY <2>1 DEF Doubles
  <2> QED BY <2>2
<1>2. ASSUME NEW n \in T PROVE n + 1 \in T
  <2>1. PICK f : Doubles(f, first, n) OBVIOUS
  <2>2. \A k \in 1 .. n : f[k] = IF k = 1 THEN first ELSE 2 * f[k - 1] BY <2>1 DEF Doubles
  <2> DEFINE Doubling(k) == IF k = 1 THEN first ELSE 2 * f[k - 1]
             longer == [k \in 1 .. n + 1 |-> IF k = n + 1 THEN Doubling(k) ELSE f[k]]
  <2>3. ASSUME NEW k \in 1 .. n + 1
        PROVE  longer[k] = IF k = 1 THEN first ELSE 2 * longer[k - 1]
    <3>1. CASE k = 1 BY <2>2, <3>1
    <3>2. CASE k # 1
      <4>1. k - 1 \in 1 .. n + 1 /\ k - 1 # n + 1 /\ k - 1 \in 1 .. n BY <3>2
      <4>2. longer[k - 1] = f[k - 1] BY <4>1
      <4>3. longer[k] = 2 * f[k - 1]
        <5>1. CASE k = n + 1 BY <3>2, <5>1
        <5>2. CASE k # n + 1
          <6>1. k \in 1 .. n BY <5>2
          <6> QED BY <2>2, <3>2, <5>2, <6>1
        <5> QED BY <5>1, <5>2
      <4> QED BY <3>2, <4>2, <4>3
    <3> QED BY <3>1, <3>2
  <2>4. longer = [k \in 1 .. n + 1 |-> longer[k]] OBVIOUS
  <2> HIDE DEF longer
  <2>5. longer = [k \in 1 .. n + 1 |-> IF k = 1 THEN first ELSE 2 * longer[k - 1]]
    BY <2>3, <2>4
  <2>6. Doubles(longer, first, n + 1) BY <2>5 DEF Doubles
  <2> QED BY <2>6
<1>3. T = Nat
  <2> HIDE DEF T
  <2>1. T \in SUBSET Nat BY DEF T
  <2> QED BY <1>1, <1>2, <2>1, AllNumbers
<1> QED BY <1>3

\* Doubled is what its name says.
LEMMA DoubledIs ==
  ASSUME client.attempts \in Nat \ {0}, client.backoff \in Nat
  PROVE  /\ Doubled[1] = client.backoff
         /\ \A n \in 1 .. client.attempts : Doubled[n] \in Nat
         /\ \A n \in 1 .. client.attempts : n # 1 => Doubled[n] = 2 * Doubled[n - 1]
<1> DEFINE first == client.backoff
           last == client.attempts
           f == CHOOSE f : Doubles(f, first, last)
<1>1. Doubles(f, first, last)
  <2>1. \E g : Doubles(g, first, last) BY DoublesExist
  <2> QED BY <2>1, Zenon
<1>2. Doubled = f BY Zenon DEF Doubled, Doubles
<1> HIDE DEF f
<1>3. \A n \in 1 .. last : f[n] = IF n = 1 THEN first ELSE 2 * f[n - 1] BY <1>1 DEF Doubles
<1>4. 1 \in 1 .. last OBVIOUS
<1> DEFINE T == {n \in Nat : n + 1 \in 1 .. last => f[n + 1] \in Nat}
<1>5. T = Nat
  <2>1. 0 \in T BY <1>3, <1>4
  <2>2. ASSUME NEW n \in T PROVE n + 1 \in T
    <3> SUFFICES ASSUME (n + 1) + 1 \in 1 .. last PROVE f[(n + 1) + 1] \in Nat OBVIOUS
    <3>1. n + 1 \in 1 .. last /\ (n + 1) + 1 # 1 /\ ((n + 1) + 1) - 1 = n + 1 OBVIOUS
    <3>2. f[n + 1] \in Nat BY <3>1
    <3>3. f[(n + 1) + 1] = 2 * f[n + 1] BY <1>3, <3>1
    <3> QED BY <3>2, <3>3
  <2> HIDE DEF T
  <2>3. T \in SUBSET Nat BY DEF T
  <2> QED BY <2>1, <2>2, <2>3, AllNumbers
<1>6. ASSUME NEW n \in 1 .. last PROVE f[n] \in Nat
  <2>1. n - 1 \in Nat /\ (n - 1) + 1 = n OBVIOUS
  <2>2. n - 1 \in T
    <3> HIDE DEF T
    <3> QED BY <1>5, <2>1
  <2> QED BY <2>1, <2>2
<1> QED BY <1>2, <1>3, <1>4, <1>6

\* Capping a backoff each time it doubles, or once in the end, is the same.
LEMMA CappedTwice ==
  ASSUME NEW wait \in Nat, NEW doubled \in Nat, NEW cap \in Nat,
         Lesser(wait, cap) = Lesser(doubled, cap)
  PROVE  /\ Lesser(2 * wait, cap) \in Nat
         /\ Lesser(Lesser(2 * wait, cap), cap) = Lesser(2 * doubled, cap)
BY DEF Lesser, Greater

\* And so it is with a longer wait that the API asks for.
LEMMA CappedLonger ==
  ASSUME NEW wait \in Nat, NEW doubled \in Nat, NEW cap \in Nat, NEW asked \in Int,
         Lesser(wait, cap) = Lesser(doubled, cap)
  PROVE  /\ Lesser(Greater(wait, asked), cap) = Lesser(Greater(doubled, asked), cap)
         /\ Lesser(Greater(wait, asked), cap) \in Int
BY DEF Lesser, Greater

LEMMA NewStep == ASSUME RatesInv, NEW cfg \in Configs, New(cfg) PROVE RatesInv'
<1>1. fetch = NoFetch /\ fetch' = NoFetch /\ client' = WithDefaults(cfg) BY DEF RatesInv, New
<1>2. /\ cfg.attempts \in Nat /\ cfg.backoff \in Nat /\ cfg.maxBackoff \in Nat
  BY RatesAssumption DEF New, Configured
<1>3. client'.attempts \in Nat \ {0} /\ client'.backoff \in Nat /\ client'.maxBackoff \in Nat
  BY <1>1, <1>2 DEF WithDefaults, OrDefault
<1> QED BY <1>1, <1>3 DEF RatesInv

LEMMA AskRatesStep ==
  ASSUME RatesInv, NEW op \in {"rate", "series"}, NEW indicator \in Indicators,
         NEW from \in CalendarDays, NEW to \in CalendarDays, AskRates(op, indicator, from, to)
  PROVE  RatesInv'
<1>1. client' = client /\ client # Null BY DEF AskRates
<1>2. client.attempts \in Nat \ {0} /\ client.backoff \in Nat /\ client.maxBackoff \in Nat
  BY <1>1 DEF RatesInv
<1>3. /\ DOMAIN fetch' = FetchFields /\ fetch'.pc \in {"request", "done"} /\ fetch'.op = op
      /\ fetch'.from = from /\ fetch'.to = to /\ fetch'.body = Null /\ fetch'.attempt = 1
      /\ fetch'.wait = client.backoff /\ fetch'.pauses = << >> /\ (op = "rate" => from = to)
  BY DEF AskRates, FetchFields
<1>4. Waits'
  <2>1. Doubled'[1] = client.backoff
    <3>1. Doubled' = Doubled BY <1>1 DEF Doubled
    <3> QED BY <1>2, <3>1, DoubledIs
  <2>2. Len(<< >>) = 0 /\ << >> \in Seq([for : Int, asked : Int, status : Int]) OBVIOUS
  <2> QED BY <1>1, <1>2, <1>3, <2>1, <2>2 DEF Waits
<1>5. Answered' BY <1>3 DEF Answered
<1>6. Patient'
  <2>1. Len(<< >>) = 0 /\ DOMAIN << >> = {} OBVIOUS
  <2> QED BY <1>1, <1>2, <1>3, <2>1 DEF Patient
<1> QED BY <1>1, <1>2, <1>3, <1>4, <1>5, <1>6 DEF RatesInv

LEMMA RefuseStep == ASSUME RatesInv, NEW reply \in Replies, Refuse(reply) PROVE RatesInv'
<1>1. client' = client /\ fetch.pc = "request" BY DEF Refuse
<1>2. fetch # NoFetch BY <1>1 DEF NoFetch
<1>3. /\ client.attempts \in Nat \ {0} /\ client.backoff \in Nat /\ client.maxBackoff \in Nat
      /\ client # Null /\ DOMAIN fetch = FetchFields /\ Waits /\ Answered /\ Patient
      /\ fetch.from \in CalendarDays /\ fetch.to \in CalendarDays
      /\ fetch.op \in {"rate", "series"} /\ (fetch.op = "rate" => fetch.from = fetch.to)
  BY <1>2 DEF RatesInv
<1>4. reply.status \in Int /\ reply.retryAfter \in Int BY RatesAssumption
<1>5. Doubled' = Doubled BY <1>1 DEF Doubled
<1> DEFINE pause == [for |-> Pause(reply), asked |-> reply.retryAfter, status |-> reply.status]
<1>6. CASE Busy(reply.status) /\ ~LastAttempt
  <2>1. /\ DOMAIN fetch' = FetchFields /\ fetch'.pc = "sleep"
        /\ fetch'.pauses = Append(fetch.pauses, pause) /\ fetch'.attempt = fetch.attempt
        /\ fetch'.wait = fetch.wait /\ fetch'.from = fetch.from /\ fetch'.to = fetch.to
        /\ fetch'.op = fetch.op /\ fetch'.body = fetch.body
    <3>1. fetch' = [fetch EXCEPT !.pc = "sleep", !.pauses = Append(@, pause)] BY <1>6 DEF Refuse
    <3> HIDE DEF pause
    <3>2. \A field \in FetchFields \ {"pc", "pauses"} : fetch'[field] = fetch[field] BY <1>3, <3>1
    <3>3. DOMAIN fetch' = FetchFields BY <1>3, <3>1
    <3>4. fetch'.pc = "sleep" /\ fetch'.pauses = Append(fetch.pauses, pause) BY <1>3, <3>1 DEF FetchFields
    <3> QED BY <3>2, <3>3, <3>4 DEF FetchFields
  <2>2. fetch.attempt < client.attempts BY <1>3, <1>6 DEF LastAttempt, Waits
  <2>3. Doubled[fetch.attempt] \in Nat BY <1>3, DoubledIs DEF Waits
  <2>4. /\ Pause(reply) = Lesser(Greater(Doubled[fetch.attempt], reply.retryAfter), client.maxBackoff)
        /\ Pause(reply) \in Int
    <3>1. fetch.wait \in Nat
            /\ Lesser(fetch.wait, client.maxBackoff) = Lesser(Doubled[fetch.attempt], client.maxBackoff)
      BY <1>3 DEF Waits
    <3>2. Pause(reply) = Lesser(Greater(fetch.wait, reply.retryAfter), client.maxBackoff) BY DEF Pause
    <3> DEFINE wait == fetch.wait
               doubled == Doubled[fetch.attempt]
               cap == client.maxBackoff
               asked == reply.retryAfter
    <3>3. /\ wait \in Nat /\ doubled \in Nat /\ cap \in Nat /\ asked \in Int
          /\ Lesser(wait, cap) = Lesser(doubled, cap)
      BY <1>3, <1>4, <2>3, <3>1
    <3> HIDE DEF wait, doubled, cap, asked
    <3>4. /\ Lesser(Greater(wait, asked), cap) = Lesser(Greater(doubled, asked), cap)
          /\ Lesser(Greater(wait, asked), cap) \in Int
      BY <3>3, CappedLonger
    <3> QED BY <3>2, <3>4 DEF wait, doubled, cap, asked
  <2> DEFINE Pauses == [for : Int, asked : Int, status : Int]
  <2>5. pause \in Pauses BY <1>4, <2>4
  <2> HIDE DEF pause, Pauses
  <2>6. fetch.pauses \in Seq(Pauses) /\ Len(fetch.pauses) = fetch.attempt - 1
    BY <1>1, <1>3 DEF Waits, Pauses
  <2>7. /\ fetch'.pauses \in Seq(Pauses) /\ Len(fetch'.pauses) = fetch.attempt
        /\ DOMAIN fetch'.pauses = 1 .. fetch.attempt
        /\ fetch'.pauses[fetch.attempt] = pause
        /\ \A i \in 1 .. fetch.attempt - 1 : fetch'.pauses[i] = fetch.pauses[i]
    <3>1. fetch.attempt \in Nat \ {0} BY <1>3 DEF Waits
    <3> QED BY <2>1, <2>5, <2>6, <3>1
  <2>8. Waits' BY <1>1, <1>3, <1>5, <2>1, <2>2, <2>7 DEF Waits, Pauses
  <2>9. Answered' BY <1>1, <1>3, <2>1 DEF Answered
  <2>10. Patient'
    <3>1. DOMAIN fetch.pauses = 1 .. fetch.attempt - 1 BY <2>6
    <3>2. ASSUME NEW i \in 1 .. fetch.attempt
          PROVE  /\ Busy(fetch'.pauses[i].status)
                 /\ fetch'.pauses[i].for = Lesser(Greater(fetch'.pauses[i].asked, Doubled[i]), client.maxBackoff)
      <4>1. CASE i = fetch.attempt
        <5>1. Greater(reply.retryAfter, Doubled[i]) = Greater(Doubled[i], reply.retryAfter)
          BY <1>4, <2>3, <4>1 DEF Greater
        <5>2. fetch'.pauses[i] = pause BY <2>7, <4>1
        <5>3. pause.for = Pause(reply) /\ pause.asked = reply.retryAfter /\ pause.status = reply.status
          BY DEF pause
        <5> QED BY <1>6, <2>4, <4>1, <5>1, <5>2, <5>3
      <4>2. CASE i # fetch.attempt
        <5>1. i \in 1 .. fetch.attempt - 1 /\ i \in DOMAIN fetch.pauses
          BY <1>3, <3>1, <4>2 DEF Waits
        <5>2. fetch'.pauses[i] = fetch.pauses[i] BY <2>7, <5>1
        <5> QED BY <1>2, <1>3, <5>1, <5>2 DEF Patient
      <4> QED BY <4>1, <4>2
    <3> QED BY <1>1, <1>5, <2>2, <2>7, <3>2 DEF Patient
  <2> QED BY <1>1, <1>3, <2>1, <2>8, <2>9, <2>10 DEF RatesInv
<1>7. CASE ~ (Busy(reply.status) /\ ~LastAttempt)
  <2>1. /\ DOMAIN fetch' = FetchFields /\ fetch'.pc = "done"
        /\ fetch'.pauses = fetch.pauses /\ fetch'.attempt = fetch.attempt
        /\ fetch'.wait = fetch.wait /\ fetch'.from = fetch.from /\ fetch'.to = fetch.to
        /\ fetch'.op = fetch.op /\ fetch'.body = fetch.body
    BY <1>3, <1>7 DEF Refuse, FetchFields
  <2>2. Waits' BY <1>1, <1>3, <1>5, <2>1 DEF Waits
  <2>3. Answered' BY <1>1, <1>3, <2>1 DEF Answered
  <2>4. Patient' BY <1>1, <1>2, <1>3, <1>5, <2>1 DEF Patient
  <2> QED BY <1>1, <1>3, <2>1, <2>2, <2>3, <2>4 DEF RatesInv
<1> QED BY <1>6, <1>7

\* The answer is worked out from a body, or the call ends with an error.
LEMMA EndStep == ASSUME RatesInv, Reply \/ OnceFails \/ Cancelled PROVE RatesInv'
<1>1. client' = client /\ fetch.pc \in {"request", "sleep"} BY DEF Reply, OnceFails, Cancelled
<1>2. fetch # NoFetch BY <1>1 DEF NoFetch
<1>3. /\ client.attempts \in Nat \ {0} /\ client.backoff \in Nat /\ client.maxBackoff \in Nat
      /\ client # Null /\ DOMAIN fetch = FetchFields /\ Waits /\ Answered /\ Patient
      /\ fetch.from \in CalendarDays /\ fetch.to \in CalendarDays
      /\ fetch.op \in {"rate", "series"} /\ (fetch.op = "rate" => fetch.from = fetch.to)
  BY <1>2 DEF RatesInv
<1>4. Doubled' = Doubled BY <1>1 DEF Doubled
<1>5. /\ DOMAIN fetch' = FetchFields /\ fetch'.pc = "done"
      /\ fetch'.pauses = fetch.pauses /\ fetch'.attempt = fetch.attempt
      /\ fetch'.wait = fetch.wait /\ fetch'.from = fetch.from /\ fetch'.to = fetch.to
      /\ fetch'.op = fetch.op /\ fetch'.indicator = fetch.indicator
  <2>1. CASE Reply BY <1>3, <2>1 DEF Reply, FetchFields
  <2>2. CASE OnceFails \/ Cancelled BY <1>3, <2>2 DEF OnceFails, Cancelled, FetchFields
  <2> QED BY <2>1, <2>2
<1>6. Waits' BY <1>1, <1>3, <1>4, <1>5 DEF Waits
<1>7. Patient' BY <1>1, <1>2, <1>3, <1>4, <1>5 DEF Patient
<1>8. Answered'
  <2>1. CASE Reply
    <3>1. PICK body \in Bodies :
            LET series == SeriesOf(body, fetch.indicator, fetch.from, fetch.to)
            IN fetch' = [fetch EXCEPT !.pc = "done", !.body = body,
                 !.result = IF fetch.op = "series" THEN series ELSE RateOf(series, fetch.from)]
      BY <2>1 DEF Reply
    <3>2. /\ fetch'.body = body
          /\ fetch'.result = IF fetch.op = "series" THEN SeriesOf(body, fetch.indicator, fetch.from, fetch.to)
               ELSE RateOf(SeriesOf(body, fetch.indicator, fetch.from, fetch.to), fetch.from)
      BY <1>3, <3>1 DEF FetchFields
    <3> QED BY <1>5, <3>2 DEF Answered
  <2>2. CASE OnceFails \/ Cancelled
    <3>1. fetch'.body = fetch.body BY <1>3, <2>2 DEF OnceFails, Cancelled, FetchFields
    <3> QED BY <1>1, <1>3, <3>1 DEF Answered
  <2> QED BY <2>1, <2>2
<1> QED BY <1>1, <1>3, <1>5, <1>6, <1>7, <1>8 DEF RatesInv

LEMMA WakeStep == ASSUME RatesInv, Wake PROVE RatesInv'
<1>1. client' = client /\ fetch.pc = "sleep" BY DEF Wake
<1>2. fetch # NoFetch BY <1>1 DEF NoFetch
<1>3. /\ client.attempts \in Nat \ {0} /\ client.backoff \in Nat /\ client.maxBackoff \in Nat
      /\ client # Null /\ DOMAIN fetch = FetchFields /\ Waits /\ Answered /\ Patient
      /\ fetch.from \in CalendarDays /\ fetch.to \in CalendarDays
      /\ fetch.op \in {"rate", "series"} /\ (fetch.op = "rate" => fetch.from = fetch.to)
  BY <1>2 DEF RatesInv
<1>4. Doubled' = Doubled BY <1>1 DEF Doubled
<1>5. /\ DOMAIN fetch' = FetchFields /\ fetch'.pc = "request"
      /\ fetch'.pauses = fetch.pauses /\ fetch'.attempt = fetch.attempt + 1
      /\ fetch'.wait = Lesser(2 * fetch.wait, client.maxBackoff)
      /\ fetch'.from = fetch.from /\ fetch'.to = fetch.to
      /\ fetch'.op = fetch.op /\ fetch'.body = fetch.body
  BY <1>3 DEF Wake, FetchFields
<1>6. Waits'
  <2>1. /\ fetch.attempt \in Nat \ {0} /\ fetch.attempt < client.attempts /\ fetch.wait \in Nat
        /\ Len(fetch.pauses) = fetch.attempt
        /\ Lesser(fetch.wait, client.maxBackoff) = Lesser(Doubled[fetch.attempt], client.maxBackoff)
    BY <1>1, <1>3 DEF Waits
  <2>2. fetch.attempt + 1 \in 1 .. client.attempts /\ fetch.attempt + 1 # 1
          /\ (fetch.attempt + 1) - 1 = fetch.attempt /\ fetch.attempt \in 1 .. client.attempts
    BY <1>3, <2>1
  <2>3. Doubled[fetch.attempt + 1] = 2 * Doubled[fetch.attempt] /\ Doubled[fetch.attempt] \in Nat
    BY <1>3, <2>2, DoubledIs
  <2>4. /\ Lesser(2 * fetch.wait, client.maxBackoff) \in Nat
        /\ Lesser(Lesser(2 * fetch.wait, client.maxBackoff), client.maxBackoff)
             = Lesser(2 * Doubled[fetch.attempt], client.maxBackoff)
    <3> DEFINE wait == fetch.wait
               doubled == Doubled[fetch.attempt]
               cap == client.maxBackoff
    <3>1. /\ wait \in Nat /\ doubled \in Nat /\ cap \in Nat
          /\ Lesser(wait, cap) = Lesser(doubled, cap)
      BY <1>3, <2>1, <2>3
    <3> HIDE DEF wait, doubled, cap
    <3>2. /\ Lesser(2 * wait, cap) \in Nat
          /\ Lesser(Lesser(2 * wait, cap), cap) = Lesser(2 * doubled, cap)
      BY <3>1, CappedTwice
    <3> QED BY <3>2 DEF wait, doubled, cap
  <2>5. fetch.pauses \in Seq([for : Int, asked : Int, status : Int]) BY <1>3 DEF Waits
  <2> QED BY <1>1, <1>4, <1>5, <2>1, <2>2, <2>3, <2>4, <2>5 DEF Waits
<1>7. Patient' BY <1>1, <1>2, <1>3, <1>4, <1>5 DEF Patient
<1>8. Answered' BY <1>1, <1>3, <1>5 DEF Answered
<1> QED BY <1>1, <1>3, <1>5, <1>6, <1>7, <1>8 DEF RatesInv

\* The invariant of a client of the exchange rates.
THEOREM RatesInvHolds == RatesSpec => []RatesInv
<1>1. RatesInit => RatesInv BY DEF RatesInit, RatesInv
<1>2. RatesInv /\ [RatesNext]_ratesVars => RatesInv'
  <2> SUFFICES ASSUME RatesInv, [RatesNext]_ratesVars PROVE RatesInv'
    OBVIOUS
  <2>1. CASE ReturnRates
    <3>1. fetch' = NoFetch /\ client' = client BY <2>1 DEF ReturnRates
    <3> QED BY <3>1 DEF RatesInv
  <2>2. CASE UNCHANGED ratesVars
    <3>1. client' = client /\ fetch' = fetch BY <2>2 DEF ratesVars
    <3>2. Doubled' = Doubled BY <3>1 DEF Doubled
    <3> QED BY <3>1, <3>2 DEF RatesInv, Waits, Answered, Patient
  <2> QED BY <2>1, <2>2, NewStep, AskRatesStep, RefuseStep, EndStep, WakeStep DEF RatesNext
<1> QED BY <1>1, <1>2, PTL DEF RatesSpec

\* Whatever the body of the response, and however it is broken, what the client
\* returns is that indicator's and that day's or that range's, whole; and it
\* asks again no oftener and no sooner than it should (bccr.go:30-31, 131-147).
THEOREM RatesAreRight == RatesSpec => []RatesAreTheirs
<1>1. RatesInv => RatesAreTheirs
  <2> SUFFICES ASSUME RatesInv PROVE RatesAreTheirs OBVIOUS
  <2>1. Patient BY DEF RatesInv, Patient
  <2>2. ASSUME Decided, fetch.result # RateError
        PROVE  /\ fetch.body \in Bodies /\ fetch.from \in Int
               /\ fetch.op \in {"rate", "series"} /\ (fetch.op = "rate" => fetch.from = fetch.to)
               /\ fetch.result = IF fetch.op = "series"
                    THEN SeriesOf(fetch.body, fetch.indicator, fetch.from, fetch.to)
                    ELSE RateOf(SeriesOf(fetch.body, fetch.indicator, fetch.from, fetch.to), fetch.from)
    <3>1. fetch # NoFetch BY <2>2 DEF Decided, NoFetch
    <3> QED BY <2>2, <3>1, RatesAssumption DEF RatesInv, Answered, Decided
  <2>3. ThatDaysRate
    <3> SUFFICES ASSUME Decided, fetch.op = "rate", fetch.result # RateError PROVE ThatDaysRate
      BY DEF ThatDaysRate
    <3> DEFINE body == fetch.body
               day == fetch.from
    <3>1. body \in Bodies /\ day \in Int /\ fetch.result = RateOf(SeriesOf(body, fetch.indicator, day, day), day)
      BY <2>2
    <3>2. LET result == RateOf(SeriesOf(body, fetch.indicator, day, day), day)
              values == {p.value : p \in {p \in AllPoints(body, fetch.indicator) : p.day = day}}
          IN /\ body.estado # FALSE
             /\ IF result = NotPublished THEN values \subseteq {Null}
                ELSE values = {result} /\ result > 0
      BY <3>1, RateIsOfTheDay
    <3> QED BY <3>1, <3>2 DEF ThatDaysRate, AllPoints
  <2>4. WholeSeries
    <3> SUFFICES ASSUME Decided, fetch.op = "series", fetch.result # RateError PROVE WholeSeries
      BY DEF WholeSeries
    <3> DEFINE body == fetch.body
               indicator == fetch.indicator
               from == fetch.from
               to == fetch.to
               asked == {p \in AllPoints(body, indicator) : p.value # Null /\ p.day \in from .. to}
    <3>1. body \in Bodies /\ fetch.result = SeriesOf(body, indicator, from, to) BY <2>2
    <3>2. IsByDay(fetch.result, asked)
      <4>1. SeriesOf(body, indicator, from, to) # RateError BY <3>1
      <4> HIDE DEF body, indicator, from, to
      <4>2. IsByDay(SeriesOf(body, indicator, from, to), asked) BY <3>1, <4>1, SeriesIsWhole
      <4> QED BY <3>1, <4>2
    <3>3. {fetch.result[i] : i \in DOMAIN fetch.result} = asked
      <4> HIDE DEF asked
      <4>1. \A i \in DOMAIN fetch.result : fetch.result[i] \in asked BY <3>2 DEF IsByDay
      <4>2. \A p \in asked : \E i \in DOMAIN fetch.result : fetch.result[i] = p BY <3>2 DEF IsByDay
      <4> QED BY <4>1, <4>2
    <3>4. \A i, j \in DOMAIN fetch.result : i < j => fetch.result[i].day < fetch.result[j].day
      BY <3>2 DEF IsByDay
    <3> QED BY <3>3, <3>4 DEF WholeSeries, AllPoints
  <2> QED BY <2>1, <2>3, <2>4 DEF RatesAreTheirs
<1> QED BY <1>1, RatesInvHolds, PTL
=============================================================================
