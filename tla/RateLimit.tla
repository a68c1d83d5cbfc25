----------------------------- MODULE RateLimit -----------------------------
(* The rate limiter (ratelimit.go): a token bucket for each tenant and      *)
(* principal type, made under the mutex and used outside of it, with the    *)
(* time the caller read before. Buckets are golang.org/x/time/rate's        *)
(* (external). Rates are tokens per unit of time.                           *)
EXTENDS Integers, FiniteSets

CONSTANTS
  Holders,      \* tenant and principal type of the claims calls come with
  UserLimit, ServiceLimit, AgentLimit,   \* Config: [rate, burst]
  Handlers,     \* calls that are under way at one time
  NoBucket,
  MaxNow,       \* bound: the time calls may see
  MaxPassed     \* bound: calls of a behaviour that a bucket lets through

ASSUME LimitAssumption ==
  /\ MaxNow \in Nat /\ MaxPassed \in Nat
  /\ \A limit \in {UserLimit, ServiceLimit, AgentLimit} :
       limit.rate \in Int /\ limit.burst \in Int
  /\ NoBucket \notin [tokens : Nat, last : Nat]

VARIABLES
  now,       \* the clock
  buckets,   \* Limiter.buckets: tokens and the last time each was used
  handling,  \* the interceptor of each call: its holder, and the time it read
  passed,    \* per holder, the calls its bucket has let through
  skew,      \* per holder, by how much the bucket's time was ever set back
  refused    \* holders a call of which was told ResourceExhausted early

limitVars == <<now, buckets, handling, passed, skew, refused>>

Awaited == [pc |-> "free"]
AtMost(a, b) == IF a < b THEN a ELSE b

\* limitFor: an unknown type is limited as an agent.
LimitFor(type) ==
  CASE type = "user" -> UserLimit
    [] type = "service" -> ServiceLimit
    [] OTHER -> AgentLimit

Burst(holder) == IF LimitFor(holder.type).burst < 1 THEN 1 ELSE LimitFor(holder.type).burst
Limited(holder) == LimitFor(holder.type).rate > 0

\* bucketKey.
KeyOf(holder) == holder

LimitInit ==
  /\ now = 0
  /\ buckets = [k \in Holders |-> NoBucket]
  /\ handling = [h \in Handlers |-> Awaited]
  /\ passed = [k \in Holders |-> 0] /\ skew = [k \in Holders |-> 0]
  /\ refused = {}

\* A call without claims, or of a type without a limit, is handled at once.
Arrive(h, holder) ==
  /\ handling[h] = Awaited /\ Limited(holder)
  /\ handling' = [handling EXCEPT ![h] = [pc |-> "lookup", holder |-> holder]]
  /\ UNCHANGED <<now, buckets, passed, skew, refused>>

\* Mutant: every call makes the bucket anew.
MakeBucket(h) ==
  /\ handling[h].pc = "lookup"
  /\ buckets' = [buckets EXCEPT ![KeyOf(handling[h].holder)] =
       [tokens |-> Burst(handling[h].holder), last |-> now]]
  /\ handling' = [handling EXCEPT ![h].pc = "clock"]
  /\ UNCHANGED <<now, passed, skew, refused>>

\* Allow, under the mutex. A new bucket is full.
FindBucket(h) ==
  LET key == KeyOf(handling[h].holder)
  IN /\ handling[h].pc = "lookup"
     /\ buckets' = [buckets EXCEPT ![key] =
          IF @ = NoBucket THEN [tokens |-> Burst(handling[h].holder), last |-> now] ELSE @]
     /\ handling' = [handling EXCEPT ![h].pc = "clock"]
     /\ UNCHANGED <<now, passed, skew, refused>>

ReadClock(h) ==
  /\ handling[h].pc = "clock"
  /\ handling' = [handling EXCEPT ![h] = [pc |-> "take", holder |-> @.holder, time |-> now]]
  /\ UNCHANGED <<now, buckets, passed, skew, refused>>

\* AllowN: the bucket refills up to the time given, and takes that time for
\* its own even when it has seen a later one.
TakeToken(h) ==
  LET holder == handling[h].holder
      key == KeyOf(holder)
      bucket == buckets[key]
      time == handling[h].time
      elapsed == IF time < bucket.last THEN 0 ELSE time - bucket.last
      tokens == AtMost(Burst(holder), bucket.tokens + elapsed * LimitFor(holder.type).rate)
      back == IF time < bucket.last THEN bucket.last - time ELSE 0
  IN /\ handling[h].pc = "take" /\ passed[holder] < MaxPassed
     /\ IF tokens >= 1
        THEN /\ buckets' = [buckets EXCEPT ![key] = [tokens |-> tokens - 1, last |-> time]]
             /\ passed' = [passed EXCEPT ![holder] = @ + 1]
             /\ skew' = [skew EXCEPT ![holder] = @ + back]
             /\ UNCHANGED refused
        ELSE /\ refused' = IF passed[holder] < Burst(holder) THEN refused \cup {holder} ELSE refused
             /\ UNCHANGED <<buckets, passed, skew>>
     /\ handling' = [handling EXCEPT ![h] = Awaited]
     /\ UNCHANGED now

Elapse == now < MaxNow /\ now' = now + 1 /\ UNCHANGED <<buckets, handling, passed, skew, refused>>

LimitNext ==
  \/ \E h \in Handlers : (\E holder \in Holders : Arrive(h, holder)) \/ FindBucket(h) \/ ReadClock(h) \/ TakeToken(h)
  \/ Elapse

LimitSpec == LimitInit /\ [][LimitNext]_limitVars

-----------------------------------------------------------------------------
\* A runaway hits a wall: whatever calls race for one bucket, it lets through
\* its burst and its rate since the start, and beyond that no more than the
\* rate earns in the time it was set back by calls that had read the clock
\* before others did (ratelimit.go:3-5, 94-95).
AdmissionBound ==
  \A k \in Holders : Limited(k) =>
    passed[k] <= Burst(k) + LimitFor(k.type).rate * (now + skew[k])

\* Nobody pays for another's calls: as long as a tenant's principals of one
\* type have made fewer calls than their burst, none of theirs is refused,
\* whatever other tenants and other types do (ratelimit.go:1-5).
NobodyPaysForOthers == refused = {}

\* Both ways: a runaway hits its wall, and nobody else does.
FairLimits == AdmissionBound /\ NobodyPaysForOthers

LimitTypeOK ==
  /\ now \in Nat
  /\ buckets \in [Holders -> {NoBucket} \cup [tokens : Nat, last : Nat]]
  /\ handling \in [Handlers -> {Awaited}
                    \cup [pc : {"lookup", "clock"}, holder : Holders]
                    \cup [pc : {"take"}, holder : Holders, time : Nat]]
  /\ passed \in [Holders -> Nat] /\ skew \in [Holders -> Nat]

\* A call that is past the lookup has a bucket, and no time is of the future.
HandlingOK ==
  \A h \in Handlers :
    /\ handling[h].pc # "free" => Limited(handling[h].holder)
    /\ handling[h].pc \in {"clock", "take"} => buckets[handling[h].holder] # NoBucket
    /\ handling[h].pc = "take" => handling[h].time <= now

\* What a bucket k has let through it had at first or has earned since, and
\* what is missing of its burst it has let through.
Accounts(k) ==
  LET rate == LimitFor(k.type).rate
  IN IF buckets[k] = NoBucket THEN passed[k] = 0
     ELSE /\ buckets[k].last <= now
          /\ buckets[k].tokens + passed[k] <= Burst(k) + rate * (buckets[k].last + skew[k])
          /\ Burst(k) - passed[k] <= buckets[k].tokens

\* What keeps both.
LimitInv ==
  LimitTypeOK /\ HandlingOK /\ NobodyPaysForOthers /\ \A k \in Holders : Accounts(k)
=============================================================================
