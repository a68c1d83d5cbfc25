--------------------------- MODULE PlatformClient ---------------------------
(***************************************************************************)
(* What a Core asks core-divisions: the tree, the cost centers and the     *)
(* asset types, each from a snapshot per tenant (divisions/client.go,      *)
(* divisions/catalogs.go), with the caller's bearer or, when nobody is     *)
(* behind the call, with a token of its own (auth/service.go).             *)
(*                                                                         *)
(* What the answers say is left out: an answer is the age of what it was   *)
(* read from.  Only ages and remaining lives are kept, so a behaviour can  *)
(* run for ever.  The work of a goroutine between two calls takes no time; *)
(* waiting for a mutex does.                                               *)
(***************************************************************************)
EXTENDS Integers, FiniteSets

CONSTANTS
  Tenant, Catalog, Caller,
  TTL,          \* GRPCClient.ttl
  CallTimeout,  \* bound of one gRPC call
  MintTimeout,  \* timeout of the token endpoint's client
  Margin,       \* a token is not reused in the last part of its life: 30 s
  LeastLife,    \* lives shorter than this count as this: 1 min
  Life,         \* lives of the tokens the issuer may grant
  Nobody        \* no caller

ASSUME ClientAssumption ==
  /\ TTL \in Nat \ {0}
  /\ CallTimeout \in Nat
  /\ MintTimeout \in Nat
  /\ Margin \in Nat \ {0}
  /\ LeastLife \in Nat /\ LeastLife > Margin
  /\ Life \subseteq Nat
  /\ Tenant # {} /\ Catalog # {}
  /\ Nobody \notin Caller

Key == Tenant \X Catalog

VARIABLES
  fetched,  \* age of each snapshot, TTL and more for none or an old one
  read,     \* age of what the snapshot was read from
  from,     \* the tenant it was read for
  life,     \* remaining life of each tenant's cached token
  reuse,    \* how much longer it is handed out
  mu,       \* who holds ServiceTokens.mu
  at,       \* where each call is: "idle", "token", "mint", "call" or "answer"
  key,      \* what it asks for
  user,     \* the bearer of a person travels with it
  bearer,   \* remaining life of the service token that travels with it
  waited,   \* time since its request was sent
  answer    \* age of what its answer was read from, and the tenant of that

cacheVars == <<fetched, read, from>>
tokenVars == <<life, reuse, mu>>
callVars == <<at, key, user, bearer, waited, answer>>
vars == <<cacheVars, tokenVars, callVars>>

NoKey == CHOOSE k \in Key : TRUE
NoAnswer == [age |-> 0, of |-> NoKey[1]]

Init ==
  /\ fetched = [k \in Key |-> TTL]
  /\ read = [k \in Key |-> 0]
  /\ from = [k \in Key |-> k[1]]
  /\ life = [t \in Tenant |-> 0]
  /\ reuse = [t \in Tenant |-> 0]
  /\ mu = Nobody
  /\ at = [c \in Caller |-> "idle"]
  /\ key = [c \in Caller |-> NoKey]
  /\ user = [c \in Caller |-> FALSE]
  /\ bearer = [c \in Caller |-> 0]
  /\ waited = [c \in Caller |-> 0]
  /\ answer = [c \in Caller |-> NoAnswer]

Larger(a, b) == IF a >= b THEN a ELSE b

\* What goroutine c does next, and with which answer.
Goes(c, place) == at' = [at EXCEPT ![c] = place]

\* The call is over; nothing is kept of it.
Ends(c) ==
  /\ Goes(c, "idle")
  /\ key' = [key EXCEPT ![c] = NoKey]
  /\ user' = [user EXCEPT ![c] = FALSE]
  /\ bearer' = [bearer EXCEPT ![c] = 0]
  /\ waited' = [waited EXCEPT ![c] = 0]
  /\ answer' = [answer EXCEPT ![c] = NoAnswer]

\* Its request is over and has this answer.
Answers(c, what) ==
  /\ Goes(c, "answer")
  /\ answer' = [answer EXCEPT ![c] = what]
  /\ user' = [user EXCEPT ![c] = FALSE]
  /\ bearer' = [bearer EXCEPT ![c] = 0]
  /\ waited' = [waited EXCEPT ![c] = 0]

---------------------------------------------------------------------------
(* treeFor, costCentersFor and assetTypesFor.                              *)

\* A cache that counts a snapshot's age from its last use.
HitSlides(c, k) ==
  /\ at[c] = "idle"
  /\ fetched[k] < TTL
  /\ Goes(c, "answer")
  /\ key' = [key EXCEPT ![c] = k]
  /\ answer' = [answer EXCEPT ![c] = [age |-> read[k], of |-> from[k]]]
  /\ fetched' = [fetched EXCEPT ![k] = 0]
  /\ UNCHANGED <<read, from, tokenVars, user, bearer, waited>>

\* The snapshot is fresh.
Hit(c, k) ==
  /\ at[c] = "idle"
  /\ fetched[k] < TTL
  /\ Goes(c, "answer")
  /\ key' = [key EXCEPT ![c] = k]
  /\ answer' = [answer EXCEPT ![c] = [age |-> read[k], of |-> from[k]]]
  /\ UNCHANGED <<cacheVars, tokenVars, user, bearer, waited>>

\* It is not: Outgoing forwards the bearer of a person, or gets a token.
Miss(c, k, person) ==
  /\ at[c] = "idle"
  /\ fetched[k] >= TTL
  /\ Goes(c, IF person THEN "call" ELSE "token")
  /\ key' = [key EXCEPT ![c] = k]
  /\ user' = [user EXCEPT ![c] = person]
  /\ UNCHANGED <<cacheVars, tokenVars, bearer, waited, answer>>

\* The reply arrives, read by the server some time after the request was sent,
\* and becomes the snapshot, whoever has stored one meanwhile.
Reply(c, since) ==
  /\ at[c] = "call"
  /\ fetched' = [fetched EXCEPT ![key[c]] = 0]
  /\ read' = [read EXCEPT ![key[c]] = since]
  /\ from' = [from EXCEPT ![key[c]] = key[c][1]]
  /\ Answers(c, [age |-> since, of |-> key[c][1]])
  /\ UNCHANGED <<tokenVars, key>>

\* The call fails or times out.
CallFails(c) ==
  /\ at[c] = "call"
  /\ Ends(c)
  /\ UNCHANGED <<cacheVars, tokenVars>>

\* The caller has its answer.
Return(c) ==
  /\ at[c] = "answer"
  /\ Ends(c)
  /\ UNCHANGED <<cacheVars, tokenVars>>

---------------------------------------------------------------------------
(* ServiceTokens.Token.                                                    *)

\* The cached token is good: the call goes out with it.
TokenHit(c) ==
  LET t == key[c][1] IN
  /\ at[c] = "token" /\ mu = Nobody
  /\ reuse[t] > 0
  /\ bearer' = [bearer EXCEPT ![c] = life[t]]
  /\ Goes(c, "call")
  /\ UNCHANGED <<cacheVars, tokenVars, key, user, waited, answer>>

\* It is missing or about to expire: mint one, under the mutex.
MintStart(c) ==
  /\ at[c] = "token" /\ mu = Nobody
  /\ reuse[key[c][1]] = 0
  /\ mu' = c
  /\ Goes(c, "mint")
  /\ UNCHANGED <<cacheVars, life, reuse, key, user, bearer, waited, answer>>

\* A token reused to the end of its life.
MintedNoMargin(c, ttl, since) ==
  LET t == key[c][1] IN
  /\ at[c] = "mint"
  /\ mu' = Nobody
  /\ life' = [life EXCEPT ![t] = Larger(ttl - since, 0)]
  /\ reuse' = [reuse EXCEPT ![t] = Larger(ttl, LeastLife)]
  /\ bearer' = [bearer EXCEPT ![c] = Larger(ttl - since, 0)]
  /\ waited' = [waited EXCEPT ![c] = 0]
  /\ Goes(c, "call")
  /\ UNCHANGED <<cacheVars, key, user, answer>>

\* The issuer's answer arrives, some time after it granted the token.
Minted(c, ttl, since) ==
  LET t == key[c][1] IN
  /\ at[c] = "mint"
  /\ mu' = Nobody
  /\ life' = [life EXCEPT ![t] = Larger(ttl - since, 0)]
  /\ reuse' = [reuse EXCEPT ![t] = Larger(ttl, LeastLife) - Margin]
  /\ bearer' = [bearer EXCEPT ![c] = Larger(ttl - since, 0)]
  /\ waited' = [waited EXCEPT ![c] = 0]
  /\ Goes(c, "call")
  /\ UNCHANGED <<cacheVars, key, user, answer>>

\* A failed mint that returns with the mutex held.
MintFailsLocked(c) ==
  /\ at[c] = "mint"
  /\ Ends(c)
  /\ UNCHANGED <<cacheVars, tokenVars>>

\* The issuer refuses or does not answer, and so fails the call.
MintFails(c) ==
  /\ at[c] = "mint"
  /\ mu' = Nobody
  /\ Ends(c)
  /\ UNCHANGED <<cacheVars, life, reuse>>

---------------------------------------------------------------------------
\* Requests that are out when their time is up end before any more time passes.
InTime(c) ==
  /\ at[c] = "call" => waited[c] < CallTimeout
  /\ at[c] = "mint" => waited[c] < MintTimeout
  /\ at[c] # "answer"

Less(n) == Larger(n - 1, 0)

Elapse ==
  /\ \A c \in Caller : InTime(c)
  /\ fetched' = [k \in Key |-> IF fetched[k] < TTL THEN fetched[k] + 1 ELSE TTL]
  /\ read' = [k \in Key |-> IF fetched[k] + 1 < TTL THEN read[k] + 1 ELSE 0]
  /\ from' = from
  /\ life' = [t \in Tenant |-> Less(life[t])]
  /\ reuse' = [t \in Tenant |-> Less(reuse[t])]
  /\ mu' = mu
  /\ bearer' = [c \in Caller |-> Less(bearer[c])]
  /\ waited' = [c \in Caller |-> IF at[c] \in {"call", "mint"} THEN waited[c] + 1 ELSE 0]
  /\ UNCHANGED <<at, key, user, answer>>

Ask(c) == \E k \in Key : Hit(c, k) \/ \E person \in BOOLEAN : Miss(c, k, person)

Answered(c) == \E since \in 0 .. waited[c] : Reply(c, since)

Granted(c) == \E ttl \in Life : \E since \in 0 .. waited[c] : Minted(c, ttl, since)

Goroutine(c) ==
  \/ Answered(c) \/ CallFails(c)
  \/ Return(c)
  \/ TokenHit(c) \/ MintStart(c)
  \/ Granted(c) \/ MintFails(c)

Next ==
  \/ \E c \in Caller : Ask(c) \/ Goroutine(c)
  \/ Elapse

Spec == Init /\ [][Next]_vars

\* Time passes, so a request that is out ends; a goroutine gets a mutex that is
\* free again and again.
Fairness ==
  /\ WF_vars(Elapse)
  /\ \A c \in Caller :
       /\ WF_vars(Answered(c) \/ CallFails(c) \/ Return(c) \/ Granted(c) \/ MintFails(c))
       /\ SF_vars(TokenHit(c) \/ MintStart(c))

FairSpec == Spec /\ Fairness

---------------------------------------------------------------------------
(* Properties.                                                             *)

\* The 30 s cover the mint and the call, and the issuer grants a minute or more.
MarginSuffices ==
  /\ Margin >= MintTimeout + CallTimeout
  /\ \A ttl \in Life : ttl >= LeastLife

TypeOK ==
  /\ fetched \in [Key -> 0 .. TTL]
  /\ read \in [Key -> Nat]
  /\ from \in [Key -> Tenant]
  /\ life \in [Tenant -> Nat]
  /\ reuse \in [Tenant -> Nat]
  /\ mu \in Caller \cup {Nobody}
  /\ at \in [Caller -> {"idle", "token", "mint", "call", "answer"}]
  /\ key \in [Caller -> Key]
  /\ user \in [Caller -> BOOLEAN]
  /\ bearer \in [Caller -> Nat]
  /\ waited \in [Caller -> Nat]
  /\ answer \in [Caller -> [age : Nat, of : Tenant]]

\* "La vida de la foto del árbol en caché" (DefaultTTL): two goroutines that
\* fetch at once may store the older reply last, yet what any call answers was
\* true at most a TTL and a call ago, and was read for the tenant that asks
\* ("la caché no se comparte entre tenants").
AnswerIsRecent ==
  \A c \in Caller : at[c] = "answer" =>
    /\ answer[c].age < TTL + CallTimeout
    /\ answer[c].of = key[c][1]

\* "A token is reused until 30 s before it expires" (ServiceTokens): with the
\* time to mint it and the time of the call together within those 30 s, no call
\* is on its way with a token that has run out.
TokenOutlivesCall == \A c \in Caller : at[c] = "call" /\ ~ user[c] => bearer[c] > 0

\* Who mints holds the mutex, nobody else does, and no request is out for
\* longer than its timeout.
RequestsOK ==
  \A c \in Caller :
    /\ mu = c <=> at[c] = "mint"
    /\ at[c] = "call" => waited[c] <= CallTimeout
    /\ at[c] = "mint" => waited[c] <= MintTimeout
    /\ at[c] \notin {"call", "mint"} => waited[c] = 0

\* A snapshot belongs to its tenant and was read at most a call before it was
\* stored.
SnapshotsOK ==
  \A k \in Key :
    /\ from[k] = k[1]
    /\ fetched[k] < TTL => read[k] <= fetched[k] + CallTimeout

\* A token that may be reused has the margin ahead of it, less the time of its
\* mint, and a call leaves with a token that lasts as long as the call may.
TokensOK ==
  /\ \A t \in Tenant : reuse[t] > 0 => life[t] + MintTimeout >= reuse[t] + Margin
  /\ \A c \in Caller : at[c] = "call" /\ ~ user[c] => bearer[c] + waited[c] > CallTimeout

\* The inductive invariants: of the cache, and of cache and tokens.
CacheInv == TypeOK /\ RequestsOK /\ SnapshotsOK /\ AnswerIsRecent

ClientInv == CacheInv /\ TokensOK

\* However long others mint under the mutex, and whatever fails: every call to
\* the neighbour returns.
EveryCallReturns == \A c \in Caller : at[c] # "idle" ~> at[c] = "idle"
===========================================================================
