------------------------ MODULE Calculations_proofs ------------------------
(* What MCCalculations checks on small inputs, for all: what a Core makes   *)
(* of its environment (Environment), the kardex of an item (Measure), what  *)
(* capcheck's verdict on a commit is worth (Catalog), a month's taxes under *)
(* a bracket table (Brackets), the walks over a snapshot (OrgTree) and the  *)
(* rules of human capital (HcmRules).                                       *)
EXTENDS Environment, Measure, Catalog, Brackets, OrgTree, HcmRules, FiniteSetTheorems,
        SequenceTheorems, WellFoundedInduction, NaturalsInduction, TLAPS

(* A set of numbers with 0 and each next one has them all.                 *)
LEMMA AllNumbers ==
  ASSUME NEW T \in SUBSET Nat, 0 \in T, \A n \in T : n + 1 \in T
  PROVE  T = Nat
<1> SUFFICES ASSUME Nat \ T # {} PROVE FALSE
  OBVIOUS
<1> DEFINE Less == OpToRel(<, Nat)
<1>0. IsWellFoundedOn(Less, Nat)
  BY NatLessThanWellFounded, Zenon
<1>5. \A m, n \in Nat : m < n => <<m, n>> \in Less
  BY Zenon DEF OpToRel
<1> HIDE DEF Less
<1>1. PICK n \in Nat \ T : \A m \in Nat \ T : ~ (<<m, n>> \in Less)
  BY <1>0, WFMin
<1>2. n - 1 \in Nat /\ n - 1 < n
  BY <1>1
<1>3. n - 1 \notin T
  BY <1>2
<1>4. <<n - 1, n>> \in Less
  BY <1>1, <1>2, <1>5
<1> QED
  BY <1>1, <1>2, <1>3, <1>4


-----------------------------------------------------------------------------
(* What a Core makes of its environment.                                   *)

(* A credential that Options goes by is the only one, and a name is one    *)
(* token that matches no other.                                            *)
LEMMA OneCredential ==
  ASSUME NEW e, Options(e) # Refusal
  PROVE  /\ \A c, d \in CredentialsSet(e) : c = d
         /\ \A c \in CredentialsSet(e) : Readable(e, c)
         /\ Service(e) # NoName => CheckToken(Service(e))
<1>1. /\ ~ (Cardinality(CredentialsSet(e)) > 1)
      /\ \A c \in CredentialsSet(e) : Readable(e, c)
      /\ Service(e) # NoName => CheckToken(Service(e))
  BY DEF Options
<1>2. ASSUME NEW c \in CredentialsSet(e), NEW d \in CredentialsSet(e), c # d PROVE FALSE
  <2> DEFINE S == CredentialsSet(e)
  <2>1. S \subseteq {"creds", "seed", "user"} BY DEF CredentialsSet
  <2>2. IsFiniteSet({"creds", "seed", "user"})
    <3>1. IsFiniteSet({"creds"}) BY FS_Singleton
    <3>2. IsFiniteSet({"creds"} \cup {"seed"}) BY <3>1, FS_AddElement
    <3>3. IsFiniteSet(({"creds"} \cup {"seed"}) \cup {"user"}) BY <3>2, FS_AddElement
    <3>4. ({"creds"} \cup {"seed"}) \cup {"user"} = {"creds", "seed", "user"} OBVIOUS
    <3> QED BY <3>3, <3>4
  <2> HIDE DEF S
  <2>3. IsFiniteSet(S) BY <2>1, <2>2, FS_Subset
  <2>4. {c, d} \subseteq S BY <1>2 DEF S
  <2>5. Cardinality({c, d}) <= Cardinality(S) BY <2>3, <2>4, FS_Subset
  <2>6. Cardinality({c, d}) = 2
    <3>1. IsFiniteSet({c}) /\ Cardinality({c}) = 1 BY FS_Singleton
    <3>2. Cardinality({c} \cup {d}) = Cardinality({c}) + 1 BY <1>2, <3>1, FS_AddElement
    <3>3. {c} \cup {d} = {c, d} OBVIOUS
    <3> QED BY <3>1, <3>2, <3>3
  <2>7. Cardinality(S) \in Nat BY <2>3, FS_CardinalityType
  <2> QED BY <1>1, <2>5, <2>6, <2>7 DEF S
<1> QED BY <1>1, <1>2

LEMMA NamedIsMeant ==
  ASSUME NEW e, Options(e) # Refusal
  PROVE  LET named == {v \in {"creds", "seed", "user", "pass"} : e[v] # Unset}
             as == Options(e).as
         IN \/ as = Anonymous /\ named = {}
            \/ as = "user" /\ named = {"user", "pass"}
            \/ as \in {"creds", "seed"} /\ named = {as}
<1> DEFINE named == {v \in {"creds", "seed", "user", "pass"} : e[v] # Unset}
           S == CredentialsSet(e)
<1>1. /\ \A c, d \in S : c = d
      /\ \A c \in S : Readable(e, c)
  BY OneCredential
<1>2. Options(e) = [as |-> IF S = {} THEN Anonymous ELSE CHOOSE c \in S : TRUE,
                    inbox |-> Inbox(Service(e))]
  BY DEF Options
<1>3. /\ "creds" \in S <=> e["creds"] # Unset
      /\ "seed" \in S <=> e["seed"] # Unset
      /\ "user" \in S <=> e["user"] # Unset \/ e["pass"] # Unset
      /\ S \subseteq {"creds", "seed", "user"}
  BY DEF CredentialsSet
<1>4. Readable(e, "user") => e["user"] # Unset /\ e["pass"] # Unset BY DEF Readable
<1> HIDE DEF S
<1>5. CASE S = {} BY <1>2, <1>3, <1>5
<1>6. CASE S # {}
  <2>1. PICK c \in S : Options(e).as = c BY <1>2, <1>6
  <2>2. \A d \in S : d = c BY <1>1, <2>1
  <2>3. CASE c = "user"
    <3>1. Readable(e, "user") BY <1>1, <2>1, <2>3
    <3>2. e["creds"] = Unset /\ e["seed"] = Unset BY <1>3, <2>2, <2>3
    <3> QED BY <1>4, <2>1, <2>3, <3>1, <3>2
  <2>4. CASE c = "creds"
    <3>1. e["creds"] # Unset /\ e["seed"] = Unset /\ e["user"] = Unset /\ e["pass"] = Unset
      BY <1>3, <2>1, <2>2, <2>4
    <3> QED BY <2>1, <2>4, <3>1
  <2>5. CASE c = "seed"
    <3>1. e["seed"] # Unset /\ e["creds"] = Unset /\ e["user"] = Unset /\ e["pass"] = Unset
      BY <1>3, <2>1, <2>2, <2>5
    <3> QED BY <2>1, <2>5, <3>1
  <2> QED BY <1>3, <2>1, <2>3, <2>4, <2>5
<1> QED BY <1>5, <1>6

LEMMA InboxesOverlapNot ==
  ASSUME NEW p \in Seq(STRING), NEW q \in Seq(STRING), CheckToken(p), CheckToken(q), p # q
  PROVE  ~ Overlap(Inbox(p), Inbox(q))
<1>1. Len(p) = 1 /\ p[1] \notin Wildcards /\ Len(q) = 1 /\ q[1] \notin Wildcards BY DEF CheckToken
<1>2. p[1] # q[1]
  <2>1. DOMAIN p = 1 .. 1 /\ DOMAIN q = 1 .. 1 BY <1>1
  <2>2. 1 .. 1 = {1} OBVIOUS
  <2> QED BY <2>1, <2>2
<1>3. /\ 2 \in DOMAIN Inbox(p) /\ Inbox(p)[2] = p[1]
      /\ 2 \in DOMAIN Inbox(q) /\ Inbox(q)[2] = q[1]
  BY <1>1 DEF Inbox
<1>4. ~ Matches(p[1], q[1]) BY <1>1, <1>2 DEF Matches
<1> QED BY <1>3, <1>4 DEF Overlap

(* A number that fits is not wrapped, and a default always fits.           *)
LEMMA WrappedFits == ASSUME NEW v \in Int, 0 <= v, v < IntHalf PROVE Wrapped(v) = v
<1>1. IntHalf \in Nat BY EnvironmentAssumption
<1>2. (v + IntHalf) % (2 * IntHalf) = v + IntHalf BY <1>1
<1> QED BY <1>1, <1>2 DEF Wrapped

LEMMA WrappedIsInt == ASSUME NEW v \in Int, IntHalf > 0 PROVE Wrapped(v) \in Int
<1>1. IntHalf \in Nat BY EnvironmentAssumption
<1>2. (v + IntHalf) % (2 * IntHalf) \in Int BY <1>1
<1> QED BY <1>1, <1>2 DEF Wrapped

LEMMA SettingsAreAsAsked ==
  ASSUME NEW e \in PoolEnvs
  PROVE  LET s == PoolSettings(e)
         IN /\ s.min <= s.max
            /\ Fits(e.max) /\ Fits(e.min) =>
                 /\ 1 <= s.max /\ 0 <= s.min
                 /\ e.max \in Int /\ e.max >= 1 => s.max = e.max
                 /\ e.min \in Int /\ e.min \in 0 .. s.max => s.min = e.min
<1> DEFINE asked == ValueOr(e.max, 1, DefaultMax)
           kept == ValueOr(e.min, 0, 0)
           max == Wrapped(asked)
           min == Wrapped(kept)
           s == PoolSettings(e)
<1>1. /\ IntHalf \in Nat /\ IntHalf > 0 /\ DefaultMax \in Int /\ 1 <= DefaultMax /\ DefaultMax < IntHalf
      /\ Unset \notin Int /\ Junk \notin Int
  BY EnvironmentAssumption
<1>2. e.max \in Int \cup {Unset, Junk} /\ e.min \in Int \cup {Unset, Junk}
  BY EnvironmentAssumption
<1>3. asked \in Int /\ 1 <= asked /\ kept \in Int /\ 0 <= kept BY <1>1, <1>2 DEF ValueOr
<1>4. s.max = max /\ s.min = IF min > max THEN max ELSE min BY DEF PoolSettings
<1>5. e.max \in Int /\ e.max >= 1 => asked = e.max BY <1>1 DEF ValueOr
<1>6. e.min \in Int /\ e.min >= 0 => kept = e.min BY <1>1 DEF ValueOr
<1>7. Fits(e.max) => asked < IntHalf BY <1>1, <1>2 DEF ValueOr, Fits
<1>8. Fits(e.min) => kept < IntHalf BY <1>1, <1>2 DEF ValueOr, Fits
<1> HIDE DEF asked, kept, s
<1>9. max \in Int /\ min \in Int BY <1>1, <1>3, WrappedIsInt
<1>10. s.min <= s.max
  <2> HIDE DEF max, min
  <2> QED BY <1>4, <1>9
<1>11. ASSUME Fits(e.max), Fits(e.min)
       PROVE  /\ 1 <= s.max /\ 0 <= s.min
              /\ e.max \in Int /\ e.max >= 1 => s.max = e.max
              /\ e.min \in Int /\ e.min \in 0 .. s.max => s.min = e.min
  <2>1. max = asked BY <1>3, <1>7, <1>11, WrappedFits
  <2>2. min = kept BY <1>3, <1>8, <1>11, WrappedFits
  <2> HIDE DEF max, min
  <2> QED BY <1>3, <1>4, <1>5, <1>6, <1>9, <2>1, <2>2
<1> QED BY <1>10, <1>11 DEF s

LEMMA EnvironmentInvStep ==
  ASSUME EnvironmentInv, [EnvironmentNext]_environmentVars PROVE EnvironmentInv'
<1>1. ASSUME NEW e \in NatsEnvs, Connect(e) PROVE EnvironmentInv'
  <2>1. links' = links \cup {[env |-> e, got |-> Options(e)]} /\ pool' = pool BY <1>1 DEF Connect
  <2> QED BY <2>1 DEF EnvironmentInv
<1>2. ASSUME NEW e \in PoolEnvs, Configure(e) PROVE EnvironmentInv'
  <2>1. pool' = [env |-> e, got |-> PoolSettings(e)] /\ links' = links BY <1>2 DEF Configure
  <2> QED BY <2>1 DEF EnvironmentInv
<1>3. CASE UNCHANGED environmentVars BY <1>3 DEF EnvironmentInv, environmentVars
<1> QED BY <1>1, <1>2, <1>3 DEF EnvironmentNext, DialNext, PoolNext

LEMMA EnvironmentImplies == EnvironmentInv => Honoured
<1> SUFFICES ASSUME EnvironmentInv PROVE Honoured OBVIOUS
<1>1. InboxesApart
  <2> SUFFICES ASSUME NEW k \in Connected, NEW l \in Connected,
                      Service(k.env) # NoName, Service(l.env) # NoName,
                      Service(k.env) # Service(l.env)
               PROVE  ~ Overlap(k.got.inbox, l.got.inbox)
    BY DEF InboxesApart
  <2>1. /\ k.env \in NatsEnvs /\ k.got = Options(k.env) /\ Options(k.env) # Refusal
        /\ l.env \in NatsEnvs /\ l.got = Options(l.env) /\ Options(l.env) # Refusal
    BY DEF EnvironmentInv, Connected
  <2>2. CheckToken(Service(k.env)) /\ CheckToken(Service(l.env)) BY <2>1, OneCredential
  <2>3. Service(k.env) \in Seq(STRING) /\ Service(l.env) \in Seq(STRING)
    BY <2>1, EnvironmentAssumption DEF Service
  <2>4. k.got.inbox = Inbox(Service(k.env)) /\ l.got.inbox = Inbox(Service(l.env))
    BY <2>1 DEF Options
  <2> QED BY <2>2, <2>3, <2>4, InboxesOverlapNot
<1>2. AsNamed
  <2> SUFFICES ASSUME NEW l \in Connected
               PROVE  LET named == {v \in {"creds", "seed", "user", "pass"} : l.env[v] # Unset}
                      IN CASE l.got.as = Anonymous -> named = {}
                           [] l.got.as = "user" -> named = {"user", "pass"}
                           [] OTHER -> named = {l.got.as}
    BY DEF AsNamed
  <2>1. l.got = Options(l.env) /\ Options(l.env) # Refusal BY DEF EnvironmentInv, Connected
  <2> DEFINE named == {v \in {"creds", "seed", "user", "pass"} : l.env[v] # Unset}
  <2>2. \/ l.got.as = Anonymous /\ named = {}
        \/ l.got.as = "user" /\ named = {"user", "pass"}
        \/ l.got.as \in {"creds", "seed"} /\ named = {l.got.as}
    BY <2>1, NamedIsMeant
  <2> HIDE DEF named
  <2>3. CASE l.got.as = Anonymous /\ named = {} BY <2>3, EnvironmentAssumption DEF named
  <2>4. CASE l.got.as = "user" /\ named = {"user", "pass"}
    BY <2>4, EnvironmentAssumption DEF named
  <2>5. CASE l.got.as \in {"creds", "seed"} /\ named = {l.got.as}
    BY <2>5, EnvironmentAssumption DEF named
  <2> QED BY <2>2, <2>3, <2>4, <2>5
<1>3. PoolsAreAsAsked
  <2> SUFFICES ASSUME pool # Unset PROVE PoolsAreAsAsked BY DEF PoolsAreAsAsked
  <2>1. pool.env \in PoolEnvs /\ pool.got = PoolSettings(pool.env) BY DEF EnvironmentInv
  <2> QED BY <2>1, SettingsAreAsAsked DEF PoolsAreAsAsked
<1> QED BY <1>1, <1>2, <1>3 DEF Honoured

(* Whatever the variables of the environment and however many connections  *)
(* and pools: a Core connects as the one its operator named or not at all, *)
(* under an inbox no other service's replies reach (natsconn.go), and a    *)
(* pool has the size that was asked for (poolconfig.go).                   *)
THEOREM EnvironmentHonoured == EnvironmentSpec => []Honoured
<1>1. EnvironmentInit => EnvironmentInv BY DEF EnvironmentInit, EnvironmentInv
<1> QED BY <1>1, EnvironmentInvStep, EnvironmentImplies, PTL DEF EnvironmentSpec

-----------------------------------------------------------------------------
(* A sum. It obeys its recursion, and one more value adds itself to it.    *)
SumRule(f, values) ==
  f = [n \in 0 .. Len(values) |-> IF n = 0 THEN 0 ELSE f[n - 1] + values[n]]

PartialSum(values, n, f) ==
  /\ f \in [0 .. n -> Int] /\ f[0] = 0
  /\ \A k \in 1 .. n : f[k] = f[k - 1] + values[k]

LEMMA OneMorePartialSum ==
  ASSUME NEW values \in Seq(Int), NEW n \in Nat, n + 1 <= Len(values),
         NEW f, PartialSum(values, n, f)
  PROVE  \E g : PartialSum(values, n + 1, g)
<1> DEFINE g == [k \in 0 .. n + 1 |-> IF k = n + 1 THEN f[n] + values[n + 1] ELSE f[k]]
<1>1. values[n + 1] \in Int OBVIOUS
<1>2. f[n] \in Int /\ \A k \in 0 .. n : f[k] \in Int BY DEF PartialSum
<1>3. g \in [0 .. n + 1 -> Int] BY <1>1, <1>2
<1>4. g[n + 1] = f[n] + values[n + 1] /\ \A k \in 0 .. n : g[k] = f[k] OBVIOUS
<1> HIDE DEF g
<1>5. g[0] = 0 BY <1>4 DEF PartialSum
<1>6. ASSUME NEW k \in 1 .. n + 1 PROVE g[k] = g[k - 1] + values[k]
  <2>1. CASE k = n + 1
    <3>1. k - 1 = n /\ n \in 0 .. n BY <2>1
    <3> QED BY <1>4, <2>1, <3>1
  <2>2. CASE k # n + 1
    <3>1. k \in 1 .. n /\ k \in 0 .. n /\ k - 1 \in 0 .. n BY <2>2
    <3>2. f[k] = f[k - 1] + values[k] BY <3>1 DEF PartialSum
    <3> QED BY <1>4, <3>1, <3>2
  <2> QED BY <2>1, <2>2
<1>7. PartialSum(values, n + 1, g) BY <1>3, <1>5, <1>6 DEF PartialSum
<1> QED BY <1>7

LEMMA SumsExist == ASSUME NEW values \in Seq(Int) PROVE \E f : SumRule(f, values)
<1> DEFINE Has(n) == \E f : PartialSum(values, n, f)
           T == {n \in Nat : n <= Len(values) => Has(n)}
<1>1. Has(0)
  <2>1. PartialSum(values, 0, [n \in 0 .. 0 |-> 0]) BY DEF PartialSum
  <2> QED BY <2>1
<1>2. ASSUME NEW n \in Nat, n + 1 <= Len(values), Has(n) PROVE Has(n + 1)
  BY <1>2, OneMorePartialSum
<1>3. Len(values) \in Nat OBVIOUS
<1> HIDE DEF Has
<1>4. 0 \in T BY <1>1
<1>5. ASSUME NEW n \in T PROVE n + 1 \in T BY <1>2, <1>3
<1>6. T = Nat BY <1>4, <1>5, AllNumbers
<1>7. Has(Len(values)) BY <1>3, <1>6
<1>8. PICK f : PartialSum(values, Len(values), f) BY <1>7 DEF Has
<1>9. f = [n \in 0 .. Len(values) |-> f[n]] BY <1>8 DEF PartialSum
<1>10. ASSUME NEW n \in 0 .. Len(values)
       PROVE  f[n] = IF n = 0 THEN 0 ELSE f[n - 1] + values[n]
  <2>1. CASE n = 0 BY <1>8, <2>1 DEF PartialSum
  <2>2. CASE n # 0
    <3>1. n \in 1 .. Len(values) BY <2>2
    <3> QED BY <1>8, <2>2, <3>1 DEF PartialSum
  <2> QED BY <2>1, <2>2
<1>11. SumRule(f, values) BY <1>9, <1>10 DEF SumRule
<1> QED BY <1>11

LEMMA SumIsIt ==
  ASSUME NEW values \in Seq(Int)
  PROVE  \E f : /\ SumOf(values) = f[Len(values)] /\ f[0] = 0
                /\ \A n \in 1 .. Len(values) : f[n] = f[n - 1] + values[n]
<1> DEFINE upTo == CHOOSE f : SumRule(f, values)
<1>1. SumRule(upTo, values) BY SumsExist, Zenon
<1>2. SumOf(values) = upTo[Len(values)] BY Zenon DEF SumOf, SumRule
<1> HIDE DEF upTo
<1>3. \A n \in 0 .. Len(values) : upTo[n] = IF n = 0 THEN 0 ELSE upTo[n - 1] + values[n]
  BY <1>1 DEF SumRule
<1>4. upTo[0] = 0 /\ \A n \in 1 .. Len(values) : upTo[n] = upTo[n - 1] + values[n] BY <1>3
<1> QED BY <1>2, <1>4

LEMMA SumOfNone == SumOf(<< >>) = 0
<1>1. << >> \in Seq(Int) /\ Len(<< >>) = 0 OBVIOUS
<1> QED BY <1>1, SumIsIt

LEMMA SumOfOneMore ==
  ASSUME NEW values \in Seq(Int), NEW v \in Int
  PROVE  /\ SumOf(values) \in Int
         /\ SumOf(Append(values, v)) = SumOf(values) + v
<1> DEFINE more == Append(values, v)
           n == Len(values)
<1>1. /\ more \in Seq(Int) /\ Len(more) = n + 1 /\ more[n + 1] = v /\ n \in Nat
      /\ \A k \in 1 .. n : more[k] = values[k] /\ values[k] \in Int
  OBVIOUS
<1>2. PICK f : /\ SumOf(values) = f[n] /\ f[0] = 0
               /\ \A k \in 1 .. n : f[k] = f[k - 1] + values[k]
  BY SumIsIt
<1> HIDE DEF more, n
<1>3. PICK g : /\ SumOf(more) = g[n + 1] /\ g[0] = 0
               /\ \A k \in 1 .. n + 1 : g[k] = g[k - 1] + more[k]
  <2>1. \E g : /\ SumOf(more) = g[Len(more)] /\ g[0] = 0
               /\ \A k \in 1 .. Len(more) : g[k] = g[k - 1] + more[k]
    BY <1>1, SumIsIt
  <2> QED BY <1>1, <2>1
<1> DEFINE T == {k \in Nat : k <= n => f[k] \in Int /\ g[k] = f[k]}
<1>4. 0 \in T BY <1>2, <1>3
<1>5. ASSUME NEW k \in T PROVE k + 1 \in T
  <2> SUFFICES ASSUME k + 1 <= n PROVE f[k + 1] \in Int /\ g[k + 1] = f[k + 1] OBVIOUS
  <2>1. f[k] \in Int /\ g[k] = f[k] BY <1>1
  <2>2. k + 1 \in 1 .. n /\ k + 1 \in 1 .. n + 1 /\ (k + 1) - 1 = k BY <1>1
  <2>3. f[k + 1] = f[k] + values[k + 1] BY <1>2, <2>2
  <2>4. g[k + 1] = g[k] + more[k + 1] BY <1>3, <2>2
  <2> QED BY <1>1, <2>1, <2>2, <2>3, <2>4
<1>6. T = Nat BY <1>4, <1>5, AllNumbers
<1>7. f[n] \in Int /\ g[n] = f[n] BY <1>1, <1>6
<1>8. g[n + 1] = g[n] + more[n + 1]
  <2>1. n + 1 \in 1 .. n + 1 /\ (n + 1) - 1 = n BY <1>1
  <2> QED BY <1>3, <2>1
<1> QED BY <1>1, <1>2, <1>3, <1>7, <1>8 DEF more

(* Rounding.                                                               *)
LEMMA RoundedIsNear ==
  ASSUME NEW n \in Int, NEW d \in Nat \ {0}
  PROVE  /\ Rounded(n, d) \in Int
         /\ -d <= 2 * (Rounded(n, d) * d - n) /\ 2 * (Rounded(n, d) * d - n) <= d
<1> DEFINE q == (2 * n + d) \div (2 * d)
<1>1. 2 * d \in Nat /\ 2 * d > 0 /\ 2 * n + d \in Int OBVIOUS
<1>2. /\ q \in Int
      /\ (2 * d) * q <= 2 * n + d /\ 2 * n + d < (2 * d) * q + 2 * d
  BY <1>1
<1>3. Rounded(n, d) = q BY DEF Rounded
<1> HIDE DEF q
<1>4. (2 * d) * q = 2 * (q * d) BY <1>2
<1>5. q * d \in Int BY <1>2
<1> QED BY <1>2, <1>3, <1>4, <1>5

-----------------------------------------------------------------------------
(* Units. A validated unit has a factor to divide by, and its code is its   *)
(* own.                                                                    *)
LEMMA SoundUnit ==
  ASSUME NEW u \in Sound
  PROVE  /\ u.factor \in Nat \ {0} /\ u.digits \in Nat /\ u.exponent \in Int
         /\ CheckWith(u.digits, u.exponent)
         /\ \E x \in Units : u = ValidateUnit(x) /\ u.code = x.code
<1>1. PICK x \in Units : u = ValidateUnit(x) /\ u # Refused BY DEF Sound
<1> DEFINE sound == IF IsContainer(x)
                    THEN [x EXCEPT !.factor = 1, !.digits = 1, !.exponent = 0] ELSE x
<1>2. u = sound /\ sound.factor > 0 /\ CheckWith(sound.digits, sound.exponent)
  BY <1>1 DEF ValidateUnit
<1>3. x \in [code : STRING, dimension : STRING, factor : Int, digits : Nat, exponent : Int]
  BY MeasureAssumption
<1>4. /\ sound.code = x.code /\ sound.factor \in Int
      /\ sound.digits \in Nat /\ sound.exponent \in Int
  <2>1. CASE IsContainer(x) BY <1>3, <2>1
  <2>2. CASE ~ IsContainer(x) BY <1>3, <2>2
  <2> QED BY <2>1, <2>2
<1> HIDE DEF sound
<1>5. u.code = x.code BY <1>2, <1>4
<1>6. u.factor \in Nat \ {0} BY <1>2, <1>4
<1> QED BY <1>1, <1>2, <1>4, <1>5, <1>6

LEMMA CodeNamesUnit ==
  ASSUME NEW u \in Sound, NEW v \in Sound, u.code # "", u.code = v.code PROVE u = v
<1>1. PICK x \in Units : u = ValidateUnit(x) /\ u.code = x.code BY SoundUnit
<1>2. PICK y \in Units : v = ValidateUnit(y) /\ v.code = y.code BY SoundUnit
<1>3. x = y BY <1>1, <1>2, MeasureAssumption
<1> QED BY <1>1, <1>2, <1>3

(* A quantity that is converted is the same quantity, but for half a unit   *)
(* of the last decimal of the unit it is converted to.                     *)
LEMMA ConvertIsNear ==
  ASSUME NEW q \in Int, NEW from \in Sound, NEW to \in Sound, Convert(q, from, to) # Refused
  PROVE  /\ Convert(q, from, to) \in Int
         /\ 2 * (Convert(q, from, to) * to.factor - q * from.factor) \in -to.factor .. to.factor
<1>1. from.factor \in Nat \ {0} /\ to.factor \in Nat \ {0} BY SoundUnit
<1>2. CASE from.code # "" /\ from.code = to.code
  <2>1. from = to BY <1>2, CodeNamesUnit
  <2>2. Convert(q, from, to) = q BY <1>2 DEF Convert
  <2>3. q * to.factor - q * from.factor = 0 BY <1>1, <2>1
  <2> QED BY <1>1, <2>2, <2>3
<1>3. CASE ~ (from.code # "" /\ from.code = to.code)
  <2> DEFINE n == q * from.factor
             d == to.factor
  <2>1. Convert(q, from, to) = Rounded(n, d) BY <1>3 DEF Convert
  <2>2. n \in Int /\ d \in Nat \ {0} BY <1>1
  <2> HIDE DEF n, d
  <2>3. /\ Rounded(n, d) \in Int
        /\ -d <= 2 * (Rounded(n, d) * d - n) /\ 2 * (Rounded(n, d) * d - n) <= d
    BY <2>2, RoundedIsNear
  <2>4. 2 * (Rounded(n, d) * d - n) \in -d .. d BY <2>2, <2>3
  <2> QED BY <2>1, <2>3, <2>4 DEF n, d
<1> QED BY <1>2, <1>3

LEMMA Times ==
  ASSUME NEW a \in Nat, NEW d \in Nat, NEW x \in Int, -d <= x, x <= d
  PROVE  -(a * d) <= a * x /\ a * x <= a * d
<1>1. 0 <= d - x /\ 0 <= x + d /\ d - x \in Int /\ x + d \in Int OBVIOUS
<1>2. a * (d - x) >= 0 /\ a * (x + d) >= 0 BY <1>1
<1>3. a * (d - x) = a * d - a * x /\ a * (x + d) = a * x + a * d OBVIOUS
<1>4. a * d \in Int /\ a * x \in Int OBVIOUS
<1> QED BY <1>2, <1>3, <1>4

(* A line adds what it says was bought, but for its two roundings: that of  *)
(* the content it goes by, once for each that is bought, and its own.       *)
LEMMA LineIsNear ==
  ASSUME ItemIsSound, item # NoItem,
         IsContainer(item.presentation.purchase) \/ item.declared = 0,
         NEW a \in Amounts, NEW g \in Contents,
         NEW Q, Q = ToConsumptionUnit(a, item.presentation, g, item.consumption), Q # Refused
  PROVE  LET c == item.presentation.content.factor
             u == item.consumption.factor
             base == BaseOf([amount |-> a, given |-> g])
         IN /\ Q \in Int /\ base \in Int
            /\ 2 * (Q * u - base) \in -(a * c + u) .. (a * c + u)
<1> DEFINE p == item.presentation.purchase
           cu == item.presentation.content
           uu == item.consumption
           holds == item.presentation.holds
           declared == item.declared
           per == PerUnit(item.presentation, g)
           base == BaseOf([amount |-> a, given |-> g])
           content == IF g > 0 THEN g ELSE declared
<1>1. /\ p \in Sound /\ cu \in Sound /\ uu \in Sound /\ declared \in Int
      /\ holds # Refused /\ holds = ContentQuantity(p, cu, declared, uu)
  BY MeasureAssumption DEF ItemIsSound
<1>2. a \in Nat /\ g \in Int /\ Scale \in Nat \ {0} BY MeasureAssumption
<1>3. Q = Convert(a * per, cu, uu) /\ per # Refused BY DEF ToConsumptionUnit
<1>4. holds = IF declared = 0 THEN Implied(p, cu) ELSE declared BY <1>1 DEF ContentQuantity
<1>5. /\ p.factor \in Nat \ {0} /\ cu.factor \in Nat \ {0} /\ uu.factor \in Nat \ {0}
  BY <1>1, SoundUnit
<1>6. base = IF IsContainer(p) THEN a * content * cu.factor ELSE a * p.factor * Scale
  BY DEF BaseOf
<1>7. per = IF ~ IsContainer(p) THEN holds
            ELSE IF g > 0 THEN g ELSE IF holds > Scale THEN holds ELSE Refused
  BY DEF PerUnit
<1>8. IsContainer(p) \/ declared = 0 OBVIOUS
<1> HIDE DEF p, cu, uu, holds, declared, per, base
<1>9. ASSUME NEW b \in Int, per \in Int, b = a * per * cu.factor
      PROVE  Q \in Int /\ 2 * (Q * uu.factor - b) \in -uu.factor .. uu.factor
  <2>1. a * per \in Int BY <1>2, <1>9
  <2>2. /\ Convert(a * per, cu, uu) \in Int
        /\ 2 * (Convert(a * per, cu, uu) * uu.factor - (a * per) * cu.factor)
             \in -uu.factor .. uu.factor
    BY <1>1, <1>3, <2>1, ConvertIsNear
  <2> QED BY <1>3, <1>9, <2>2
<1>10. a * cu.factor \in Nat BY <1>2, <1>5
<1>11. CASE IsContainer(p)
  <2>1. per = content /\ per \in Int
    <3>1. CASE g > 0 BY <1>2, <1>7, <1>11, <3>1
    <3>2. CASE ~ (g > 0)
      <4>1. per = holds /\ holds > Scale BY <1>3, <1>7, <1>11, <3>2
      <4>2. declared = 0 => holds = Scale BY <1>4, <1>11 DEF Implied
      <4>3. declared # 0 BY <1>2, <4>1, <4>2
      <4> QED BY <1>1, <1>4, <3>2, <4>1, <4>3
    <3> QED BY <3>1, <3>2
  <2>2. base = a * per * cu.factor /\ base \in Int BY <1>2, <1>5, <1>6, <1>11, <2>1
  <2>3. Q \in Int /\ 2 * (Q * uu.factor - base) \in -uu.factor .. uu.factor BY <1>9, <2>1, <2>2
  <2>4. Q * uu.factor \in Int BY <1>5, <2>3
  <2>5. 2 * (Q * uu.factor - base) \in -(a * cu.factor + uu.factor) .. (a * cu.factor + uu.factor)
    <3> DEFINE x == 2 * (Q * uu.factor - base)
               y == a * cu.factor
    <3>1. x \in Int /\ y \in Nat /\ x \in -uu.factor .. uu.factor BY <1>10, <2>2, <2>3, <2>4
    <3> HIDE DEF x, y
    <3>2. x \in -(y + uu.factor) .. (y + uu.factor) BY <1>5, <3>1
    <3> QED BY <3>2 DEF x, y
  <2> QED BY <2>2, <2>3, <2>5 DEF cu, uu, base
<1>12. CASE ~ IsContainer(p)
  <2>1. per = Convert(Scale, p, cu) /\ per # Refused
    BY <1>3, <1>4, <1>7, <1>8, <1>12 DEF Implied
  <2>2. Scale \in Int BY <1>2
  <2>3. per \in Int /\ 2 * (per * cu.factor - Scale * p.factor) \in -cu.factor .. cu.factor
    BY <1>1, <2>1, <2>2, ConvertIsNear
  <2> DEFINE z == per * cu.factor - Scale * p.factor
             b == a * per * cu.factor
  <2>4. z \in Int /\ -cu.factor <= 2 * z /\ 2 * z <= cu.factor BY <1>2, <1>5, <2>3
  <2>5. base = a * p.factor * Scale /\ base \in Int BY <1>2, <1>5, <1>6, <1>12
  <2>6. b \in Int BY <1>2, <1>5, <2>3
  <2>7. b - base = a * z
    <3>1. a * z = a * (per * cu.factor) - a * (Scale * p.factor) BY <1>2, <1>5, <2>3
    <3>2. a * (per * cu.factor) = b BY <1>2, <1>5, <2>3
    <3>3. a * (Scale * p.factor) = base BY <1>2, <1>5, <2>5
    <3> QED BY <3>1, <3>2, <3>3
  <2>8. Q \in Int /\ 2 * (Q * uu.factor - b) \in -uu.factor .. uu.factor BY <1>9, <2>3, <2>6
  <2>9. Q * uu.factor \in Int BY <1>5, <2>8
  <2> HIDE DEF z, b
  <2>10. -(a * cu.factor) <= a * (2 * z) /\ a * (2 * z) <= a * cu.factor
    <3>1. 2 * z \in Int /\ cu.factor \in Nat BY <1>5, <2>4
    <3> QED BY <1>2, <2>4, <3>1, Times
  <2>11. a * (2 * z) = 2 * (b - base)
    <3>1. a * (2 * z) = 2 * (a * z) BY <1>2, <2>4
    <3> QED BY <2>7, <3>1
  <2>12. 2 * (Q * uu.factor - base) \in -(a * cu.factor + uu.factor) .. (a * cu.factor + uu.factor)
    <3> DEFINE x == Q * uu.factor
               y == a * cu.factor
    <3>1. /\ x \in Int /\ y \in Nat /\ uu.factor \in Nat
          /\ 2 * (x - b) \in -uu.factor .. uu.factor
          /\ -y <= 2 * (b - base) /\ 2 * (b - base) <= y
      BY <1>5, <1>10, <2>8, <2>9, <2>10, <2>11
    <3> HIDE DEF x, y
    <3>2. 2 * (x - base) \in -(y + uu.factor) .. (y + uu.factor) BY <2>5, <2>6, <3>1
    <3> QED BY <3>2 DEF x, y
  <2> QED BY <2>5, <2>8, <2>12 DEF cu, uu, base
<1> QED BY <1>11, <1>12

LEMMA LineIsInt ==
  ASSUME ItemIsSound, item # NoItem, NEW a \in Amounts, NEW g \in Contents
  PROVE  /\ BaseOf([amount |-> a, given |-> g]) \in Int
         /\ LET Q == ToConsumptionUnit(a, item.presentation, g, item.consumption)
            IN Q # Refused => Q \in Int
<1> DEFINE p == item.presentation.purchase
           cu == item.presentation.content
           uu == item.consumption
           holds == item.presentation.holds
           per == PerUnit(item.presentation, g)
           content == IF g > 0 THEN g ELSE item.declared
           Q == ToConsumptionUnit(a, item.presentation, g, item.consumption)
<1>1. /\ p \in Sound /\ cu \in Sound /\ uu \in Sound /\ item.declared \in Int
      /\ holds # Refused /\ holds = ContentQuantity(p, cu, item.declared, uu)
  BY MeasureAssumption DEF ItemIsSound
<1>2. a \in Nat /\ g \in Int /\ Scale \in Nat \ {0} /\ content \in Int
  BY <1>1, MeasureAssumption
<1>3. p.factor \in Nat \ {0} /\ cu.factor \in Nat \ {0} BY <1>1, SoundUnit
<1>4. BaseOf([amount |-> a, given |-> g]) =
        IF IsContainer(p) THEN a * content * cu.factor ELSE a * p.factor * Scale
  BY DEF BaseOf
<1>5. per = IF ~ IsContainer(p) THEN holds
            ELSE IF g > 0 THEN g ELSE IF holds > Scale THEN holds ELSE Refused
  BY DEF PerUnit
<1>6. Q # Refused => per # Refused /\ Q = Convert(a * per, cu, uu) BY DEF ToConsumptionUnit
<1>7. holds = IF item.declared = 0 THEN Implied(p, cu) ELSE item.declared
  BY <1>1 DEF ContentQuantity
<1> HIDE DEF p, cu, uu, holds, per, content, Q
<1>8. holds \in Int
  <2>1. Implied(p, cu) # Refused => Implied(p, cu) \in Int
    <3>1. Scale \in Int BY <1>2
    <3> QED BY <1>1, <1>2, <3>1, ConvertIsNear DEF Implied
  <2> QED BY <1>1, <1>7, <2>1
<1>9. Q # Refused => Q \in Int
  <2> SUFFICES ASSUME Q # Refused PROVE Q \in Int OBVIOUS
  <2>1. per \in Int BY <1>2, <1>5, <1>6, <1>8
  <2>2. a * per \in Int BY <1>2, <2>1
  <2>3. Q = Convert(a * per, cu, uu) BY <1>6
  <2> QED BY <1>1, <2>2, <2>3, ConvertIsNear
<1>10. BaseOf([amount |-> a, given |-> g]) \in Int
  <2>1. a * content * cu.factor \in Int /\ a * p.factor * Scale \in Int BY <1>2, <1>3
  <2> QED BY <1>4, <2>1
<1> QED BY <1>9, <1>10 DEF Q

LEMMA UnitsAreShort == ASSUME NEW u \in Sound PROVE Written(u.digits, u.exponent) <= MaxDigits - MinExponent + 1
<1>1. /\ u.digits \in Nat /\ u.exponent \in Int
      /\ u.exponent >= MinExponent /\ u.digits + u.exponent <= MaxDigits
  BY SoundUnit DEF CheckWith
<1>2. MaxDigits \in Nat \ {0} /\ MinExponent \in Int /\ MinExponent <= 0 BY MeasureAssumption
<1> QED BY <1>1, <1>2 DEF Written

LEMMA MeasureImplies == MeasureInv => KardexIsSound
<1> SUFFICES ASSUME MeasureInv PROVE KardexIsSound OBVIOUS
<1>1. FactorsAreShort
  <2> SUFFICES ASSUME item # NoItem,
                      NEW unit \in {item.presentation.purchase, item.presentation.content,
                                    item.consumption}
               PROVE  Written(unit.digits, unit.exponent) <= MaxDigits - MinExponent + 1
    BY DEF FactorsAreShort
  <2>1. unit \in Sound BY DEF MeasureInv, ItemIsSound
  <2> QED BY <2>1, UnitsAreShort
<1> QED BY <1>1 DEF MeasureInv, KardexIsSound

LEMMA MeasureInitInv == MeasureInit => MeasureInv
BY DEF MeasureInit, MeasureInv, ItemIsSound, KardexHoldsWhatWasBought

(* A declared item has nothing in stock and nothing bought.                *)
LEMMA DeclareStep ==
  ASSUME MeasureInv, NEW purchase \in Units, NEW content \in Units, NEW consumption \in Units,
         NEW declared \in Declared, Declare(purchase, content, declared, consumption)
  PROVE  MeasureInv'
<1> DEFINE p == ValidateUnit(purchase)
           c == ValidateUnit(content)
           used == ValidateUnit(consumption)
           holds == ContentQuantity(p, c, declared, used)
<1>1. /\ item = NoItem /\ p # Refused /\ c # Refused /\ used # Refused /\ holds # Refused
      /\ item' = [presentation |-> [purchase |-> p, content |-> c, holds |-> holds],
                  consumption |-> used, declared |-> declared]
      /\ stock' = stock /\ lines' = lines
  BY DEF Declare
<1>2. p \in Sound /\ c \in Sound /\ used \in Sound BY <1>1 DEF Sound
<1>3. /\ item'.presentation.purchase = p /\ item'.presentation.content = c
      /\ item'.presentation.holds = holds
      /\ item'.consumption = used /\ item'.declared = declared
  BY <1>1
<1>4. stock = 0 /\ lines = << >> /\ stock \in Int
      /\ lines \in Seq([amount : Amounts, given : Contents])
  BY <1>1 DEF MeasureInv
<1>5. holds = ContentQuantity(p, c, declared, used) OBVIOUS
<1> HIDE DEF p, c, used, holds
<1>6. ItemIsSound' BY <1>1, <1>2, <1>3, <1>5 DEF ItemIsSound
<1>7. Bought' = 0 /\ Amount' = 0
  <2>1. DOMAIN lines' = {} BY <1>1, <1>4
  <2>2. [i \in DOMAIN lines |-> BaseOf(lines[i])]' = << >> BY <2>1 DEF BaseOf
  <2>3. [i \in DOMAIN lines |-> lines[i].amount]' = << >> BY <2>1
  <2>4. Bought' = SumOf(<< >>) BY <2>2 DEF Bought
  <2>5. Amount' = SumOf(<< >>) BY <2>3 DEF Amount
  <2> QED BY <2>4, <2>5, SumOfNone
<1>8. KardexHoldsWhatWasBought'
  <2> DEFINE f == c.factor
             g == used.factor
  <2>1. f \in Nat /\ g \in Nat BY <1>2, SoundUnit
  <2>2. Len(lines') = 0 BY <1>1, <1>4
  <2>3. Slack' = 0 * f + 0 * g BY <1>3, <1>7, <2>2 DEF Slack
  <2>4. (stock * item.consumption.factor)' = 0 * g BY <1>1, <1>3, <1>4
  <2> HIDE DEF f, g
  <2>5. Slack' = 0 /\ (stock * item.consumption.factor)' = 0 BY <2>1, <2>3, <2>4
  <2>6. Near(stock * item.consumption.factor, Bought)' BY <1>7, <2>5 DEF Near
  <2> QED BY <2>6 DEF KardexHoldsWhatWasBought
<1> QED BY <1>1, <1>4, <1>6, <1>8 DEF MeasureInv

LEMMA Distributes ==
  ASSUME NEW m \in Int, NEW n \in Int, NEW k \in Int
  PROVE  (m + n) * k = m * k + n * k /\ m * k \in Int /\ n * k \in Int
OBVIOUS

LEMMA OneMore ==
  ASSUME NEW S, NEW s \in Seq(S), NEW v \in S, NEW t,
         t = [i \in 1 .. Len(s) + 1 |-> IF i = Len(s) + 1 THEN v ELSE s[i]]
  PROVE  t = Append(s, v)
<1>1. t = [i \in 1 .. Len(s) + 1 |-> t[i]] /\ Len(s) \in Nat OBVIOUS
<1>2. \A i \in 1 .. Len(s) + 1 : t[i] \in S OBVIOUS
<1>3. t \in Seq(S) /\ Len(t) = Len(s) + 1 BY <1>1, <1>2
<1>4. /\ Append(s, v) \in Seq(S) /\ Len(Append(s, v)) = Len(s) + 1
      /\ Append(s, v)[Len(s) + 1] = v /\ \A i \in 1 .. Len(s) : Append(s, v)[i] = s[i]
  OBVIOUS
<1>5. \A i \in 1 .. Len(t) : t[i] = Append(s, v)[i] BY <1>1, <1>3, <1>4
<1> QED BY <1>3, <1>4, <1>5, SeqEqual

(* A line adds its amount and what it says was bought, and the error of the *)
(* stock grows by no more than that of the line.                           *)
LEMMA BuyStep ==
  ASSUME MeasureInv, NEW a \in Amounts, NEW g \in Contents, Buy(a, g)
  PROVE  MeasureInv'
<1> DEFINE line == [amount |-> a, given |-> g]
           Q == ToConsumptionUnit(a, item.presentation, g, item.consumption)
           bases == [i \in DOMAIN lines |-> BaseOf(lines[i])]
           amounts == [i \in DOMAIN lines |-> lines[i].amount]
<1>1. /\ item # NoItem /\ Q # Refused /\ stock' = stock + Q
      /\ lines' = Append(lines, line) /\ item' = item
  BY DEF Buy
<1>2. ItemIsSound /\ stock \in Int /\ lines \in Seq([amount : Amounts, given : Contents])
  BY DEF MeasureInv
<1>3. a \in Nat /\ Amounts \subseteq Nat BY MeasureAssumption
<1>4. ItemIsSound' BY <1>1, <1>2 DEF ItemIsSound
<1>5. lines' \in Seq([amount : Amounts, given : Contents])
  <2>1. line \in [amount : Amounts, given : Contents] OBVIOUS
  <2> QED BY <1>1, <1>2, <2>1
<1>6. Q \in Int /\ BaseOf(line) \in Int BY <1>1, <1>2, LineIsInt
<1>7. ASSUME NEW i \in DOMAIN lines PROVE BaseOf(lines[i]) \in Int /\ lines[i].amount \in Int
  <2> DEFINE L == [amount : Amounts, given : Contents]
  <2>1. lines[i] \in L
    <3>1. lines \in Seq(L) BY <1>2
    <3> HIDE DEF L
    <3> QED BY <3>1
  <2>2. lines[i] = [amount |-> lines[i].amount, given |-> lines[i].given] BY <2>1
  <2>3. lines[i].amount \in Amounts /\ lines[i].given \in Contents BY <2>1
  <2>4. BaseOf([amount |-> lines[i].amount, given |-> lines[i].given]) \in Int
    BY <1>1, <1>2, <2>3, LineIsInt
  <2>5. BaseOf(lines[i]) \in Int BY <2>2, <2>4, Zenon
  <2>6. lines[i].amount \in Int
    <3>1. Amounts \subseteq Int BY <1>3
    <3> QED BY <2>3, <3>1, Zenon
  <2> QED BY <2>5, <2>6, Zenon
<1>8. bases \in Seq(Int) /\ amounts \in Seq(Int)
  <2>1. DOMAIN lines = 1 .. Len(lines) /\ Len(lines) \in Nat BY <1>2
  <2> QED BY <1>7, <2>1
<1>9. bases' = Append(bases, BaseOf(line))
  <2>1. /\ Len(lines) \in Nat /\ DOMAIN lines = 1 .. Len(lines)
        /\ DOMAIN lines' = 1 .. Len(lines) + 1
        /\ lines'[Len(lines) + 1] = line /\ \A i \in 1 .. Len(lines) : lines'[i] = lines[i]
    BY <1>1, <1>2
  <2>2. bases' = [i \in 1 .. Len(lines) + 1 |->
                    IF i = Len(lines) + 1 THEN BaseOf(line) ELSE bases[i]]
    BY <1>1, <2>1 DEF BaseOf
  <2>3. Len(bases) = Len(lines) BY <2>1
  <2> HIDE DEF bases, line
  <2>4. bases' = [i \in 1 .. Len(bases) + 1 |->
                    IF i = Len(bases) + 1 THEN BaseOf(line) ELSE bases[i]]
    BY <2>2, <2>3
  <2> QED BY <1>6, <1>8, <2>4, OneMore
<1>10. amounts' = Append(amounts, a)
  <2>1. /\ Len(lines) \in Nat /\ DOMAIN lines = 1 .. Len(lines)
        /\ DOMAIN lines' = 1 .. Len(lines) + 1
        /\ lines'[Len(lines) + 1] = line /\ \A i \in 1 .. Len(lines) : lines'[i] = lines[i]
    BY <1>1, <1>2
  <2>2. amounts' = [i \in 1 .. Len(lines) + 1 |-> IF i = Len(lines) + 1 THEN a ELSE amounts[i]]
    BY <2>1
  <2>3. Len(amounts) = Len(lines) BY <2>1
  <2> HIDE DEF amounts, line
  <2>4. amounts' = [i \in 1 .. Len(amounts) + 1 |->
                      IF i = Len(amounts) + 1 THEN a ELSE amounts[i]]
    BY <2>2, <2>3
  <2>5. a \in Int BY <1>3
  <2> QED BY <1>8, <2>4, <2>5, OneMore
<1>11. /\ Bought = SumOf(bases) /\ Bought' = SumOf(bases')
       /\ Amount = SumOf(amounts) /\ Amount' = SumOf(amounts')
  BY DEF Bought, Amount
<1> HIDE DEF bases, amounts
<1>12. Bought \in Int /\ Bought' = Bought + BaseOf(line) BY <1>6, <1>8, <1>9, <1>11, SumOfOneMore
<1>13. Amount \in Int /\ Amount' = Amount + a
  <2>1. a \in Int BY <1>3
  <2> QED BY <1>8, <1>10, <1>11, <2>1, SumOfOneMore
<1>14. KardexHoldsWhatWasBought'
  <2> SUFFICES ASSUME IsContainer(item.presentation.purchase) \/ item.declared = 0
               PROVE  Near(stock * item.consumption.factor, Bought)'
    BY <1>1 DEF KardexHoldsWhatWasBought
  <2> DEFINE c == item.presentation.content.factor
             u == item.consumption.factor
             base == BaseOf(line)
             before == Slack
             more == a * c + u
  <2>1. c \in Nat \ {0} /\ u \in Nat \ {0} BY <1>1, <1>2, SoundUnit DEF ItemIsSound
  <2>2. 2 * (stock * u - Bought) \in -before .. before
    BY <1>1 DEF MeasureInv, KardexHoldsWhatWasBought, Near
  <2>3. Q \in Int /\ base \in Int /\ 2 * (Q * u - base) \in -more .. more
    BY <1>1, <1>2, LineIsNear
  <2>4. Slack' = before + more /\ before \in Int /\ more \in Int
    <3>1. Slack' = (Amount + a) * c + Len(lines') * u BY <1>1, <1>13 DEF Slack
    <3>2. before = Amount * c + Len(lines) * u BY DEF Slack
    <3>3. Len(lines') = Len(lines) + 1 /\ Len(lines) \in Nat BY <1>1, <1>2
    <3>4. a \in Int /\ c \in Int /\ u \in Int BY <1>3, <2>1
    <3> HIDE DEF c, u, before
    <3>5. (Amount + a) * c = Amount * c + a * c /\ Amount * c \in Int /\ a * c \in Int
      BY <1>13, <3>4, Distributes
    <3>6. (Len(lines) + 1) * u = Len(lines) * u + 1 * u /\ Len(lines) * u \in Int
      <4>1. Len(lines) \in Int /\ 1 \in Int BY <3>3
      <4> QED BY <3>4, <4>1, Distributes
    <3>7. Slack' = (Amount * c + a * c) + (Len(lines) * u + u)
      BY <3>1, <3>3, <3>4, <3>5, <3>6
    <3> DEFINE x == Amount * c
               y == a * c
               z == Len(lines) * u
    <3>8. x \in Int /\ y \in Int /\ z \in Int /\ more = y + u BY <3>5, <3>6
    <3>9. Slack' = (x + y) + (z + u) /\ before = x + z BY <3>2, <3>7
    <3> HIDE DEF x, y, z, more
    <3> QED BY <3>4, <3>8, <3>9
  <2>5. (stock * item.consumption.factor)' = stock * u + Q * u
    BY <1>1, <1>2, <1>6, <2>1
  <2>6. stock * u \in Int /\ Q * u \in Int BY <1>2, <1>6, <2>1
  <2>7. Bought' = Bought + base BY <1>12
  <2> HIDE DEF c, u, base, before, more
  <2>8. 2 * ((stock * u + Q * u) - (Bought + base)) \in -(before + more) .. before + more
    <3> DEFINE x == stock * u
               y == Q * u
    <3>1. x \in Int /\ y \in Int /\ Bought \in Int BY <1>12, <2>6
    <3>2. 2 * (x - Bought) \in -before .. before /\ 2 * (y - base) \in -more .. more
      BY <2>2, <2>3
    <3> HIDE DEF x, y, Q
    <3>3. 2 * ((x + y) - (Bought + base)) \in -(before + more) .. before + more
      BY <2>3, <2>4, <3>1, <3>2
    <3> QED BY <3>3 DEF x, y
  <2> QED BY <2>4, <2>5, <2>7, <2>8 DEF Near
<1>15. stock' \in Int BY <1>1, <1>2, <1>6
<1> QED BY <1>1, <1>4, <1>5, <1>14, <1>15 DEF MeasureInv

(* Whatever units a tenant declares, in whatever presentations and however  *)
(* many lines of whatever amounts it buys: the kardex holds what was bought *)
(* but for its roundings, and no factor in it is long to write (measure.go,  *)
(* decimals.go).                                                           *)
THEOREM KardexSound == MeasureSpec => []KardexIsSound
<1>1. MeasureInv /\ [MeasureNext]_measureVars => MeasureInv'
  <2> SUFFICES ASSUME MeasureInv, [MeasureNext]_measureVars PROVE MeasureInv' OBVIOUS
  <2>1. ASSUME NEW purchase \in Units, NEW content \in Units, NEW consumption \in Units,
               NEW declared \in Declared, Declare(purchase, content, declared, consumption)
        PROVE  MeasureInv'
    BY <2>1, DeclareStep
  <2>2. ASSUME NEW amount \in Amounts, NEW given \in Contents, Buy(amount, given)
        PROVE  MeasureInv'
    BY <2>2, BuyStep
  <2>3. CASE UNCHANGED measureVars
    BY <2>3 DEF measureVars, MeasureInv, ItemIsSound, KardexHoldsWhatWasBought, Near, Slack,
                Amount, Bought, BaseOf
  <2> QED BY <2>1, <2>2, <2>3 DEF MeasureNext
<1> QED BY <1>1, MeasureInitInv, MeasureImplies, PTL DEF MeasureSpec

-----------------------------------------------------------------------------
(* The catalog that passed.                                                *)

(* The least of some numbers is one of them.                               *)
LEMMA LeastOne ==
  ASSUME NEW T \in SUBSET Nat, T # {}
  PROVE  \E k \in T : \A j \in T : k <= j
<1> DEFINE Less == OpToRel(<, Nat)
<1>1. IsWellFoundedOn(Less, Nat)
  BY NatLessThanWellFounded, Zenon
<1>2. \A m, n \in Nat : m < n => <<m, n>> \in Less
  BY Zenon DEF OpToRel
<1> HIDE DEF Less
<1>3. PICK k \in T : \A j \in T : ~ (<<j, k>> \in Less)
  BY <1>1, WFMin
<1>4. \A j \in T : ~ (j < k) BY <1>2, <1>3
<1> QED BY <1>3, <1>4

(* The greatest of finitely many numbers is one of them.                   *)
LEMMA HighestIsThere ==
  ASSUME NEW ranks \in SUBSET Nat, ranks # {}, NEW bound \in Nat, \A rank \in ranks : rank <= bound
  PROVE  Highest(ranks) \in ranks /\ \A rank \in ranks : rank <= Highest(ranks)
<1> DEFINE Gap == {gap \in Nat : \E rank \in ranks : gap = bound - rank}
           Less == OpToRel(<, Nat)
<1>0. IsWellFoundedOn(Less, Nat)
  BY NatLessThanWellFounded, Zenon
<1>1. \A m, n \in Nat : m < n => <<m, n>> \in Less
  BY Zenon DEF OpToRel
<1> HIDE DEF Less
<1>2. Gap \in SUBSET Nat /\ Gap # {}
  <2>1. PICK rank \in ranks : TRUE OBVIOUS
  <2>2. bound - rank \in Nat OBVIOUS
  <2> QED BY <2>2
<1>3. \A rank \in ranks : bound - rank \in Gap /\ rank \in Nat OBVIOUS
<1>4. \A gap \in Gap : \E rank \in ranks : gap = bound - rank OBVIOUS
<1> HIDE DEF Gap
<1>5. PICK gap \in Gap : \A other \in Gap : ~ (<<other, gap>> \in Less)
  BY <1>0, <1>2, WFMin
<1>6. PICK top \in ranks : gap = bound - top BY <1>4
<1>7. ASSUME NEW rank \in ranks PROVE rank <= top
  <2>1. bound - rank \in Gap /\ bound - rank \in Nat /\ gap \in Nat BY <1>2, <1>3
  <2>2. ~ (bound - rank < gap) BY <1>1, <1>5, <2>1
  <2> QED BY <1>3, <1>6, <2>1, <2>2
<1> QED BY <1>7 DEF Highest

\* Effects and risks have a rank, and it tells them apart.
LEMMA RanksOfEffects ==
  ASSUME NEW effect \in Range(EffectsByRank)
  PROVE  EffectRank(effect) \in 1 .. 4 /\ EffectsByRank[EffectRank(effect)] = effect
<1>1. DOMAIN EffectsByRank = 1 .. 4 BY DEF EffectsByRank
<1>2. \E rank \in DOMAIN EffectsByRank : EffectsByRank[rank] = effect BY DEF Range
<1> HIDE DEF EffectsByRank
<1> QED BY <1>1, <1>2 DEF EffectRank

LEMMA RanksOfRisks ==
  ASSUME NEW risk \in Range(RisksByRank)
  PROVE  RiskRank(risk) \in 1 .. 4 /\ RisksByRank[RiskRank(risk)] = risk
<1>1. DOMAIN RisksByRank = 1 .. 4 BY DEF RisksByRank
<1>2. \E rank \in DOMAIN RisksByRank : RisksByRank[rank] = risk BY DEF Range
<1> HIDE DEF RisksByRank
<1> QED BY <1>1, <1>2 DEF RiskRank

LEMMA RankOfRank ==
  ASSUME NEW rank \in 1 .. 4
  PROVE  EffectRank(EffectsByRank[rank]) = rank /\ RiskRank(RisksByRank[rank]) = rank
<1>1. rank = 1 \/ rank = 2 \/ rank = 3 \/ rank = 4 OBVIOUS
<1>2. DOMAIN EffectsByRank = 1 .. 4 /\ DOMAIN RisksByRank = 1 .. 4
  BY DEF EffectsByRank, RisksByRank
<1>3. \A i, j \in 1 .. 4 : EffectsByRank[i] = EffectsByRank[j] => i = j BY DEF EffectsByRank
<1>4. \A i, j \in 1 .. 4 : RisksByRank[i] = RisksByRank[j] => i = j BY DEF RisksByRank
<1> HIDE DEF EffectsByRank, RisksByRank
<1> QED BY <1>2, <1>3, <1>4 DEF EffectRank, RiskRank

\* An action some entry has is told the worst of all its entries.
LEMMA WorstIsThere ==
  ASSUME NEW entries \in Catalogs, Valid(entries), NEW action \in Gated(entries)
  PROVE  /\ \E i \in Places(entries, action) : entries[i].effect = Effects(entries)[action]
         /\ \A i \in Places(entries, action) :
              /\ EffectRank(entries[i].effect) <= EffectRank(Effects(entries)[action])
              /\ RiskRank(entries[i].risk) <= RiskRank(Risks(entries)[action])
         /\ Lookup(entries, action).effect = Effects(entries)[action]
         /\ Lookup(entries, action).action = action
<1> DEFINE own == Places(entries, action)
           E(i) == EffectRank(entries[i].effect)
           R(i) == RiskRank(entries[i].risk)
<1>1. Len(entries) \in Nat /\ DOMAIN entries = 1 .. Len(entries) BY CatalogAssumption
<1>2. own \in SUBSET (1 .. Len(entries)) /\ own # {} /\ \A i \in own : entries[i].action = action
  BY <1>1 DEF Places, Gated
<1>3. ASSUME NEW i \in own
      PROVE  /\ entries[i].effect \in Range(EffectsByRank) /\ entries[i].risk \in Range(RisksByRank)
             /\ E(i) \in 1 .. 4 /\ EffectsByRank[E(i)] = entries[i].effect
             /\ R(i) \in 1 .. 4 /\ RisksByRank[R(i)] = entries[i].risk
  <2>1. ValidEntry(entries[i]) BY <1>1, <1>2 DEF Valid
  <2>2. entries[i].effect \in Range(EffectsByRank) /\ entries[i].risk \in Range(RisksByRank)
    BY <2>1 DEF ValidEntry
  <2> QED BY <2>2, RanksOfEffects, RanksOfRisks
<1> HIDE DEF own, E, R
<1> DEFINE effects == {E(i) : i \in own}
           risks == {R(i) : i \in own}
<1>4. effects \in SUBSET Nat /\ effects # {} /\ \A r \in effects : r <= 4
  <2>1. PICK i \in own : TRUE BY <1>2
  <2>2. E(i) \in effects OBVIOUS
  <2>3. \A r \in effects : r \in 1 .. 4 BY <1>3
  <2> HIDE DEF effects
  <2> QED BY <2>2, <2>3
<1>5. risks \in SUBSET Nat /\ risks # {} /\ \A r \in risks : r <= 4
  <2>1. PICK i \in own : TRUE BY <1>2
  <2>2. R(i) \in risks OBVIOUS
  <2>3. \A r \in risks : r \in 1 .. 4 BY <1>3
  <2> HIDE DEF risks
  <2> QED BY <2>2, <2>3
<1>6. PICK top \in own : Highest(effects) = E(top) /\ \A i \in own : E(i) <= E(top)
  <2>1. /\ Highest(effects) \in effects
        /\ \A r \in effects : r <= Highest(effects)
    <3> HIDE DEF effects
    <3> QED BY <1>4, HighestIsThere
  <2> QED BY <2>1
<1>7. PICK bad \in own : Highest(risks) = R(bad) /\ \A i \in own : R(i) <= R(bad)
  <2>1. /\ Highest(risks) \in risks
        /\ \A r \in risks : r <= Highest(risks)
    <3> HIDE DEF risks
    <3> QED BY <1>5, HighestIsThere
  <2> QED BY <2>1
<1>8. Effects(entries)[action] = EffectsByRank[E(top)]
  BY <1>6 DEF Effects, own, E
<1>9. Risks(entries)[action] = RisksByRank[R(bad)]
  BY <1>7 DEF Risks, own, R
<1>10. entries[top].effect = Effects(entries)[action] BY <1>3, <1>8
<1>11. EffectRank(Effects(entries)[action]) = E(top) /\ RiskRank(Risks(entries)[action]) = R(bad)
  BY <1>3, <1>8, <1>9, RankOfRank
<1> DEFINE Leads(i) == \A j \in own : E(j) < E(i) \/ (E(j) = E(i) /\ i <= j)
           first == CHOOSE i \in own : Leads(i)
<1>12. first \in own /\ Leads(first)
  <2> DEFINE ties == {i \in own : E(i) = E(top)}
  <2>0. ties \in SUBSET Nat
    <3>1. \A i \in ties : i \in 1 .. Len(entries) BY <1>2
    <3> HIDE DEF ties
    <3> QED BY <1>1, <3>1
  <2>1. ties # {} BY <1>6
  <2>2. PICK i \in ties : \A j \in ties : i <= j
    <3> HIDE DEF ties
    <3>1. \E i \in ties : \A j \in ties : i <= j BY <2>0, <2>1, LeastOne
    <3> QED BY <3>1
  <2>3. ASSUME NEW j \in own PROVE E(j) < E(i) \/ (E(j) = E(i) /\ i <= j)
    BY <1>3, <1>6, <2>2
  <2>4. i \in own /\ Leads(i) BY <2>2, <2>3
  <2> HIDE DEF Leads
  <2> QED BY <2>4
<1>13. Lookup(entries, action) = entries[first]
  BY DEF Lookup, own, E
<1> HIDE DEF first
<1>14. E(first) = E(top)
  <2>1. E(top) < E(first) \/ E(top) = E(first) BY <1>12
  <2>2. E(first) <= E(top) /\ E(top) \in Nat /\ E(first) \in Nat BY <1>3, <1>6, <1>12
  <2> QED BY <2>1, <2>2
<1>15. entries[first].effect = Effects(entries)[action] /\ entries[first].action = action
  BY <1>2, <1>3, <1>8, <1>12, <1>14
<1>16. \A i \in own : E(i) <= E(top) /\ R(i) <= R(bad) BY <1>6, <1>7
<1> QED BY <1>10, <1>11, <1>13, <1>15, <1>16 DEF own, E, R

\* Validate refuses a second entry of an rpc: the interceptors go by the one.
LEMMA OneEntryOfAnRpc ==
  ASSUME NEW entries \in Catalogs, Valid(entries), NEW i \in DOMAIN entries
  PROVE  MethodEffects(entries)[entries[i].rpc] = entries[i].effect
<1>1. Len(entries) \in Nat /\ DOMAIN entries = 1 .. Len(entries) BY CatalogAssumption
<1> DEFINE own == {j \in DOMAIN entries : entries[j].rpc = entries[i].rpc}
<1>2. own = {i} BY DEF Valid
<1>3. i \in Nat BY <1>1
<1>4. Highest({i}) = i BY <1>3 DEF Highest
<1>5. entries[i].rpc \in {entries[j].rpc : j \in DOMAIN entries} OBVIOUS
<1>6. MethodEffects(entries)[entries[i].rpc] = entries[Highest(own)].effect
  BY <1>5 DEF MethodEffects
<1> QED BY <1>2, <1>4, <1>6

\* Every RPC the Core serves is classified, of what capcheck passed.
LEMMA RpcsAreClassified ==
  ASSUME NEW entries, NEW files, ExitCode(entries, files) = 0
  PROVE  DOMAIN MethodEffects(entries) = {r.name : r \in Scan(files)}
<1>1. CheckRPCs(entries, Scan(files)) BY DEF ExitCode
<1>2. DOMAIN MethodEffects(entries) = {entries[i].rpc : i \in DOMAIN entries} BY DEF MethodEffects
<1> DEFINE rpcs == Scan(files)
<1> HIDE DEF rpcs
<1>3. CheckRPCs(entries, rpcs) BY <1>1 DEF rpcs
<1>4. \A i \in DOMAIN entries : \E r \in rpcs : r.name = entries[i].rpc BY <1>3 DEF CheckRPCs
<1>5. \A r \in rpcs : \E i \in DOMAIN entries : entries[i].rpc = r.name BY <1>3 DEF CheckRPCs
<1>6. {entries[i].rpc : i \in DOMAIN entries} = {r.name : r \in rpcs} BY <1>4, <1>5
<1> QED BY <1>2, <1>6 DEF rpcs

\* An action the gate takes for a read has no entry that writes.
LEMMA ReadsNeedNoKey ==
  ASSUME NEW entries \in Catalogs, Valid(entries), NEW i \in DOMAIN entries,
         IsRead(entries, entries[i].action)
  PROVE  \A principal \in Principals : Admission(entries, entries[i].rpc, principal, << >>) = "unkeyed"
<1> DEFINE action == entries[i].action
<1>1. action \in Gated(entries) /\ Effects(entries)[action] = "read" BY DEF IsRead
<1>2. i \in Places(entries, action) BY DEF Places
<1>3. EffectRank(entries[i].effect) <= EffectRank("read")
  BY <1>1, <1>2, WorstIsThere
<1>4. entries[i].effect \in Range(EffectsByRank) BY DEF Valid, ValidEntry
<1>5. EffectRank("read") = 1
  <2>1. EffectsByRank[1] = "read" BY DEF EffectsByRank
  <2>2. EffectRank(EffectsByRank[1]) = 1 BY RankOfRank
  <2> QED BY <2>1, <2>2
<1>6. EffectRank(entries[i].effect) \in 1 .. 4 /\ EffectsByRank[EffectRank(entries[i].effect)] = entries[i].effect
  BY <1>4, RanksOfEffects
<1>7. EffectRank(entries[i].effect) = 1 BY <1>3, <1>5, <1>6
<1>8. entries[i].effect = "read"
  <2>1. EffectsByRank[1] = "read" BY DEF EffectsByRank
  <2> QED BY <1>6, <1>7, <2>1
<1>9. entries[i].rpc \in DOMAIN MethodEffects(entries) BY DEF MethodEffects
<1>10. ~ IsWrite(entries, entries[i].rpc) BY <1>8, <1>9, OneEntryOfAnRpc DEF IsWrite
<1> QED BY <1>10 DEF Admission

\* A machine without a key gets to no served RPC but a declared read.
LEMMA WritesNeedAKey ==
  ASSUME NEW entries \in Catalogs, NEW files, ExitCode(entries, files) = 0,
         NEW r \in Scan(files), NEW principal \in Principals \ {"user"}, NEW keys \in KeysSent,
         Admission(entries, r.name, principal, keys) = "unkeyed"
  PROVE  \E e \in Range(entries) : e.rpc = r.name /\ e.effect = "read"
<1>1. Valid(entries) /\ CheckRPCs(entries, Scan(files)) BY DEF ExitCode
<1>2. PICK i \in DOMAIN entries : entries[i].rpc = r.name BY <1>1 DEF CheckRPCs
<1>3. ~ IsWrite(entries, r.name)
  <2>1. SUFFICES ASSUME IsWrite(entries, r.name) PROVE FALSE OBVIOUS
  <2>2. KeyFrom(keys) \in {"none", "one", "invalid"} BY DEF KeyFrom
  <2> QED BY <2>1, <2>2 DEF Admission
<1>4. entries[i].effect = "read" BY <1>1, <1>2, <1>3, OneEntryOfAnRpc DEF IsWrite
<1> QED BY <1>2, <1>4 DEF Range

\* Two names of one length with the same segments are one.
LEMMA SameSegments ==
  ASSUME NEW left \in Seq(STRING), NEW right \in Seq(STRING),
         Len(right) = Len(left), \A i \in 1 .. Len(left) : right[i] = left[i]
  PROVE  right = left
<1> DEFINE places == 1 .. Len(left)
<1>1. left \in [places -> STRING] BY LenProperties
<1>2. right \in [places -> STRING] BY LenProperties
<1>3. \A i \in places : right[i] = left[i] OBVIOUS
<1> HIDE DEF places
<1> QED BY <1>1, <1>2, <1>3

\* A name that ends in two segments tells its package from them.
LEMMA NamesTellPackages ==
  ASSUME NEW p \in Seq(STRING), NEW q \in Seq(STRING), NEW left \in Seq(STRING), NEW right \in Seq(STRING),
         Len(left) = Len(right), p \o left = q \o right
  PROVE  /\ p = q
         /\ right = left
<1>1. Len(p) = Len(q)
  <2>1. Len(p \o left) = Len(p) + Len(left) /\ Len(q \o right) = Len(q) + Len(right) BY ConcatProperties
  <2>2. Len(p) \in Nat /\ Len(q) \in Nat /\ Len(left) \in Nat BY LenProperties
  <2> QED BY <2>1, <2>2
<1>2. \A i \in 1 .. Len(p) : p[i] = q[i]
  <2>1. Len(p) \in Nat /\ Len(q) \in Nat /\ Len(left) \in Nat /\ Len(right) \in Nat BY LenProperties
  <2>2. \A i \in 1 .. Len(p) : (p \o left)[i] = p[i] BY <2>1, ConcatProperties
  <2>3. \A i \in 1 .. Len(q) : (q \o right)[i] = q[i] BY <2>1, ConcatProperties
  <2> QED BY <1>1, <2>2, <2>3
<1>3. p = q BY <1>1, <1>2, SameSegments
<1>4. right = left
  <2>1. Len(p) \in Nat /\ Len(left) \in Nat BY LenProperties
  <2>2. \A i \in 1 .. Len(left) : (p \o left)[Len(p) + i] = left[i] /\ (p \o right)[Len(p) + i] = right[i]
    <3> TAKE i \in 1 .. Len(left)
    <3>1. Len(p) + i \in 1 .. Len(p) + Len(left) /\ ~ (Len(p) + i <= Len(p)) /\ (Len(p) + i) - Len(p) = i
      BY <2>1
    <3>2. (p \o left)[Len(p) + i] = left[i]
      <4>1. \A j \in 1 .. Len(p) + Len(left) : ~ (j <= Len(p)) => (p \o left)[j] = left[j - Len(p)]
        BY ConcatProperties
      <4> QED BY <3>1, <4>1
    <3>3. (p \o right)[Len(p) + i] = right[i]
      <4>1. \A j \in 1 .. Len(p) + Len(right) : ~ (j <= Len(p)) => (p \o right)[j] = right[j - Len(p)]
        BY ConcatProperties
      <4> QED BY <3>1, <4>1
    <3> QED BY <3>2, <3>3
  <2>3. \A i \in 1 .. Len(left) : right[i] = left[i] BY <1>3, <2>2
  <2> QED BY <2>3, SameSegments
<1> QED BY <1>3, <1>4

\* Where the file's own package declares the name, that is what it means.
LEMMA InnermostWins ==
  ASSUME NEW known, NEW pkg \in Seq(STRING), NEW ref, ~ ref.absolute, pkg \o ref.name \in known
  PROVE  Resolve(known, pkg, ref) = pkg \o ref.name
<1> DEFINE Scope(n) == SubSeq(pkg, 1, n) \o ref.name
           found == {n \in 0 .. Len(pkg) : Scope(n) \in known}
<1>1. Len(pkg) \in Nat /\ SubSeq(pkg, 1, Len(pkg)) = pkg BY LenProperties, SubSeqFull
<1>2. Scope(Len(pkg)) = pkg \o ref.name BY <1>1
<1>3. Len(pkg) \in found
  <2>1. Len(pkg) \in 0 .. Len(pkg) BY <1>1
  <2>2. Scope(Len(pkg)) \in known BY <1>2
  <2> HIDE DEF Scope
  <2> QED BY <2>1, <2>2
<1>4. \A n \in found : n \in Nat /\ n <= Len(pkg) BY <1>1
<1>5. Resolve(known, pkg, ref) = Scope(Highest(found)) BY <1>3 DEF Resolve
<1> HIDE DEF found, Scope
<1>6. Highest(found) = Len(pkg) BY <1>1, <1>3, <1>4 DEF Highest
<1> QED BY <1>2, <1>5, <1>6

\* An entry capcheck passed names the messages of its RPC.
LEMMA MessagesOfAnRpc ==
  ASSUME NEW entries \in Catalogs, NEW files \in ProtoTrees, ExitCode(entries, files) = 0,
         NEW file \in files, Packages = {} \/ file.pkg \in Packages,
         NEW i \in DOMAIN entries, NEW m \in file.methods,
         file.pkg \o m.name = entries[i].rpc, ~ m.input.absolute,
         file.pkg \o m.input.name \in DeclaredMessages(files)
  PROVE  entries[i].request = file.pkg \o m.input.name
<1>1. CheckRPCs(entries, Scan(files)) BY DEF ExitCode
<1>2. PICK r \in Scan(files) : r.name = entries[i].rpc /\ r.request = entries[i].request
  BY <1>1 DEF CheckRPCs
<1> DEFINE Named(g, n) ==
      [name |-> g.pkg \o n.name,
       request |-> Resolve(DeclaredMessages(files), g.pkg, n.input),
       response |-> Resolve(DeclaredMessages(files), g.pkg, n.output)]
<1>3. PICK g \in files : \E n \in g.methods : r = Named(g, n)
  <2>1. \E g \in {f \in files : Packages = {} \/ f.pkg \in Packages} : r \in {Named(g, n) : n \in g.methods}
    BY DEF Scan
  <2> HIDE DEF Named
  <2> QED BY <2>1
<1>4. PICK n \in g.methods : r = Named(g, n) BY <1>3
<1>5. r.name = g.pkg \o n.name /\ r.request = Resolve(DeclaredMessages(files), g.pkg, n.input)
  BY <1>4
<1> HIDE DEF Named
<1>6. /\ file.pkg \in Seq(STRING) /\ g.pkg \in Seq(STRING)
      /\ m.name \in Seq(STRING) /\ n.name \in Seq(STRING) /\ Len(m.name) = 2 /\ Len(n.name) = 2
      /\ file.pkg = g.pkg /\ m.name = n.name => m = n
  BY CatalogAssumption
<1>7. file.pkg = g.pkg /\ n.name = m.name
  <2>1. file.pkg \o m.name = g.pkg \o n.name BY <1>2, <1>5
  <2>2. Len(m.name) = Len(n.name) BY <1>6
  <2>3. /\ file.pkg \in Seq(STRING) /\ g.pkg \in Seq(STRING)
        /\ m.name \in Seq(STRING) /\ n.name \in Seq(STRING)
    BY <1>6
  <2> DEFINE p == file.pkg
             q == g.pkg
             left == m.name
             right == n.name
  <2>4. p \in Seq(STRING) /\ q \in Seq(STRING) /\ left \in Seq(STRING) /\ right \in Seq(STRING) BY <2>3
  <2>5. Len(left) = Len(right) /\ p \o left = q \o right BY <2>1, <2>2
  <2> HIDE DEF p, q, left, right
  <2>6. p = q BY <2>4, <2>5, NamesTellPackages
  <2>7. right = left BY <2>4, <2>5, NamesTellPackages
  <2> QED BY <2>6, <2>7 DEF p, q, left, right
<1>8. entries[i].request = Resolve(DeclaredMessages(files), file.pkg, m.input) BY <1>2, <1>5, <1>6, <1>7
<1> QED BY <1>6, <1>8, InnermostWins

\* The invariant of the pipeline: what the Core runs has passed capcheck.
THEOREM CapcheckedInv == CatalogSpec => []CatalogInv
<1>1. CatalogInit => CatalogInv BY CatalogAssumption DEF CatalogInit, CatalogInv
<1>2. CatalogInv /\ [CatalogNext]_catalogVars => CatalogInv'
  <2> SUFFICES ASSUME CatalogInv, [CatalogNext]_catalogVars PROVE CatalogInv'
    OBVIOUS
  <2>1. ASSUME NEW entries \in Catalogs, NEW files \in ProtoTrees, Push(entries, files)
        PROVE  CatalogInv'
    <3>1. verdict = Nothing BY <2>1 DEF CatalogInv, Push
    <3> QED BY <2>1, <3>1, CatalogAssumption DEF CatalogInv, Push
  <2>2. ASSUME Capcheck PROVE CatalogInv'
    BY <2>2 DEF CatalogInv, Capcheck
  <2>3. ASSUME CannotRead PROVE CatalogInv'
    BY <2>3 DEF CatalogInv, CannotRead
  <2>4. ASSUME Release PROVE CatalogInv'
    <3>1. commit # Nothing BY <2>4, CatalogAssumption DEF CatalogInv, Release
    <3> QED BY <2>4, <3>1, CatalogAssumption DEF CatalogInv, Release
  <2>5. CASE UNCHANGED catalogVars
    BY <2>5 DEF CatalogInv, catalogVars
  <2> QED BY <2>1, <2>2, <2>3, <2>4, <2>5 DEF CatalogNext
<1> QED BY <1>1, <1>2, PTL DEF CatalogSpec

\* What passed capcheck and started speaks for the protos (catalog.go:321-324,
\* effect.go:6-10, catalog.go:272-286, main.go:197-205).
THEOREM ProtosSpokenFor == CatalogSpec => []SpeaksForTheProtos
<1>1. CatalogInv => SpeaksForTheProtos
  <2> SUFFICES ASSUME CatalogInv, release # Nothing PROVE SpeaksForTheProtos
    BY DEF SpeaksForTheProtos, EveryRpcIsClassified, OneClassification, WorstIsTold, MessagesAreTheRpcs
  <2> DEFINE entries == release.entries
             files == release.files
  <2>1. entries \in Catalogs /\ files \in ProtoTrees /\ ExitCode(entries, files) = 0 BY DEF CatalogInv
  <2> HIDE DEF entries, files
  <2>2. Valid(entries) BY <2>1 DEF ExitCode
  <2>3. EveryRpcIsClassified BY <2>1, RpcsAreClassified DEF EveryRpcIsClassified, entries, files
  <2>4. ASSUME NEW i \in DOMAIN entries
        PROVE  \/ entries[i].action = << >> /\ entries[i].rpc \in Ungated(entries)
               \/ /\ entries[i].action \in DOMAIN Effects(entries)
                  /\ IsRead(entries, entries[i].action) =>
                       \A principal \in Principals :
                         Admission(entries, entries[i].rpc, principal, << >>) = "unkeyed"
    <3>1. CASE entries[i].action = << >> BY <3>1 DEF Ungated
    <3>2. CASE entries[i].action # << >>
      <4>1. entries[i].action \in Gated(entries) BY <3>2 DEF Gated
      <4>2. DOMAIN Effects(entries) = Gated(entries) BY DEF Effects
      <4> QED BY <2>1, <2>2, <4>1, <4>2, ReadsNeedNoKey
    <3> QED BY <3>1, <3>2
  <2>5. \A e \in Range(entries) : \E i \in DOMAIN entries : e = entries[i] BY DEF Range
  <2>6. \A rpc \in {r.name : r \in Scan(files)},
           principal \in Principals \ {"user"}, keys \in KeysSent :
           Admission(entries, rpc, principal, keys) = "unkeyed" =>
             \E e \in Range(entries) : e.rpc = rpc /\ e.effect = "read"
    BY <2>1, WritesNeedAKey
  <2>7. OneClassification BY <2>4, <2>5, <2>6 DEF OneClassification, entries, files
  <2>8. WorstIsTold
    BY <2>1, <2>2, WorstIsThere DEF WorstIsTold, entries
  <2>9. MessagesAreTheRpcs
    <3>1. \A file \in {f \in files : Packages = {} \/ f.pkg \in Packages}, i \in DOMAIN entries :
            \A m \in file.methods :
              file.pkg \o m.name = entries[i].rpc /\ ~m.input.absolute
                /\ file.pkg \o m.input.name \in DeclaredMessages(files)
                => entries[i].request = file.pkg \o m.input.name
      BY <2>1, MessagesOfAnRpc
    <3> QED BY <3>1 DEF MessagesAreTheRpcs, entries, files
  <2> QED BY <2>3, <2>7, <2>8, <2>9 DEF SpeaksForTheProtos
<1> QED BY <1>1, CapcheckedInv, PTL

-----------------------------------------------------------------------------
(* Bracket tables.                                                         *)

\* Tiers that meet end to end, one or more of them.
Joined(s) == Len(s) \in Nat \ {0} /\ DOMAIN s = 1 .. Len(s) /\ MeetEndToEnd(s)

\* What a tier adds to the tax of a base.
Added(s, base, n) == Portion(s[n], base) * s[n].rate

\* The tax of a base under the first n tiers, for each n.
Running(f, s, base) ==
  f[0] = 0 /\ \A n \in 1 .. Len(s) : f[n] = f[n - 1] + Added(s, base, n)

\* The tiers' bounds rise.
LEMMA BoundsRise ==
  ASSUME NEW s, Joined(s)
  PROVE  /\ \A i \in 1 .. Len(s) : s[i].lower \in Nat /\ s[i].rate \in Nat /\ s[i].deduction \in Int
         /\ \A i \in 1 .. Len(s) :
              \/ s[i].upper \in Nat /\ s[i].lower < s[i].upper
              \/ s[i].upper = Uncapped /\ i = Len(s)
         /\ \A i, j \in 1 .. Len(s) : i < j =>
              s[i].upper \in Nat /\ s[i].upper <= s[j].lower /\ s[i].lower < s[j].lower
<1>1. Len(s) \in Nat \ {0} /\ DOMAIN s = 1 .. Len(s) BY DEF Joined
<1>2. /\ \A i \in 1 .. Len(s) : s[i].lower \in Nat /\ s[i].rate \in Nat /\ s[i].deduction \in Int
      /\ \A i \in 1 .. Len(s) :
           \/ s[i].upper \in Nat /\ s[i].lower < s[i].upper
           \/ s[i].upper = Uncapped /\ i = Len(s)
      /\ \A i \in (1 .. Len(s)) \ {1} : s[i - 1].upper = s[i].lower
  BY <1>1 DEF Joined, MeetEndToEnd
<1>3. ASSUME NEW i \in 1 .. Len(s)
      PROVE  \A j \in 1 .. Len(s) : i < j => s[i].upper \in Nat /\ s[i].upper <= s[j].lower
  <2> DEFINE Meets(j) == j \in 1 .. Len(s) /\ i < j => s[i].upper \in Nat /\ s[i].upper <= s[j].lower
             T == {j \in Nat : Meets(j)}
  <2>1. 0 \in T OBVIOUS
  <2>2. ASSUME NEW j \in T PROVE j + 1 \in T
    <3> SUFFICES ASSUME j + 1 \in 1 .. Len(s), i < j + 1
                 PROVE  s[i].upper \in Nat /\ s[i].upper <= s[j + 1].lower
      OBVIOUS
    <3>0. Len(s) \in Nat /\ j \in Nat /\ i \in Nat /\ i >= 1 /\ i <= j /\ j + 1 <= Len(s) BY <1>1
    <3>1. j \in 1 .. Len(s) /\ j + 1 \in (1 .. Len(s)) \ {1} /\ (j + 1) - 1 = j /\ j # Len(s)
      BY <3>0
    <3>2. s[j].upper = s[j + 1].lower /\ s[j].upper \in Nat /\ s[j].lower < s[j].upper /\ s[j].lower \in Nat
      BY <1>2, <3>1
    <3>3. CASE i = j BY <3>2, <3>3
    <3>4. CASE i # j
      <4>1. s[i].upper \in Nat /\ s[i].upper <= s[j].lower BY <3>1, <3>4
      <4> QED BY <3>2, <4>1
    <3> QED BY <3>3, <3>4
  <2>3. T = Nat
    <3> HIDE DEF T
    <3>1. T \in SUBSET Nat BY DEF T
    <3> QED BY <2>1, <2>2, <3>1, AllNumbers
  <2>4. ASSUME NEW j \in 1 .. Len(s) PROVE Meets(j)
    <3>1. j \in Nat BY <1>1
    <3> QED BY <2>3, <3>1
  <2> QED BY <2>4
<1>4. ASSUME NEW i \in 1 .. Len(s), NEW j \in 1 .. Len(s), i < j
      PROVE  s[i].upper \in Nat /\ s[i].upper <= s[j].lower /\ s[i].lower < s[j].lower
  <2>1. s[i].upper \in Nat /\ s[i].upper <= s[j].lower BY <1>3, <1>4
  <2>2. s[i].lower < s[i].upper /\ s[i].lower \in Nat /\ s[j].lower \in Nat
    <3>1. i \in Int /\ j \in Int /\ Len(s) \in Int /\ j <= Len(s) BY <1>1
    <3>2. i # Len(s) BY <1>4, <3>1
    <3> QED BY <1>2, <3>2
  <2> QED BY <2>1, <2>2
<1> QED BY <1>2, <1>4

\* Numbers up to n that rise are those numbers.
LEMMA RisingIsIdentity ==
  ASSUME NEW n \in Nat, NEW g \in [1 .. n -> 1 .. n], \A i, j \in 1 .. n : i < j => g[i] < g[j]
  PROVE  \A i \in 1 .. n : g[i] = i
<1> DEFINE T == {k \in Nat : k + 1 \in 1 .. n => g[k + 1] >= k + 1}
           U == {k \in Nat : n - k \in 1 .. n => g[n - k] <= n - k}
<1>1. T = Nat
  <2>1. 0 \in T OBVIOUS
  <2>2. ASSUME NEW k \in T PROVE k + 1 \in T
    <3> SUFFICES ASSUME (k + 1) + 1 \in 1 .. n PROVE g[(k + 1) + 1] >= (k + 1) + 1 OBVIOUS
    <3>1. k + 1 \in 1 .. n /\ k + 1 < (k + 1) + 1 OBVIOUS
    <3>2. g[k + 1] < g[(k + 1) + 1] /\ g[k + 1] >= k + 1 BY <3>1
    <3>3. g[k + 1] \in Int /\ g[(k + 1) + 1] \in Int BY <3>1
    <3> QED BY <3>2, <3>3
  <2> HIDE DEF T
  <2>3. T \in SUBSET Nat BY DEF T
  <2> QED BY <2>1, <2>2, <2>3, AllNumbers
<1>2. U = Nat
  <2>1. 0 \in U OBVIOUS
  <2>2. ASSUME NEW k \in U PROVE k + 1 \in U
    <3> SUFFICES ASSUME n - (k + 1) \in 1 .. n PROVE g[n - (k + 1)] <= n - (k + 1) OBVIOUS
    <3>1. n - k \in 1 .. n /\ n - (k + 1) < n - k OBVIOUS
    <3>2. g[n - (k + 1)] < g[n - k] /\ g[n - k] <= n - k BY <3>1
    <3>3. g[n - (k + 1)] \in Int /\ g[n - k] \in Int BY <3>1
    <3> QED BY <3>2, <3>3
  <2> HIDE DEF U
  <2>3. U \in SUBSET Nat BY DEF U
  <2> QED BY <2>1, <2>2, <2>3, AllNumbers
<1>3. ASSUME NEW i \in 1 .. n PROVE g[i] = i
  <2>1. i - 1 \in Nat /\ n - i \in Nat /\ (i - 1) + 1 = i /\ n - (n - i) = i OBVIOUS
  <2>2. i - 1 \in T /\ n - i \in U
    <3> HIDE DEF T, U
    <3> QED BY <1>1, <1>2, <2>1
  <2>3. g[i] >= i /\ g[i] <= i BY <2>1, <2>2
  <2>4. g[i] \in Int OBVIOUS
  <2> QED BY <2>3, <2>4
<1> QED BY <1>3

\* In whatever order its tiers are stored, a table is sorted into one whose
\* tiers meet end to end.
LEMMA SortedIsJoined ==
  ASSUME NEW tiers \in Tables
  PROVE  /\ Joined(Sorted(tiers)) /\ Len(Sorted(tiers)) = Len(tiers) /\ DOMAIN tiers = 1 .. Len(tiers)
         /\ \A i \in 1 .. Len(tiers) : \E j \in 1 .. Len(tiers) : Sorted(tiers)[i] = tiers[j]
         /\ \A i \in 1 .. Len(tiers) : \E j \in 1 .. Len(tiers) : tiers[i] = Sorted(tiers)[j]
<1> DEFINE n == Len(tiers)
           places == 1 .. n
           Arranged(order) == [i \in places |-> tiers[order[i]]]
           Rises(order) == \A i, j \in places : i < j =>
             \/ tiers[order[i]].lower < tiers[order[j]].lower
             \/ tiers[order[i]].lower = tiers[order[j]].lower /\ order[i] < order[j]
           order == CHOOSE order \in [places -> places] : Rises(order)
<1>1. n \in Nat \ {0} /\ DOMAIN tiers = places BY BracketsAssumption
<1>2. PICK meant \in [places -> places] :
        (\A i \in places : \E j \in places : meant[j] = i) /\ MeetEndToEnd(Arranged(meant))
  <2>1. \E meant \in [DOMAIN tiers -> DOMAIN tiers] :
          /\ \A i \in DOMAIN tiers : \E j \in DOMAIN tiers : meant[j] = i
          /\ MeetEndToEnd([i \in 1 .. Len(tiers) |-> tiers[meant[i]]])
    BY BracketsAssumption
  <2> HIDE DEF n
  <2>2. \E meant \in [places -> places] :
          /\ \A i \in places : \E j \in places : meant[j] = i
          /\ MeetEndToEnd([i \in places |-> tiers[meant[i]]])
    BY <1>1, <2>1 DEF n
  <2> QED BY <2>2
<1>3. Len(Arranged(meant)) = n /\ DOMAIN Arranged(meant) = places
  <2>1. Arranged(meant) = [i \in 1 .. n |-> tiers[meant[i]]] OBVIOUS
  <2> QED BY <1>1, <2>1
<1>4. Joined(Arranged(meant)) BY <1>1, <1>2, <1>3 DEF Joined
<1>5. \A i \in places : Arranged(meant)[i] = tiers[meant[i]] OBVIOUS
<1>6. /\ \A i, j \in places : i < j => tiers[meant[i]].lower < tiers[meant[j]].lower
      /\ \A i \in places : tiers[meant[i]].lower \in Nat
  <2> HIDE DEF Arranged
  <2>1. /\ \A i \in places : Arranged(meant)[i].lower \in Nat
        /\ \A i, j \in places : i < j => Arranged(meant)[i].lower < Arranged(meant)[j].lower
    BY <1>3, <1>4, BoundsRise
  <2> QED BY <1>5, <2>1
<1>7. Sorted(tiers) = Arranged(order) BY <1>1 DEF Sorted
<1> HIDE DEF Arranged
<1>8. order \in [places -> places] /\ Rises(order)
  <2>1. Rises(meant) BY <1>6
  <2> HIDE DEF Rises
  <2> QED BY <1>2, <2>1
<1> HIDE DEF order
<1> DEFINE g == [i \in places |-> CHOOSE j \in places : meant[j] = order[i]]
<1>9. ASSUME NEW i \in places PROVE g[i] \in places /\ meant[g[i]] = order[i]
  <2>1. \E j \in places : meant[j] = order[i] BY <1>2, <1>8
  <2> QED BY <2>1
<1>10. g \in [places -> places] BY <1>9
<1> HIDE DEF g
<1>11. ASSUME NEW i \in places, NEW j \in places, i < j PROVE g[i] < g[j]
  <2>1. g[i] \in places /\ g[j] \in places /\ g[i] \in Int /\ g[j] \in Int BY <1>1, <1>9
  <2>2. \/ tiers[meant[g[i]]].lower < tiers[meant[g[j]]].lower
        \/ tiers[meant[g[i]]].lower = tiers[meant[g[j]]].lower /\ order[i] < order[j]
    BY <1>8, <1>9, <1>11
  <2>3. tiers[meant[g[i]]].lower \in Nat /\ tiers[meant[g[j]]].lower \in Nat BY <1>6, <2>1
  <2>4. ~ (g[j] < g[i])
    <3> SUFFICES ASSUME g[j] < g[i] PROVE FALSE OBVIOUS
    <3>1. tiers[meant[g[j]]].lower < tiers[meant[g[i]]].lower BY <1>6, <2>1
    <3> QED BY <2>2, <2>3, <3>1
  <2>5. g[i] # g[j]
    <3> SUFFICES ASSUME g[i] = g[j] PROVE FALSE OBVIOUS
    <3>1. order[i] = order[j] BY <1>9
    <3>2. order[i] \in places /\ ~ (order[i] < order[j]) BY <1>1, <1>8, <3>1
    <3> QED BY <2>2, <2>3, <3>2
  <2> QED BY <2>1, <2>4, <2>5
<1>12. \A i \in places : g[i] = i BY <1>1, <1>10, <1>11, RisingIsIdentity
<1>13. \A i \in places : order[i] = meant[i] BY <1>9, <1>12
<1>14. Arranged(order) = Arranged(meant) BY <1>13 DEF Arranged
<1>15. ASSUME NEW i \in places PROVE \E j \in places : Arranged(meant)[i] = tiers[j]
  BY <1>2, <1>5
<1>16. ASSUME NEW i \in places PROVE \E j \in places : tiers[i] = Arranged(meant)[j]
  <2>1. PICK j \in places : meant[j] = i BY <1>2
  <2> QED BY <1>5, <2>1
<1> QED BY <1>1, <1>3, <1>4, <1>7, <1>14, <1>15, <1>16

\* What of a base falls inside a tier.
LEMMA PortionIs ==
  ASSUME NEW s, Joined(s), NEW base \in Nat, NEW n \in 1 .. Len(s)
  PROVE  /\ base <= s[n].lower => Portion(s[n], base) = 0
         /\ s[n].lower <= base => /\ s[n].upper = Uncapped => Portion(s[n], base) = base - s[n].lower
                                  /\ s[n].upper \in Nat => 
                                       Portion(s[n], base) =
                                         (IF s[n].upper < base THEN s[n].upper ELSE base) - s[n].lower
         /\ Portion(s[n], base) \in Nat /\ Added(s, base, n) \in Nat
<1>1. /\ s[n].lower \in Nat /\ s[n].rate \in Nat
      /\ \/ s[n].upper \in Nat /\ s[n].lower < s[n].upper
         \/ s[n].upper = Uncapped
  BY BoundsRise
<1>2. Uncapped \notin Int BY BracketsAssumption
<1>3. /\ base <= s[n].lower => Portion(s[n], base) = 0
      /\ s[n].lower <= base => /\ s[n].upper = Uncapped => Portion(s[n], base) = base - s[n].lower
                               /\ s[n].upper \in Nat => 
                                    Portion(s[n], base) =
                                      (IF s[n].upper < base THEN s[n].upper ELSE base) - s[n].lower
  BY <1>1, <1>2 DEF Portion
<1>4. Portion(s[n], base) \in Nat
  <2>1. CASE base <= s[n].lower BY <1>3, <2>1
  <2>2. CASE s[n].lower <= base /\ s[n].upper = Uncapped BY <1>1, <1>3, <2>2
  <2>3. CASE s[n].lower <= base /\ s[n].upper \in Nat /\ s[n].lower < s[n].upper
    BY <1>1, <1>3, <2>3
  <2> QED BY <1>1, <2>1, <2>2, <2>3
<1>5. Portion(s[n], base) * s[n].rate \in Nat BY <1>1, <1>4
<1> QED BY <1>3, <1>4, <1>5 DEF Added

\* The tax is the last of its running totals.
LEMMA MarginalIs ==
  ASSUME NEW s, Joined(s), NEW base \in Nat
  PROVE  \E f : /\ f \in [0 .. Len(s) -> Nat] /\ Running(f, s, base)
                /\ Marginal(s, base) = f[Len(s)]
<1> DEFINE values == [n \in 1 .. Len(s) |-> Added(s, base, n)]
           Rule(f) == f = [n \in 0 .. Len(s) |->
                             IF n = 0 THEN 0 ELSE f[n - 1] + Portion(s[n], base) * s[n].rate]
           total == CHOOSE f : Rule(f)
<1>1. Len(s) \in Nat BY DEF Joined
<1>2. \A n \in 1 .. Len(s) : Added(s, base, n) \in Nat BY PortionIs
<1>3. values \in Seq(Int) /\ Len(values) = Len(s) BY <1>1, <1>2
<1>4. \E f : Rule(f)
  <2>1. PICK f : SumRule(f, values)
    <3> HIDE DEF values
    <3> QED BY <1>3, SumsExist
  <2>2. f = [n \in 0 .. Len(s) |-> IF n = 0 THEN 0 ELSE f[n - 1] + values[n]]
    BY <1>3, <2>1 DEF SumRule
  <2>3. \A n \in 0 .. Len(s) : n # 0 => values[n] = Portion(s[n], base) * s[n].rate
    BY <1>1 DEF Added
  <2> HIDE DEF values
  <2>4. Rule(f) BY <2>2, <2>3
  <2> QED BY <2>4
<1>5. Marginal(s, base) = total[Len(s)] BY Zenon DEF Marginal
<1>6. Rule(total) BY <1>4, Zenon
<1> HIDE DEF total
<1>7. Running(total, s, base)
  <2>1. total[0] = 0 BY <1>1, <1>6
  <2>2. \A n \in 1 .. Len(s) : n \in 0 .. Len(s) /\ n # 0 BY <1>1
  <2>3. \A n \in 1 .. Len(s) : total[n] = total[n - 1] + Portion(s[n], base) * s[n].rate
    BY <1>6, <2>2
  <2> QED BY <2>1, <2>3 DEF Running, Added
<1>8. total \in [0 .. Len(s) -> Nat]
  <2> DEFINE T == {n \in Nat : n <= Len(s) => total[n] \in Nat}
  <2>1. 0 \in T BY <1>7 DEF Running
  <2>2. ASSUME NEW n \in T PROVE n + 1 \in T
    <3> SUFFICES ASSUME n + 1 <= Len(s) PROVE total[n + 1] \in Nat OBVIOUS
    <3>1. n + 1 \in 1 .. Len(s) /\ (n + 1) - 1 = n /\ total[n] \in Nat BY <1>1
    <3>2. total[n + 1] = total[n] + Added(s, base, n + 1) BY <1>7, <3>1 DEF Running
    <3> QED BY <1>2, <3>1, <3>2
  <2>3. T = Nat BY <2>1, <2>2, AllNumbers
  <2>4. \A n \in 0 .. Len(s) : total[n] \in Nat BY <1>1, <2>3
  <2>5. total = [n \in 0 .. Len(s) |-> total[n]] BY <1>6
  <2> HIDE DEF T
  <2> QED BY <2>4, <2>5
<1> QED BY <1>5, <1>7, <1>8

\* Bases that owe the same in every tier owe the same tax.
LEMMA SameTax ==
  ASSUME NEW s, Joined(s), NEW a \in Nat, NEW b \in Nat,
         \A n \in 1 .. Len(s) : Portion(s[n], a) = Portion(s[n], b)
  PROVE  Marginal(s, a) = Marginal(s, b)
<1>1. Len(s) \in Nat BY DEF Joined
<1>2. PICK f \in [0 .. Len(s) -> Nat] : Running(f, s, a) /\ Marginal(s, a) = f[Len(s)]
  BY MarginalIs
<1>3. PICK g \in [0 .. Len(s) -> Nat] : Running(g, s, b) /\ Marginal(s, b) = g[Len(s)]
  BY MarginalIs
<1> DEFINE T == {n \in Nat : n <= Len(s) => f[n] = g[n]}
<1>4. 0 \in T BY <1>2, <1>3 DEF Running
<1>5. ASSUME NEW n \in T PROVE n + 1 \in T
  <2> SUFFICES ASSUME n + 1 <= Len(s) PROVE f[n + 1] = g[n + 1] OBVIOUS
  <2>1. n + 1 \in 1 .. Len(s) /\ (n + 1) - 1 = n /\ f[n] = g[n] BY <1>1
  <2>2. f[n + 1] = f[n] + Added(s, a, n + 1) /\ g[n + 1] = g[n] + Added(s, b, n + 1)
    BY <1>2, <1>3, <2>1 DEF Running
  <2>3. Added(s, a, n + 1) = Added(s, b, n + 1) BY <2>1 DEF Added
  <2> QED BY <2>1, <2>2, <2>3
<1>6. T = Nat BY <1>4, <1>5, AllNumbers
<1> QED BY <1>1, <1>2, <1>3, <1>6

\* Nothing is owed on nothing.
LEMMA NoBaseNoTax == ASSUME NEW s, Joined(s) PROVE Marginal(s, 0) = 0
<1>1. Len(s) \in Nat BY DEF Joined
<1>2. PICK f \in [0 .. Len(s) -> Nat] : Running(f, s, 0) /\ Marginal(s, 0) = f[Len(s)]
  BY MarginalIs
<1> DEFINE T == {n \in Nat : n <= Len(s) => f[n] = 0}
<1>3. 0 \in T BY <1>2 DEF Running
<1>4. ASSUME NEW n \in T PROVE n + 1 \in T
  <2> SUFFICES ASSUME n + 1 <= Len(s) PROVE f[n + 1] = 0 OBVIOUS
  <2>1. n + 1 \in 1 .. Len(s) /\ (n + 1) - 1 = n /\ f[n] = 0 BY <1>1
  <2>2. f[n + 1] = f[n] + Added(s, 0, n + 1) BY <1>2, <2>1 DEF Running
  <2>3. s[n + 1].rate \in Nat /\ 0 <= s[n + 1].lower BY <2>1, BoundsRise
  <2>4. Portion(s[n + 1], 0) = 0 BY <2>1, <2>3, PortionIs
  <2>5. Added(s, 0, n + 1) = 0 BY <2>3, <2>4 DEF Added
  <2> QED BY <2>1, <2>2, <2>5
<1>5. T = Nat BY <1>3, <1>4, AllNumbers
<1> QED BY <1>1, <1>2, <1>5

LEMMA Spreads ==
  ASSUME NEW a \in Int, NEW b \in Int, NEW c \in Int
  PROVE  (a - b) * c = a * c - b * c /\ a * (b - c) = a * b - a * c
OBVIOUS

\* Up to a tier that covers the base, the tax of the base is what the tier's
\* shortcut says: its rate on all of the base, less its deduction.
LEMMA TaxIsQuick ==
  ASSUME NEW s, Joined(s), NEW base \in Nat, NEW k \in 1 .. Len(s), Covers(s[k], base)
  PROVE  Marginal(s, base) = base * s[k].rate - s[k].deduction
<1> DEFINE End(n) == IF n = k THEN base ELSE s[n].upper
<1>1. Len(s) \in Nat /\ k \in Nat /\ k >= 1 /\ k <= Len(s) BY DEF Joined
<1>2. PICK f \in [0 .. Len(s) -> Nat] : Running(f, s, base) /\ Marginal(s, base) = f[Len(s)]
  BY MarginalIs
<1>3. ASSUME NEW n \in 1 .. k
      PROVE  /\ End(n) \in Nat /\ s[n].lower \in Nat /\ s[n].rate \in Nat /\ s[n].deduction \in Int
             /\ Portion(s[n], base) = End(n) - s[n].lower
  <2>1. n \in 1 .. Len(s) BY <1>1
  <2>2. s[n].lower \in Nat /\ s[n].rate \in Nat /\ s[n].deduction \in Int BY <2>1, BoundsRise
  <2>3. CASE n = k
    <3>1. s[k].lower <= base /\ (s[k].upper = Uncapped \/ base <= s[k].upper) BY DEF Covers
    <3>2. s[k].upper \in Nat \/ s[k].upper = Uncapped BY BoundsRise
    <3>3. ASSUME s[k].upper = Uncapped PROVE Portion(s[k], base) = base - s[k].lower
      BY <3>1, <3>3, PortionIs
    <3>4. ASSUME s[k].upper \in Nat PROVE Portion(s[k], base) = base - s[k].lower
      <4>1. base <= s[k].upper BY <3>1, <3>4, BracketsAssumption
      <4>2. Portion(s[k], base) = (IF s[k].upper < base THEN s[k].upper ELSE base) - s[k].lower
        BY <3>1, <3>4, PortionIs
      <4>3. ~ (s[k].upper < base) BY <3>4, <4>1
      <4> QED BY <4>2, <4>3
    <3>5. Portion(s[n], base) = base - s[n].lower BY <2>3, <3>2, <3>3, <3>4
    <3> QED BY <2>2, <2>3, <3>5
  <2>4. CASE n # k
    <3>1. n < k BY <1>1, <2>4
    <3>2. s[n].upper \in Nat /\ s[n].upper <= s[k].lower /\ s[n].lower < s[k].lower
      BY <2>1, <3>1, BoundsRise
    <3>3. s[k].lower <= base /\ s[k].lower \in Nat BY BoundsRise DEF Covers
    <3>4. s[n].lower <= base /\ s[n].upper <= base BY <2>2, <3>2, <3>3
    <3>5. Portion(s[n], base) = (IF s[n].upper < base THEN s[n].upper ELSE base) - s[n].lower
      BY <2>1, <3>2, <3>4, PortionIs
    <3>6. (IF s[n].upper < base THEN s[n].upper ELSE base) = s[n].upper BY <3>2, <3>4
    <3> QED BY <2>2, <2>4, <3>2, <3>5, <3>6
  <2> QED BY <2>3, <2>4
<1> DEFINE Quick(n) == f[n] = End(n) * s[n].rate - s[n].deduction
           T == {m \in Nat : m + 1 <= k => Quick(m + 1)}
<1>4. 0 \in T
  <2>1. 1 \in 1 .. k /\ 1 \in 1 .. Len(s) BY <1>1
  <2>2. f[1] = f[1 - 1] + Added(s, base, 1) /\ f[0] = 0 BY <1>2, <2>1 DEF Running
  <2>3. f[1] = Added(s, base, 1)
    <3>1. Added(s, base, 1) \in Nat BY <2>1, PortionIs
    <3> QED BY <2>2, <3>1
  <2>4. s[1].deduction = s[1].lower * s[1].rate BY DEF Joined, MeetEndToEnd
  <2> HIDE DEF End
  <2>5. f[1] = (End(1) - s[1].lower) * s[1].rate BY <1>3, <2>1, <2>3 DEF Added
  <2>6. (End(1) - s[1].lower) * s[1].rate = End(1) * s[1].rate - s[1].lower * s[1].rate
    BY <1>3, <2>1
  <2>7. Quick(1) BY <2>4, <2>5, <2>6
  <2> QED BY <2>7
<1>5. ASSUME NEW m \in T PROVE m + 1 \in T
  <2> SUFFICES ASSUME (m + 1) + 1 <= k PROVE Quick((m + 1) + 1) OBVIOUS
  <2> DEFINE n == m + 1
             q == n + 1
  <2>1. /\ n \in 1 .. k /\ q \in 1 .. k /\ q \in 1 .. Len(s) /\ q - 1 = n /\ n # k /\ Quick(n)
        /\ q \in (1 .. Len(s)) \ {1}
    BY <1>1
  <2>2. f[q] = f[q - 1] + Added(s, base, q) BY <1>2, <2>1 DEF Running
  <2>3. f[q] = f[n] + Added(s, base, q) BY <2>1, <2>2
  <2>4. End(n) = s[n].upper BY <2>1
  <2>5. /\ s[q - 1].upper = s[q].lower
        /\ s[q].deduction = s[q - 1].deduction + s[q].lower * (s[q].rate - s[q - 1].rate)
    BY <2>1 DEF Joined, MeetEndToEnd
  <2>6. /\ s[n].upper = s[q].lower
        /\ s[q].deduction = s[n].deduction + s[q].lower * (s[q].rate - s[n].rate)
    BY <2>1, <2>5
  <2> HIDE DEF End
  <2>7. Added(s, base, q) = (End(q) - s[q].lower) * s[q].rate BY <1>3, <2>1 DEF Added
  <2>8. /\ End(n) \in Nat /\ s[n].rate \in Nat /\ s[n].deduction \in Int
        /\ End(q) \in Nat /\ s[q].rate \in Nat /\ s[q].deduction \in Int /\ s[q].lower \in Nat
    BY <1>3, <2>1
  <2> HIDE DEF n, q
  <2>9. (End(q) - s[q].lower) * s[q].rate = End(q) * s[q].rate - s[q].lower * s[q].rate
    <3> DEFINE e == End(q)
               l == s[q].lower
               r == s[q].rate
    <3>1. e \in Int /\ l \in Int /\ r \in Int BY <2>8
    <3> HIDE DEF e, l, r
    <3>2. (e - l) * r = e * r - l * r BY <3>1, Spreads
    <3> QED BY <3>2 DEF e, l, r
  <2>10. s[q].lower * (s[q].rate - s[n].rate) = s[q].lower * s[q].rate - s[q].lower * s[n].rate
    <3> DEFINE l == s[q].lower
               r == s[q].rate
               before == s[n].rate
    <3>1. l \in Int /\ r \in Int /\ before \in Int BY <2>8
    <3> HIDE DEF l, r, before
    <3>2. l * (r - before) = l * r - l * before BY <3>1, Spreads
    <3> QED BY <3>2 DEF l, r, before
  <2>11. f[n] = s[q].lower * s[n].rate - s[n].deduction BY <2>1, <2>4, <2>6
  <2>12. /\ End(q) * s[q].rate \in Int /\ s[q].lower * s[q].rate \in Int /\ s[q].lower * s[n].rate \in Int
    <3> DEFINE e == End(q)
               l == s[q].lower
               r == s[q].rate
               before == s[n].rate
    <3>1. e \in Int /\ l \in Int /\ r \in Int /\ before \in Int BY <2>8
    <3> HIDE DEF e, l, r, before
    <3>2. e * r \in Int /\ l * r \in Int /\ l * before \in Int BY <3>1
    <3> QED BY <3>2 DEF e, l, r, before
  <2>13. f[q] = (s[q].lower * s[n].rate - s[n].deduction) + (End(q) * s[q].rate - s[q].lower * s[q].rate)
    BY <2>3, <2>7, <2>9, <2>11
  <2>14. s[q].deduction = s[n].deduction + (s[q].lower * s[q].rate - s[q].lower * s[n].rate)
    BY <2>6, <2>10
  <2>15. f[q] = End(q) * s[q].rate - s[q].deduction
    <3> DEFINE x == End(q) * s[q].rate
               y == s[q].lower * s[q].rate
               z == s[q].lower * s[n].rate
               c == s[n].deduction
               d == s[q].deduction
               v == f[q]
    <3>1. x \in Int /\ y \in Int /\ z \in Int /\ c \in Int /\ d \in Int BY <2>8, <2>12
    <3>2. v = (z - c) + (x - y) /\ d = c + (y - z) BY <2>13, <2>14
    <3> HIDE DEF x, y, z, c, d, v
    <3>3. v = x - d BY <3>1, <3>2
    <3> QED BY <3>3 DEF x, d, v
  <2> QED BY <2>15 DEF n, q
<1>6. T = Nat
  <2> HIDE DEF T
  <2>1. T \in SUBSET Nat BY DEF T
  <2> QED BY <1>4, <1>5, <2>1, AllNumbers
<1>7. Quick(k)
  <2>1. k - 1 \in Nat /\ (k - 1) + 1 = k /\ (k - 1) + 1 <= k BY <1>1
  <2>2. k - 1 \in T BY <1>6, <2>1
  <2>3. Quick((k - 1) + 1)
    <3> HIDE DEF Quick
    <3> QED BY <2>1, <2>2
  <2> HIDE DEF T
  <2> QED BY <2>1, <2>3
<1>8. f[k] = base * s[k].rate - s[k].deduction BY <1>7
<1> DEFINE U == {m \in Nat : m >= k /\ m <= Len(s) => f[m] = f[k]}
<1>9. 0 \in U BY <1>1
<1>10. ASSUME NEW m \in U PROVE m + 1 \in U
  <2> SUFFICES ASSUME m + 1 >= k, m + 1 <= Len(s) PROVE f[m + 1] = f[k] OBVIOUS
  <2>1. CASE m + 1 = k BY <2>1
  <2>2. CASE m + 1 # k
    <3>1. m >= k /\ m + 1 \in 1 .. Len(s) /\ k < m + 1 /\ (m + 1) - 1 = m /\ m \in 0 .. Len(s)
      BY <1>1, <2>2
    <3>2. f[m] = f[k] BY <1>1, <3>1
    <3>3. s[k].upper \in Nat /\ s[k].upper <= s[m + 1].lower /\ s[m + 1].lower \in Nat
      BY <3>1, BoundsRise
    <3>4. base <= s[k].upper BY <3>3, BracketsAssumption DEF Covers
    <3>5. base <= s[m + 1].lower BY <3>3, <3>4
    <3>6. Portion(s[m + 1], base) = 0 /\ s[m + 1].rate \in Nat BY <3>1, <3>5, PortionIs, BoundsRise
    <3>7. Added(s, base, m + 1) = 0 BY <3>6 DEF Added
    <3>8. f[m + 1] = f[m] + Added(s, base, m + 1) BY <1>2, <3>1 DEF Running
    <3>9. f[m] \in Nat BY <3>1
    <3> QED BY <3>2, <3>7, <3>8, <3>9
  <2> QED BY <2>1, <2>2
<1>11. U = Nat
  <2> HIDE DEF U
  <2>1. U \in SUBSET Nat BY DEF U
  <2> QED BY <1>9, <1>10, <2>1, AllNumbers
<1>12. f[Len(s)] = f[k] BY <1>1, <1>11
<1> QED BY <1>2, <1>8, <1>12

\* A base between the table's ends falls in some tier.
LEMMA SomeTierCovers ==
  ASSUME NEW s, Joined(s), NEW base \in Nat, s[1].lower <= base,
         s[Len(s)].upper = Uncapped \/ base <= s[Len(s)].upper
  PROVE  \E k \in 1 .. Len(s) : Covers(s[k], base)
<1> DEFINE Reaching == {i \in 1 .. Len(s) : s[i].upper = Uncapped \/ base <= s[i].upper}
<1>1. Len(s) \in Nat /\ Len(s) \in 1 .. Len(s) BY DEF Joined
<1>2. Reaching \in SUBSET Nat /\ Reaching # {} BY <1>1
<1>3. \A i \in 1 .. Len(s) : i \in Reaching <=> s[i].upper = Uncapped \/ base <= s[i].upper
  OBVIOUS
<1> HIDE DEF Reaching
<1>4. PICK k \in Reaching : \A j \in Reaching : k <= j BY <1>2, LeastOne
<1>5. k \in 1 .. Len(s) BY <1>4 DEF Reaching
<1>6. s[k].lower <= base
  <2>1. CASE k = 1 BY <2>1
  <2>2. CASE k # 1
    <3>1. k - 1 \in 1 .. Len(s) /\ k \in (1 .. Len(s)) \ {1} /\ ~ (k <= k - 1) BY <1>1, <1>5, <2>2
    <3>2. k - 1 \notin Reaching BY <1>4, <3>1
    <3>3. s[k - 1].upper # Uncapped /\ ~ (base <= s[k - 1].upper) BY <1>3, <3>1, <3>2
    <3>4. s[k - 1].upper \in Nat BY <3>1, <3>3, BoundsRise
    <3>5. s[k - 1].upper = s[k].lower BY <3>1 DEF Joined, MeetEndToEnd
    <3> QED BY <3>3, <3>4, <3>5
  <2> QED BY <2>1, <2>2
<1> QED BY <1>3, <1>4, <1>5, <1>6 DEF Covers

\* The first covering tier decides, and all of them would decide the same.
LEMMA QuickIsTheTax ==
  ASSUME NEW s, Joined(s), NEW base \in Nat, \E k \in 1 .. Len(s) : Covers(s[k], base)
  PROVE  QuickDeduction(s, base) = Marginal(s, base)
<1> DEFINE containing == {i \in DOMAIN s : Covers(s[i], base)}
           first == CHOOSE i \in containing : \A j \in containing : i <= j
<1>1. Len(s) \in Nat /\ DOMAIN s = 1 .. Len(s) BY DEF Joined
<1>2. containing # {} /\ containing \in SUBSET Nat BY <1>1
<1>3. QuickDeduction(s, base) = base * s[first].rate - s[first].deduction
  BY <1>2, Zenon DEF QuickDeduction
<1>4. first \in containing
  <2> HIDE DEF containing
  <2>1. \E i \in containing : \A j \in containing : i <= j BY <1>2, LeastOne
  <2> QED BY <2>1, Zenon
<1> HIDE DEF first
<1>5. first \in 1 .. Len(s) /\ Covers(s[first], base) BY <1>1, <1>4
<1> QED BY <1>3, <1>5, TaxIsQuick

\* Beyond a capped table no tier covers the base, and the tax is that of the
\* cap.
LEMMA BeyondTheTop ==
  ASSUME NEW s, Joined(s), NEW base \in Nat,
         s[Len(s)].upper # Uncapped, ~ (base <= s[Len(s)].upper)
  PROVE  /\ QuickDeduction(s, base) = NoTier
         /\ s[Len(s)].upper \in Nat
         /\ Marginal(s, base) = Marginal(s, s[Len(s)].upper)
<1> DEFINE top == s[Len(s)].upper
<1>1. Len(s) \in Nat /\ DOMAIN s = 1 .. Len(s) /\ Len(s) \in 1 .. Len(s) BY DEF Joined
<1>2. top \in Nat /\ top < base BY <1>1, BoundsRise
<1>3. ASSUME NEW i \in 1 .. Len(s)
      PROVE  s[i].upper \in Nat /\ s[i].upper <= top /\ s[i].lower \in Nat /\ s[i].lower < s[i].upper
  <2>1. CASE i = Len(s) BY <1>2, <2>1, BoundsRise
  <2>2. CASE i # Len(s)
    <3>0. Len(s) \in Nat BY <1>1
    <3>1. i < Len(s)
      <4> DEFINE n == Len(s)
      <4>1. n \in Nat /\ i \in 1 .. n /\ i # n BY <2>2, <3>0
      <4> HIDE DEF n
      <4>2. i < n BY <4>1
      <4> QED BY <4>2 DEF n
    <3>2. s[i].upper \in Nat /\ s[i].upper <= s[Len(s)].lower BY <1>1, <3>1, BoundsRise
    <3>3. s[Len(s)].lower \in Nat /\ s[Len(s)].lower < top BY <1>1, <1>2, BoundsRise
    <3>4. s[i].lower \in Nat /\ s[i].lower < s[i].upper BY <2>2, BoundsRise
    <3> QED BY <1>2, <3>2, <3>3, <3>4
  <2> QED BY <2>1, <2>2
<1>4. QuickDeduction(s, base) = NoTier
  <2>1. ASSUME NEW i \in 1 .. Len(s) PROVE ~ Covers(s[i], base)
    <3>1. s[i].upper # Uncapped BY <1>3, BracketsAssumption
    <3>2. ~ (base <= s[i].upper) BY <1>2, <1>3
    <3> QED BY <3>1, <3>2 DEF Covers
  <2>2. {i \in DOMAIN s : Covers(s[i], base)} = {} BY <1>1, <2>1
  <2> QED BY <2>2, Zenon DEF QuickDeduction
<1>5. ASSUME NEW i \in 1 .. Len(s) PROVE Portion(s[i], base) = Portion(s[i], top)
  <2> HIDE DEF top
  <2>1. s[i].lower <= base /\ s[i].lower <= top /\ s[i].upper < base BY <1>2, <1>3
  <2>2. Portion(s[i], base) = s[i].upper - s[i].lower BY <1>3, <2>1, PortionIs
  <2>3. Portion(s[i], top) = (IF s[i].upper < top THEN s[i].upper ELSE top) - s[i].lower
    BY <1>2, <1>3, <2>1, PortionIs
  <2>4. (IF s[i].upper < top THEN s[i].upper ELSE top) = s[i].upper BY <1>2, <1>3
  <2> QED BY <2>2, <2>3, <2>4
<1>6. Marginal(s, base) = Marginal(s, top)
  <2> HIDE DEF top
  <2> QED BY <1>2, <1>5, SameTax
<1> QED BY <1>2, <1>4, <1>6

\* How far a base reaches into the first n tiers.
Cut(s, base, n) ==
  IF n = 0 \/ base <= s[1].lower THEN s[1].lower
  ELSE IF s[n].upper # Uncapped /\ s[n].upper < base THEN s[n].upper ELSE base

\* A tier's portion is how much farther the base reaches with it.
LEMMA PortionIsACut ==
  ASSUME NEW s, Joined(s), NEW base \in Nat, NEW n \in 1 .. Len(s)
  PROVE  /\ Cut(s, base, n) \in Nat /\ Cut(s, base, n - 1) \in Nat
         /\ Portion(s[n], base) = Cut(s, base, n) - Cut(s, base, n - 1)
         /\ base <= s[1].lower => Cut(s, base, n) = s[1].lower
         /\ s[1].lower <= base => Cut(s, base, n) <= base
<1>1. Len(s) \in Nat /\ 1 \in 1 .. Len(s) /\ n \in Nat /\ n >= 1 /\ n <= Len(s)
  <2>1. Len(s) \in Nat \ {0} BY DEF Joined
  <2> QED BY <2>1
<1>2. /\ s[1].lower \in Nat /\ s[n].lower \in Nat
      /\ \/ s[n].upper \in Nat /\ s[n].lower < s[n].upper
         \/ s[n].upper = Uncapped
      /\ Uncapped \notin Int
  BY <1>1, BoundsRise, BracketsAssumption
<1>3. s[1].lower <= s[n].lower
  <2>1. CASE n = 1 BY <1>2, <2>1
  <2>2. CASE n # 1
    <3>1. 1 < n BY <1>1, <2>2
    <3>2. s[1].lower < s[n].lower BY <1>1, <3>1, BoundsRise
    <3> QED BY <1>2, <3>2
  <2> QED BY <2>1, <2>2
<1>4. /\ Cut(s, base, n) \in Nat
      /\ base <= s[1].lower => Cut(s, base, n) = s[1].lower
      /\ s[1].lower <= base => Cut(s, base, n) <= base
  <2>1. CASE base <= s[1].lower
    <3>1. Cut(s, base, n) = s[1].lower BY <2>1 DEF Cut
    <3> QED BY <1>2, <2>1, <3>1
  <2>2. CASE ~ (base <= s[1].lower)
    <3>1. Cut(s, base, n) = IF s[n].upper # Uncapped /\ s[n].upper < base THEN s[n].upper ELSE base
      BY <1>1, <2>2 DEF Cut
    <3>2. CASE s[n].upper = Uncapped
      <4>1. Cut(s, base, n) = base BY <3>1, <3>2
      <4> QED BY <2>2, <4>1
    <3>3. CASE s[n].upper \in Nat BY <1>2, <2>2, <3>1, <3>3
    <3> QED BY <1>2, <3>2, <3>3
  <2> QED BY <2>1, <2>2
<1>5. CASE n = 1
  <2>1. Cut(s, base, n - 1) = s[1].lower BY <1>5 DEF Cut
  <2>2. CASE base <= s[1].lower
    <3>1. Portion(s[n], base) = 0 BY <1>5, <2>2, PortionIs
    <3> QED BY <1>2, <1>4, <2>1, <2>2, <3>1
  <2>3. CASE ~ (base <= s[1].lower)
    <3>1. Cut(s, base, n) = IF s[n].upper # Uncapped /\ s[n].upper < base THEN s[n].upper ELSE base
      BY <1>1, <2>3 DEF Cut
    <3>2. s[n].lower <= base BY <1>2, <1>5, <2>3
    <3>3. Portion(s[n], base) = Cut(s, base, n) - s[n].lower
      <4>1. CASE s[n].upper = Uncapped
        <5>1. Cut(s, base, n) = base BY <3>1, <4>1
        <5>2. Portion(s[n], base) = base - s[n].lower BY <3>2, <4>1, PortionIs
        <5> QED BY <5>1, <5>2
      <4>2. CASE s[n].upper \in Nat
        <5>1. Cut(s, base, n) = IF s[n].upper < base THEN s[n].upper ELSE base BY <1>2, <3>1, <4>2
        <5>2. Portion(s[n], base) = (IF s[n].upper < base THEN s[n].upper ELSE base) - s[n].lower
          BY <3>2, <4>2, PortionIs
        <5> QED BY <5>1, <5>2
      <4> QED BY <1>2, <4>1, <4>2
    <3> QED BY <1>2, <1>4, <1>5, <2>1, <3>3
  <2> QED BY <2>2, <2>3
<1>6. CASE n # 1
  <2>1. n - 1 \in 1 .. Len(s) /\ n - 1 < n /\ n - 1 # 0 /\ n \in (1 .. Len(s)) \ {1} BY <1>1, <1>6
  <2>2. s[n - 1].upper = s[n].lower BY <2>1 DEF Joined, MeetEndToEnd
  <2>3. CASE base <= s[1].lower
    <3>1. base <= s[n].lower BY <1>2, <1>3, <2>3
    <3>2. Portion(s[n], base) = 0 BY <3>1, PortionIs
    <3>3. Cut(s, base, n - 1) = s[1].lower BY <2>3 DEF Cut
    <3> QED BY <1>2, <1>4, <2>3, <3>2, <3>3
  <2>4. CASE ~ (base <= s[1].lower) /\ base <= s[n].lower
    <3>1. Portion(s[n], base) = 0 BY <2>4, PortionIs
    <3>2. Cut(s, base, n - 1)
            = IF s[n].lower # Uncapped /\ s[n].lower < base THEN s[n].lower ELSE base
      BY <2>1, <2>2, <2>4 DEF Cut
    <3>3. Cut(s, base, n - 1) = base BY <1>2, <2>4, <3>2
    <3>4. Cut(s, base, n) = IF s[n].upper # Uncapped /\ s[n].upper < base THEN s[n].upper ELSE base
      BY <1>1, <2>4 DEF Cut
    <3>5. Cut(s, base, n) = base
      <4>1. CASE s[n].upper = Uncapped BY <3>4, <4>1
      <4>2. CASE s[n].upper \in Nat /\ s[n].lower < s[n].upper
        <5>1. ~ (s[n].upper < base) BY <1>2, <2>4, <4>2
        <5> QED BY <3>4, <5>1
      <4> QED BY <1>2, <4>1, <4>2
    <3> QED BY <1>4, <3>1, <3>3, <3>5
  <2>5. CASE ~ (base <= s[1].lower) /\ ~ (base <= s[n].lower)
    <3>1. Cut(s, base, n - 1)
            = IF s[n].lower # Uncapped /\ s[n].lower < base THEN s[n].lower ELSE base
      BY <2>1, <2>2, <2>5 DEF Cut
    <3>2. Cut(s, base, n - 1) = s[n].lower BY <1>2, <2>5, <3>1
    <3>3. Cut(s, base, n) = IF s[n].upper # Uncapped /\ s[n].upper < base THEN s[n].upper ELSE base
      BY <1>1, <2>5 DEF Cut
    <3>4. s[n].lower <= base BY <1>2, <2>5
    <3>5. Portion(s[n], base) = Cut(s, base, n) - s[n].lower
      <4>1. CASE s[n].upper = Uncapped
        <5>1. Cut(s, base, n) = base BY <3>3, <4>1
        <5>2. Portion(s[n], base) = base - s[n].lower BY <3>4, <4>1, PortionIs
        <5> QED BY <5>1, <5>2
      <4>2. CASE s[n].upper \in Nat
        <5>1. Cut(s, base, n) = IF s[n].upper < base THEN s[n].upper ELSE base BY <1>2, <3>3, <4>2
        <5>2. Portion(s[n], base) = (IF s[n].upper < base THEN s[n].upper ELSE base) - s[n].lower
          BY <3>4, <4>2, PortionIs
        <5> QED BY <5>1, <5>2
      <4> QED BY <1>2, <4>1, <4>2
    <3> QED BY <1>2, <1>4, <3>2, <3>5
  <2> QED BY <1>2, <2>3, <2>4, <2>5
<1> QED BY <1>5, <1>6

LEMMA LessOfLess ==
  ASSUME NEW r \in Nat, NEW top \in Nat, r <= top, NEW p \in Int, NEW q \in Int, p <= q
  PROVE  p * r <= q * r /\ (q - p) * r <= (q - p) * top
<1>1. q - p \in Nat /\ top - r \in Nat OBVIOUS
<1>2. (q - p) * r >= 0 /\ (q - p) * (top - r) >= 0 BY <1>1
<1>3. (q - p) * r = q * r - p * r /\ (q - p) * (top - r) = (q - p) * top - (q - p) * r
  BY <1>1, Spreads
<1>4. p * r \in Int /\ q * r \in Int /\ (q - p) * top \in Int /\ (q - p) * r \in Int OBVIOUS
<1> QED BY <1>2, <1>3, <1>4

\* A greater base reaches no less into any tier.
LEMMA PortionGrows ==
  ASSUME NEW s, Joined(s), NEW a \in Nat, NEW b \in Nat, a <= b, NEW n \in 1 .. Len(s)
  PROVE  Portion(s[n], a) <= Portion(s[n], b)
<1>1. /\ s[n].lower \in Nat /\ Portion(s[n], a) \in Nat /\ Portion(s[n], b) \in Nat
      /\ \/ s[n].upper \in Nat /\ s[n].lower < s[n].upper
         \/ s[n].upper = Uncapped
  BY BoundsRise, PortionIs
<1>2. CASE a <= s[n].lower
  <2>1. Portion(s[n], a) = 0 BY <1>2, PortionIs
  <2> QED BY <1>1, <2>1
<1>3. CASE s[n].lower <= a /\ s[n].upper = Uncapped
  <2>1. s[n].lower <= b BY <1>1, <1>3
  <2>2. Portion(s[n], a) = a - s[n].lower /\ Portion(s[n], b) = b - s[n].lower
    BY <1>3, <2>1, PortionIs
  <2> QED BY <1>1, <2>2
<1>4. CASE s[n].lower <= a /\ s[n].upper \in Nat
  <2>1. s[n].lower <= b BY <1>1, <1>4
  <2>2. /\ Portion(s[n], a) = (IF s[n].upper < a THEN s[n].upper ELSE a) - s[n].lower
        /\ Portion(s[n], b) = (IF s[n].upper < b THEN s[n].upper ELSE b) - s[n].lower
    BY <1>4, <2>1, PortionIs
  <2> QED BY <1>1, <1>4, <2>2
<1> QED BY <1>1, <1>2, <1>3, <1>4

\* The tax grows with the base, by no more than the highest rate on what was
\* added.
LEMMA GentleTax ==
  ASSUME NEW s, Joined(s), NEW a \in Nat, NEW b \in Nat, a <= b,
         NEW top \in Nat, \A n \in 1 .. Len(s) : s[n].rate <= top
  PROVE  /\ Marginal(s, a) \in Nat /\ Marginal(s, b) \in Nat
         /\ Marginal(s, a) <= Marginal(s, b)
         /\ Marginal(s, b) - Marginal(s, a) <= (b - a) * top
<1>1. Len(s) \in Nat /\ Len(s) \in 1 .. Len(s) /\ 1 \in 1 .. Len(s)
  <2>1. Len(s) \in Nat \ {0} BY DEF Joined
  <2> QED BY <2>1
<1>2. PICK f \in [0 .. Len(s) -> Nat] : Running(f, s, a) /\ Marginal(s, a) = f[Len(s)]
  BY MarginalIs
<1>3. PICK g \in [0 .. Len(s) -> Nat] : Running(g, s, b) /\ Marginal(s, b) = g[Len(s)]
  BY MarginalIs
<1>4. s[1].lower \in Nat BY <1>1, BoundsRise
<1> DEFINE Reach(n) == Cut(s, b, n) - Cut(s, a, n)
           Gentle(n) == f[n] <= g[n] /\ g[n] - f[n] <= Reach(n) * top
           T == {n \in Nat : n <= Len(s) => Gentle(n)}
<1>5. 0 \in T
  <2>1. Cut(s, b, 0) = s[1].lower /\ Cut(s, a, 0) = s[1].lower BY DEF Cut
  <2>2. Reach(0) = 0 BY <1>4, <2>1
  <2>3. f[0] = 0 /\ g[0] = 0 BY <1>2, <1>3 DEF Running
  <2>4. Reach(0) * top = 0 BY <2>2
  <2> HIDE DEF Reach
  <2> QED BY <2>3, <2>4
<1>6. ASSUME NEW n \in T PROVE n + 1 \in T
  <2> SUFFICES ASSUME n + 1 <= Len(s) PROVE Gentle(n + 1) OBVIOUS
  <2> DEFINE q == n + 1
             p == Portion(s[q], a)
             o == Portion(s[q], b)
             r == s[q].rate
             d == Reach(n)
             e == Reach(q)
  <2>1. q \in 1 .. Len(s) /\ q - 1 = n /\ n \in 0 .. Len(s) /\ Gentle(n) BY <1>1
  <2>2. f[q] = f[n] + p * r /\ g[q] = g[n] + o * r
    BY <1>2, <1>3, <2>1 DEF Running, Added
  <2>3. p \in Nat /\ o \in Nat /\ r \in Nat /\ r <= top /\ p <= o
    BY <2>1, PortionIs, BoundsRise, PortionGrows
  <2>4. /\ Cut(s, a, q) \in Nat /\ Cut(s, a, n) \in Nat /\ Cut(s, b, q) \in Nat /\ Cut(s, b, n) \in Nat
        /\ p = Cut(s, a, q) - Cut(s, a, n) /\ o = Cut(s, b, q) - Cut(s, b, n)
    <3> HIDE DEF q
    <3>1. /\ Cut(s, a, q) \in Nat /\ Cut(s, a, q - 1) \in Nat
          /\ p = Cut(s, a, q) - Cut(s, a, q - 1)
      BY <2>1, PortionIsACut
    <3>2. /\ Cut(s, b, q) \in Nat /\ Cut(s, b, q - 1) \in Nat
          /\ o = Cut(s, b, q) - Cut(s, b, q - 1)
      BY <2>1, PortionIsACut
    <3> QED BY <2>1, <3>1, <3>2
  <2>5. d \in Int /\ e \in Int /\ e = d + (o - p) BY <2>4
  <2>6. f[n] \in Nat /\ g[n] \in Nat BY <2>1
  <2>7. f[n] <= g[n] /\ g[n] - f[n] <= d * top BY <2>1
  <2> SUFFICES f[q] <= g[q] /\ g[q] - f[q] <= e * top OBVIOUS
  <2> HIDE DEF q, p, o, r, d, e, Reach
  <2>8. p * r <= o * r /\ (o - p) * r <= (o - p) * top
    <3>1. p \in Int /\ o \in Int BY <2>3
    <3>2. p * r <= o * r BY <2>3, <3>1, LessOfLess
    <3>3. (o - p) * r <= (o - p) * top BY <2>3, <3>1, LessOfLess
    <3> QED BY <3>2, <3>3
  <2>9. (o - p) * r = o * r - p * r BY <2>3, Spreads
  <2>10. e * top = d * top + (o - p) * top
    <3>1. (d + (o - p)) * top = d * top + (o - p) * top BY <2>3, <2>5, Distributes
    <3> QED BY <2>5, <3>1
  <2>11. p * r \in Int /\ o * r \in Int /\ d * top \in Int /\ (o - p) * top \in Int /\ e * top \in Int
    BY <2>3, <2>5
  <2> QED BY <2>2, <2>6, <2>7, <2>8, <2>9, <2>10, <2>11
<1>7. T = Nat
  <2> HIDE DEF T
  <2>1. T \in SUBSET Nat BY DEF T
  <2> QED BY <1>5, <1>6, <2>1, AllNumbers
<1>8. Gentle(Len(s)) BY <1>1, <1>7
<1>9. Reach(Len(s)) \in Int /\ Reach(Len(s)) <= b - a
  <2> DEFINE n == Len(s)
  <2>1. /\ Cut(s, a, n) \in Nat /\ (a <= s[1].lower => Cut(s, a, n) = s[1].lower)
        /\ (s[1].lower <= a => Cut(s, a, n) <= a)
    BY <1>1, PortionIsACut
  <2>2. /\ Cut(s, b, n) \in Nat /\ (b <= s[1].lower => Cut(s, b, n) = s[1].lower)
        /\ (s[1].lower <= b => Cut(s, b, n) <= b)
    BY <1>1, PortionIsACut
  <2>3. CASE a <= s[1].lower BY <1>4, <2>1, <2>2, <2>3
  <2>4. CASE s[1].lower < a
    <3>1. \/ Cut(s, a, n) = a
          \/ s[n].upper \in Nat /\ Cut(s, a, n) = s[n].upper /\ Cut(s, b, n) <= s[n].upper
      <4>1. n # 0 /\ ~ (a <= s[1].lower) /\ ~ (b <= s[1].lower) BY <1>1, <1>4, <2>4
      <4>2. /\ Cut(s, a, n) = IF s[n].upper # Uncapped /\ s[n].upper < a THEN s[n].upper ELSE a
            /\ Cut(s, b, n) = IF s[n].upper # Uncapped /\ s[n].upper < b THEN s[n].upper ELSE b
        BY <4>1 DEF Cut
      <4>3. s[n].upper \in Nat \/ s[n].upper = Uncapped BY <1>1, BoundsRise
      <4>4. CASE s[n].upper = Uncapped BY <4>2, <4>4
      <4>5. CASE s[n].upper \in Nat /\ s[n].upper # Uncapped BY <4>2, <4>5
      <4> QED BY <4>3, <4>4, <4>5
    <3> QED BY <1>4, <2>1, <2>2, <2>4, <3>1
  <2> QED BY <1>4, <2>3, <2>4
<1> DEFINE e == Reach(Len(s))
<1>10. e * top <= (b - a) * top
  <2>1. e \in Int /\ b - a \in Int /\ e <= b - a BY <1>9
  <2> HIDE DEF e
  <2> DEFINE c == b - a
  <2>2. c \in Int /\ e <= c BY <2>1
  <2> HIDE DEF c
  <2>3. e * top <= c * top BY <2>1, <2>2, LessOfLess
  <2> QED BY <2>3 DEF c
<1>11. e * top \in Int /\ (b - a) * top \in Int BY <1>9
<1>12. f[Len(s)] \in Nat /\ g[Len(s)] \in Nat BY <1>1
<1>13. f[Len(s)] <= g[Len(s)] /\ g[Len(s)] - f[Len(s)] <= e * top BY <1>8
<1> HIDE DEF e
<1> QED BY <1>2, <1>3, <1>10, <1>11, <1>12, <1>13

\* One of some tiers has the highest rate.
LEMMA HighestRate ==
  ASSUME NEW s, NEW n \in Nat \ {0}, \A i \in 1 .. n : s[i].rate \in Nat
  PROVE  \E i \in 1 .. n : \A j \in 1 .. n : s[j].rate <= s[i].rate
<1> DEFINE Top1(m) == \E i \in 1 .. m : \A j \in 1 .. m : s[j].rate <= s[i].rate
           T == {m \in Nat : m + 1 <= n => Top1(m + 1)}
<1>1. 0 \in T
  <2>1. 1 \in 1 .. 1 /\ \A j \in 1 .. 1 : j = 1 OBVIOUS
  <2>2. s[1].rate \in Nat OBVIOUS
  <2>3. Top1(1) BY <2>1, <2>2
  <2> QED BY <2>3
<1>2. ASSUME NEW m \in T PROVE m + 1 \in T
  <2> SUFFICES ASSUME (m + 1) + 1 <= n PROVE Top1((m + 1) + 1) OBVIOUS
  <2> DEFINE q == m + 1
  <2>1. q \in Nat /\ q >= 1 /\ q + 1 <= n /\ n \in Nat /\ Top1(q) OBVIOUS
  <2> HIDE DEF q
  <2>2. PICK i \in 1 .. q : \A j \in 1 .. q : s[j].rate <= s[i].rate BY <2>1
  <2>3. \A j \in 1 .. q + 1 : s[j].rate \in Nat /\ (j \in 1 .. q \/ j = q + 1) BY <2>1
  <2>4. i \in 1 .. q + 1 /\ q + 1 \in 1 .. q + 1 BY <2>1
  <2>5. CASE s[q + 1].rate <= s[i].rate
    <3>1. \A j \in 1 .. q + 1 : s[j].rate <= s[i].rate BY <2>2, <2>3, <2>5
    <3> QED BY <2>4, <3>1 DEF q
  <2>6. CASE ~ (s[q + 1].rate <= s[i].rate)
    <3>1. \A j \in 1 .. q + 1 : s[j].rate <= s[q + 1].rate
      <4> SUFFICES ASSUME NEW j \in 1 .. q + 1 PROVE s[j].rate <= s[q + 1].rate OBVIOUS
      <4>1. s[j].rate \in Nat /\ s[q + 1].rate \in Nat /\ s[i].rate \in Nat BY <2>3, <2>4
      <4>2. CASE j = q + 1 BY <4>1, <4>2
      <4>3. CASE j \in 1 .. q BY <2>2, <2>6, <4>1, <4>3
      <4> QED BY <2>3, <4>2, <4>3
    <3> QED BY <2>4, <3>1 DEF q
  <2> QED BY <2>5, <2>6
<1>3. T = Nat
  <2> HIDE DEF T
  <2>1. T \in SUBSET Nat BY DEF T
  <2> QED BY <1>1, <1>2, <2>1, AllNumbers
<1>4. n - 1 \in Nat /\ (n - 1) + 1 = n /\ n <= n OBVIOUS
<1>5. n - 1 \in T BY <1>3, <1>4
<1>6. Top1((n - 1) + 1)
  <2> HIDE DEF Top1
  <2> QED BY <1>4, <1>5
<1> QED BY <1>4, <1>6

-----------------------------------------------------------------------------
\* A table's tax, its highest rate and what crossing a bound does to it.
LEMMA TablesTax ==
  ASSUME NEW tiers \in Tables
  PROVE  /\ Joined(Sorted(tiers)) /\ Len(Sorted(tiers)) = Len(tiers)
         /\ EvalBracket(tiers, 0) = 0
         /\ \A base \in Nat : EvalBracket(tiers, base) \in Nat
<1> DEFINE s == Sorted(tiers)
<1>1. Joined(s) /\ Len(s) = Len(tiers) BY SortedIsJoined
<1> HIDE DEF s
<1>2. Marginal(s, 0) = 0 BY <1>1, NoBaseNoTax
<1>3. ASSUME NEW base \in Nat PROVE Marginal(s, base) \in Nat
  <2>1. PICK f \in [0 .. Len(s) -> Nat] : Marginal(s, base) = f[Len(s)] BY <1>1, MarginalIs
  <2>2. Len(s) \in 0 .. Len(s) BY <1>1 DEF Joined
  <2> QED BY <2>1, <2>2
<1> QED BY <1>1, <1>2, <1>3 DEF EvalBracket, s

LEMMA MonthStep == MonthInv /\ [MonthNext]_monthVars => MonthInv'
<1> SUFFICES ASSUME MonthInv, [MonthNext]_monthVars PROVE MonthInv' OBVIOUS
<1>1. ASSUME NEW tiers \in Tables, Load(tiers) PROVE MonthInv'
  <2>1. paid = 0 /\ withheld = 0 /\ paid' = 0 /\ withheld' = 0 /\ table' = tiers
    BY <1>1 DEF Load, MonthInv
  <2>2. EvalBracket(tiers, 0) = 0 /\ tiers # << >> BY <1>1, TablesTax DEF Load
  <2>3. MonthAddsUp' BY <2>1, <2>2 DEF MonthAddsUp
  <2> QED BY <2>1, <2>2, <2>3 DEF MonthInv
<1>2. ASSUME NEW amount \in Payments, Pay(amount) PROVE MonthInv'
  <2>1. /\ table \in Tables /\ table # << >> /\ table' = table /\ paid \in Nat
        /\ withheld = EvalBracket(table, paid) /\ paid' = paid + amount
        /\ withheld' = withheld + (EvalBracket(table, paid + amount) - EvalBracket(table, paid))
    BY <1>2 DEF Pay, MonthInv, MonthAddsUp, EvalBracketIncremental
  <2>2. paid + amount \in Nat BY <2>1, BracketsAssumption
  <2>3. EvalBracket(table, paid) \in Nat /\ EvalBracket(table, paid + amount) \in Nat
    BY <2>1, <2>2, TablesTax
  <2>4. withheld' = EvalBracket(table, paid + amount) BY <2>1, <2>3
  <2>5. MonthAddsUp' BY <2>1, <2>4 DEF MonthAddsUp
  <2> QED BY <2>1, <2>2, <2>5 DEF MonthInv
<1>3. CASE UNCHANGED monthVars
  BY <1>3 DEF monthVars, MonthInv, MonthAddsUp
<1> QED BY <1>1, <1>2, <1>3 DEF MonthNext

LEMMA MonthImplies == MonthInv => MonthIsOne
<1> SUFFICES ASSUME MonthInv, table # << >> PROVE MonthIsOne
  BY DEF MonthInv, MonthIsOne, MethodsAgree, MonthAddsUp, NoCliff
<1> DEFINE s == Sorted(table)
<1>1. table \in Tables /\ paid \in Nat /\ MonthAddsUp BY DEF MonthInv
<1>2. Joined(s) /\ Len(s) = Len(table) /\ DOMAIN table = 1 .. Len(table) BY <1>1, SortedIsJoined
<1>3. /\ \A i \in 1 .. Len(table) : \E j \in 1 .. Len(table) : s[i] = table[j]
      /\ \A i \in 1 .. Len(table) : \E j \in 1 .. Len(table) : table[i] = s[j]
  BY <1>1, SortedIsJoined
<1>4. FirstLower = s[1].lower /\ Top = s[Len(s)].upper BY <1>2 DEF FirstLower, Top
<1>5. \A base \in Nat : EvalBracket(table, base) = Marginal(s, base) BY DEF EvalBracket
<1>6. Len(s) \in Nat \ {0} /\ 1 \in 1 .. Len(s)
  <2> HIDE DEF s
  <2>1. Len(s) \in Nat \ {0} BY <1>2 DEF Joined
  <2> QED BY <2>1
<1>7. MethodsAgree
  <2> SUFFICES ASSUME NEW base \in FirstLower .. MaxBase
               PROVE  IF Top = Uncapped \/ base <= Top
                      THEN EvalBracket(table, base) = QuickDeduction(s, base)
                      ELSE /\ EvalBracket(table, base) = EvalBracket(table, Top)
                           /\ QuickDeduction(s, base) = NoTier
    BY DEF MethodsAgree
  <2> HIDE DEF s
  <2>1. s[1].lower \in Nat /\ MaxBase \in Nat BY <1>2, <1>6, BoundsRise, BracketsAssumption
  <2>2. base \in Nat /\ s[1].lower <= base BY <1>4, <2>1
  <2>3. CASE Top = Uncapped \/ base <= Top
    <3>1. s[Len(s)].upper = Uncapped \/ base <= s[Len(s)].upper BY <1>4, <2>3
    <3>2. \E k \in 1 .. Len(s) : Covers(s[k], base) BY <1>2, <2>2, <3>1, SomeTierCovers
    <3>3. QuickDeduction(s, base) = Marginal(s, base) BY <1>2, <2>2, <3>2, QuickIsTheTax
    <3> QED BY <1>5, <2>2, <2>3, <3>3
  <2>4. CASE ~ (Top = Uncapped \/ base <= Top)
    <3>1. s[Len(s)].upper # Uncapped /\ ~ (base <= s[Len(s)].upper) BY <1>4, <2>4
    <3>2. /\ QuickDeduction(s, base) = NoTier /\ s[Len(s)].upper \in Nat
          /\ Marginal(s, base) = Marginal(s, s[Len(s)].upper)
      BY <1>2, <2>2, <3>1, BeyondTheTop
    <3> QED BY <1>4, <1>5, <2>2, <2>4, <3>2
  <2> QED BY <2>3, <2>4
<1>8. NoCliff
  <2> SUFFICES ASSUME NEW amount \in Payments, paid + amount <= MaxBase
               PROVE  EvalBracketIncremental(table, paid, paid + amount) \in 0 .. amount * TopRate
    BY DEF NoCliff
  <2>1. amount \in Nat /\ paid + amount \in Nat /\ paid <= paid + amount BY <1>1, BracketsAssumption
  <2> DEFINE rates == {table[i].rate : i \in DOMAIN table}
             Tops(rate) == rate \in rates /\ \A i \in DOMAIN table : table[i].rate <= rate
  <2>2. \A i \in 1 .. Len(s) : s[i].rate \in Nat
    <3> HIDE DEF s
    <3> QED BY <1>2, BoundsRise
  <2>3. \A i \in 1 .. Len(table) : table[i].rate \in Nat BY <1>2, <1>3, <2>2
  <2>4. \E rate : Tops(rate)
    <3>1. PICK i \in 1 .. Len(table) : \A j \in 1 .. Len(table) : table[j].rate <= table[i].rate
      BY <1>2, <1>6, <2>3, HighestRate
    <3> QED BY <1>2, <3>1
  <2>5. TopRate \in rates /\ \A i \in DOMAIN table : table[i].rate <= TopRate
    <3> HIDE DEF rates
    <3>1. \E rate \in rates : \A i \in DOMAIN table : table[i].rate <= rate BY <2>4
    <3> QED BY <3>1, Zenon DEF TopRate, rates
  <2>6. TopRate \in Nat BY <1>2, <2>3, <2>5
  <2>7. \A n \in 1 .. Len(s) : s[n].rate <= TopRate BY <1>2, <1>3, <2>5
  <2> HIDE DEF s, rates
  <2> DEFINE after == paid + amount
             m == Marginal(s, paid)
             o == Marginal(s, after)
             most == (after - paid) * TopRate
  <2>8. after \in Nat /\ paid <= after BY <2>1
  <2>9. m \in Nat /\ o \in Nat /\ m <= o /\ o - m <= most
    <3> HIDE DEF after
    <3> QED BY <1>1, <1>2, <2>6, <2>7, <2>8, GentleTax
  <2>10. most = amount * TopRate /\ most \in Int
    <3>1. after - paid = amount BY <1>1, <2>1
    <3> QED BY <2>1, <2>6, <3>1
  <2>11. EvalBracketIncremental(table, paid, paid + amount) = o - m
    BY <1>1, <1>5, <2>1 DEF EvalBracketIncremental
  <2> HIDE DEF m, o, most
  <2>12. o - m \in 0 .. most BY <2>9, <2>10
  <2> QED BY <2>10, <2>11, <2>12
<1> QED BY <1>1, <1>7, <1>8 DEF MonthIsOne

\* A month's tax is the tax of its total, by either algorithm and however the
\* tiers are stored and the month is split, and grows with the total, gently
\* (bracket.go:25-43, 57-64).
THEOREM MonthsAddUp == MonthSpec => []MonthIsOne
<1>1. MonthInit => MonthInv BY DEF MonthInit, MonthInv, MonthAddsUp
<1> QED BY <1>1, MonthStep, MonthImplies, PTL DEF MonthSpec

-----------------------------------------------------------------------------
(* The walks over a snapshot.                                              *)

\* What any number of steps of next has come to.
Iterated(f, S, next, first, N) ==
  f \in [0 .. N -> S] /\ f[0] = first /\ \A k \in 1 .. N : f[k] = next[f[k - 1]]

LEMMA Iterates ==
  ASSUME NEW S, NEW next \in [S -> S], NEW first \in S, NEW N \in Nat
  PROVE  \E f : Iterated(f, S, next, first, N)
<1> DEFINE Is(f, n) == /\ f \in [0 .. n -> S] /\ f[0] = first
                       /\ \A k \in 1 .. n : f[k] = next[f[k - 1]]
           Has(n) == \E f : Is(f, n)
           T == {n \in Nat : Has(n)}
<1>1. Has(0)
  <2>1. Is([k \in 0 .. 0 |-> first], 0) OBVIOUS
  <2> QED BY <2>1
<1>2. ASSUME NEW n \in Nat, Has(n) PROVE Has(n + 1)
  <2>1. PICK f : Is(f, n) BY <1>2
  <2> DEFINE g == [k \in 0 .. n + 1 |-> IF k = n + 1 THEN next[f[n]] ELSE f[k]]
  <2>2. g[n + 1] = next[f[n]] /\ \A k \in 0 .. n : g[k] = f[k] OBVIOUS
  <2>3. f[n] \in S /\ next[f[n]] \in S BY <2>1
  <2>4. g \in [0 .. n + 1 -> S] BY <2>1, <2>3
  <2> HIDE DEF g
  <2>5. g[0] = first BY <2>1, <2>2
  <2>6. ASSUME NEW k \in 1 .. n + 1 PROVE g[k] = next[g[k - 1]]
    <3>1. CASE k = n + 1
      <4>1. k - 1 = n /\ n \in 0 .. n BY <3>1
      <4> QED BY <2>2, <3>1, <4>1
    <3>2. CASE k # n + 1
      <4>1. k \in 1 .. n /\ k \in 0 .. n /\ k - 1 \in 0 .. n BY <3>2
      <4> QED BY <2>1, <2>2, <4>1
    <3> QED BY <3>1, <3>2
  <2>7. Is(g, n + 1) BY <2>4, <2>5, <2>6
  <2> QED BY <2>7
<1> HIDE DEF Has
<1>3. 0 \in T /\ \A n \in T : n + 1 \in T BY <1>1, <1>2
<1>4. T = Nat BY <1>3, AllNumbers
<1>5. Has(N) BY <1>4
<1> QED BY <1>5 DEF Has, Iterated

\* One step of a walk up.
Up(n) == IF n \in Known THEN nodes[n].parent ELSE n

LEMMA SnapshotFacts ==
  ASSUME SnapshotInv
  PROVE  /\ Known \subseteq Ids /\ IsFiniteSet(Known) /\ Size \in Nat /\ Size = Cardinality(Known)
         /\ 0 \notin Ids /\ Ids \subseteq Nat /\ Up(0) = 0
         /\ \A n \in Ids \cup {0} : Up(n) \in Ids \cup {0}
         /\ \A n \in Known : nodes[n].parent \in Ids \cup {0} /\ Up(n) = nodes[n].parent
<1>1. Known \subseteq Ids /\ \A n \in Known : nodes[n].parent \in Ids \cup {0}
  BY DEF SnapshotInv, Node
<1>2. IsFiniteSet(Ids) /\ Ids \subseteq Nat \ {0} BY IdsAssumption
<1>3. IsFiniteSet(Known) BY <1>1, <1>2, FS_Subset
<1>4. Cardinality(Known) \in Nat BY <1>3, FS_CardinalityType
<1> QED BY <1>1, <1>2, <1>3, <1>4 DEF Up, Size

ChainRule(up, id) ==
  up = [k \in 0 .. Size + 1 |->
          IF k = 0 THEN id
          ELSE IF up[k - 1] \in Known THEN nodes[up[k - 1]].parent ELSE up[k - 1]]

\* Chain is defined, and climbs step by step (Path, Ancestors and validate).
LEMMA ChainClimbs ==
  ASSUME SnapshotInv, NEW id \in Ids \cup {0}
  PROVE  /\ Chain(id) \in [0 .. Size + 1 -> Ids \cup {0}] /\ Chain(id)[0] = id
         /\ \A k \in 0 .. Size : Chain(id)[k + 1] = Up(Chain(id)[k])
<1> DEFINE S == Ids \cup {0}
           next == [n \in S |-> Up(n)]
           N == Size + 1
           c == CHOOSE up : ChainRule(up, id)
<1>1. N \in Nat /\ Size \in Nat BY SnapshotFacts
<1>2. next \in [S -> S] BY SnapshotFacts
<1>3. \A n \in S : next[n] = Up(n) OBVIOUS
<1> HIDE DEF next, N
<1>4. PICK f : Iterated(f, S, next, id, N)
  <2> HIDE DEF S
  <2>1. id \in S BY DEF S
  <2> QED BY <1>1, <1>2, <2>1, Iterates
<1>5. f \in [0 .. N -> S] /\ f[0] = id /\ \A k \in 1 .. N : f[k] = next[f[k - 1]]
  BY <1>4 DEF Iterated
<1>6. ASSUME NEW k \in 0 .. N
      PROVE  f[k] = IF k = 0 THEN id ELSE IF f[k - 1] \in Known THEN nodes[f[k - 1]].parent ELSE f[k - 1]
  <2>1. CASE k = 0 BY <1>5, <2>1
  <2>2. CASE k # 0
    <3>1. k \in 1 .. N /\ k - 1 \in 0 .. N BY <1>1, <2>2
    <3>2. f[k] = next[f[k - 1]] /\ f[k - 1] \in S BY <1>5, <3>1
    <3>3. f[k] = Up(f[k - 1]) BY <1>3, <3>2
    <3> QED BY <2>2, <3>3 DEF Up
  <2> QED BY <2>1, <2>2
<1>7. f = [k \in 0 .. N |-> f[k]] BY <1>5
<1>8. f = [k \in 0 .. N |-> IF k = 0 THEN id
                            ELSE IF f[k - 1] \in Known THEN nodes[f[k - 1]].parent ELSE f[k - 1]]
  BY <1>6, <1>7
<1>9. ChainRule(f, id) BY <1>8, Zenon DEF ChainRule, N
<1>10. ChainRule(c, id) BY <1>9, Zenon
<1>11. Chain(id) = c BY Zenon DEF Chain, ChainRule
<1> HIDE DEF c
<1>12. c = [k \in 0 .. N |-> IF k = 0 THEN id
                             ELSE IF c[k - 1] \in Known THEN nodes[c[k - 1]].parent ELSE c[k - 1]]
  BY <1>10, Zenon DEF ChainRule, N
<1>13. \A k \in 0 .. N :
         c[k] = IF k = 0 THEN id ELSE IF c[k - 1] \in Known THEN nodes[c[k - 1]].parent ELSE c[k - 1]
  BY <1>12
<1>14. c[0] = id BY <1>1, <1>13
<1>15. ASSUME NEW k \in 0 .. Size PROVE c[k + 1] = Up(c[k])
  <2>1. k + 1 \in 0 .. N /\ k + 1 # 0 /\ (k + 1) - 1 = k BY <1>1 DEF N
  <2> QED BY <1>13, <2>1 DEF Up
<1> DEFINE T == {k \in Nat : k <= N => c[k] \in S}
<1>16. 0 \in T BY <1>14
<1>17. ASSUME NEW k \in T PROVE k + 1 \in T
  <2> SUFFICES ASSUME k + 1 <= N PROVE c[k + 1] \in S OBVIOUS
  <2>1. c[k] \in S /\ k \in 0 .. Size BY <1>1 DEF N
  <2> QED BY <1>15, <2>1, SnapshotFacts
<1>18. T = Nat
  <2> HIDE DEF T
  <2>1. T \in SUBSET Nat BY DEF T
  <2> QED BY <1>16, <1>17, <2>1, AllNumbers
<1>19. \A k \in 0 .. N : c[k] \in S BY <1>1, <1>18
<1>20. c \in [0 .. N -> S] BY <1>12, <1>19
<1> QED BY <1>11, <1>14, <1>15, <1>20 DEF N

\* A chain goes on from any node of it as the chain of that node does.
LEMMA ChainFollows ==
  ASSUME SnapshotInv, NEW id \in Ids \cup {0}, NEW k \in 0 .. Size + 1, NEW j \in Nat, k + j <= Size + 1
  PROVE  Chain(id)[k + j] = Chain(Chain(id)[k])[j]
<1> DEFINE c == Chain(id)
           d == Chain(c[k])
           T == {i \in Nat : k + i <= Size + 1 => c[k + i] = d[i]}
<1>1. Size \in Nat BY SnapshotFacts
<1>2. /\ c \in [0 .. Size + 1 -> Ids \cup {0}]
      /\ \A i \in 0 .. Size : c[i + 1] = Up(c[i])
  BY ChainClimbs
<1>3. c[k] \in Ids \cup {0} BY <1>2
<1>4. d[0] = c[k] /\ \A i \in 0 .. Size : d[i + 1] = Up(d[i])
  <2> HIDE DEF c
  <2> QED BY <1>3, ChainClimbs
<1> HIDE DEF c, d
<1>5. 0 \in T BY <1>1, <1>4
<1>6. ASSUME NEW i \in T PROVE i + 1 \in T
  <2> SUFFICES ASSUME k + (i + 1) <= Size + 1 PROVE c[k + (i + 1)] = d[i + 1] OBVIOUS
  <2>1. k + (i + 1) = (k + i) + 1 /\ k + i \in 0 .. Size /\ i \in 0 .. Size /\ k + i <= Size + 1
    BY <1>1
  <2>2. c[k + i] = d[i] BY <2>1
  <2>3. c[(k + i) + 1] = Up(c[k + i]) /\ d[i + 1] = Up(d[i]) BY <1>2, <1>4, <2>1
  <2> QED BY <2>1, <2>2, <2>3
<1>7. T = Nat
  <2> HIDE DEF T
  <2>1. T \in SUBSET Nat BY DEF T
  <2> QED BY <1>5, <1>6, <2>1, AllNumbers
<1> QED BY <1>7 DEF c, d

\* A chain stays where it has left the snapshot.
LEMMA ChainStays ==
  ASSUME SnapshotInv, NEW id \in Ids \cup {0}, NEW k \in 0 .. Size + 1, Chain(id)[k] \notin Known,
         NEW j \in 0 .. Size + 1, k <= j
  PROVE  Chain(id)[j] = Chain(id)[k]
<1> DEFINE c == Chain(id)
           T == {i \in Nat : k <= i /\ i <= Size + 1 => c[i] = c[k]}
<1>1. Size \in Nat BY SnapshotFacts
<1>2. \A i \in 0 .. Size : c[i + 1] = Up(c[i]) BY ChainClimbs
<1>3. c[k] \notin Known OBVIOUS
<1> HIDE DEF c
<1>4. 0 \in T BY <1>1
<1>5. ASSUME NEW i \in T PROVE i + 1 \in T
  <2> SUFFICES ASSUME k <= i + 1, i + 1 <= Size + 1 PROVE c[i + 1] = c[k] OBVIOUS
  <2>1. CASE k = i + 1 BY <2>1
  <2>2. CASE k # i + 1
    <3>1. k <= i /\ i \in 0 .. Size /\ i <= Size + 1 BY <1>1, <2>2
    <3>2. c[i] = c[k] BY <3>1
    <3>3. c[i + 1] = Up(c[i]) BY <1>2, <3>1
    <3> QED BY <1>3, <3>2, <3>3 DEF Up
  <2> QED BY <2>1, <2>2
<1>6. T = Nat
  <2> HIDE DEF T
  <2>1. T \in SUBSET Nat BY DEF T
  <2> QED BY <1>4, <1>5, <2>1, AllNumbers
<1>7. j \in Nat /\ j <= Size + 1 BY <1>1
<1> QED BY <1>6, <1>7 DEF c

\* A chain that never leaves the snapshot comes back to where it was.
LEMMA ChainReturns ==
  ASSUME SnapshotInv, NEW id \in Ids \cup {0}, Chain(id)[Size + 1] \in Known
  PROVE  /\ \A k \in 0 .. Size + 1 : Chain(id)[k] \in Known
         /\ \E m \in 1 .. Size : Chain(id)[m] = Chain(id)[Size + 1]
<1> DEFINE c == Chain(id)
           N == Size
<1>1. N \in Nat /\ IsFiniteSet(Known) /\ N = Cardinality(Known) BY SnapshotFacts
<1>2. ASSUME NEW k \in 0 .. N + 1 PROVE c[k] \in Known
  <2> SUFFICES ASSUME c[k] \notin Known PROVE FALSE OBVIOUS
  <2>1. N + 1 \in 0 .. N + 1 /\ k <= N + 1 BY <1>1
  <2>2. c[N + 1] = c[k] BY <2>1, ChainStays
  <2> QED BY <2>2
<1>3. ASSUME NEW i \in 0 .. N, NEW j \in 0 .. N, i < j, c[i] = c[j]
      PROVE  \E m \in 1 .. N : c[m] = c[N + 1]
  <2> DEFINE t == N + 1 - j
  <2>1. t \in Nat /\ j + t = N + 1 /\ i + t \in 1 .. N /\ i + t <= N + 1 /\ i \in 0 .. N + 1 /\ j \in 0 .. N + 1
    BY <1>1, <1>3
  <2> HIDE DEF t
  <2>2. c[j + t] = Chain(c[j])[t] BY <2>1, ChainFollows
  <2>3. c[i + t] = Chain(c[i])[t] BY <2>1, ChainFollows
  <2>4. c[i + t] = c[N + 1] BY <1>3, <2>1, <2>2, <2>3
  <2> QED BY <2>1, <2>4
<1> HIDE DEF c
<1>4. PICK i \in 0 .. N, j \in 0 .. N : i # j /\ c[i] = c[j]
  <2> DEFINE f == [k \in 0 .. N |-> c[k]]
             places == 0 .. N
  <2>1. f \in [places -> Known]
    <3>1. \A k \in 0 .. N : k \in 0 .. N + 1 BY <1>1
    <3> QED BY <1>2, <3>1
  <2>2. IsFiniteSet(places) /\ Cardinality(places) = N + 1
    <3>1. IsFiniteSet(0 .. N) /\ Cardinality(0 .. N) = IF 0 > N THEN 0 ELSE N - 0 + 1
      BY <1>1, FS_Interval
    <3> QED BY <1>1, <3>1
  <2>3. \A k \in places : f[k] = c[k] OBVIOUS
  <2> HIDE DEF f, places
  <2>4. Cardinality(Known) < Cardinality(places) BY <1>1, <2>2
  <2>5. \E x, y \in places : x # y /\ f[x] = f[y] BY <1>1, <2>1, <2>2, <2>4, FS_PigeonHole
  <2>6. \E x, y \in places : x # y /\ c[x] = c[y] BY <2>3, <2>5
  <2> QED BY <2>6 DEF places
<1>5. i < j \/ j < i BY <1>1, <1>4
<1> QED BY <1>2, <1>3, <1>4, <1>5 DEF c

\* What a chain meets after a node of the snapshot is above that node.
LEMMA MetIsAbove ==
  ASSUME SnapshotInv, NEW id \in Ids \cup {0}, NEW k \in Nat, NEW j \in 0 .. Size + 1, k < j,
         Chain(id)[k] \in Known, Chain(id)[j] # 0
  PROVE  Chain(id)[j] \in Above(Chain(id)[k])
<1> DEFINE c == Chain(id)
           N == Size
<1>1. N \in Nat /\ k \in 0 .. N BY SnapshotFacts
<1>2. /\ c \in [0 .. N + 1 -> Ids \cup {0}]
      /\ \A i \in 0 .. N : c[i + 1] = Up(c[i])
  BY ChainClimbs
<1>3. c[k] \in Known /\ c[j] # 0 OBVIOUS
<1> HIDE DEF c
<1>4. ASSUME NEW ids \in SUBSET Ids, ClosedUp(ids, c[k]) PROVE c[j] \in ids
  <2> DEFINE T == {i \in Nat : k + 1 <= i /\ i <= N + 1 => c[i] \in ids \cup {0}}
  <2>1. 0 \in T BY <1>1
  <2>2. ASSUME NEW i \in T PROVE i + 1 \in T
    <3> SUFFICES ASSUME k + 1 <= i + 1, i + 1 <= N + 1 PROVE c[i + 1] \in ids \cup {0} OBVIOUS
    <3>1. i \in 0 .. N /\ c[i + 1] = Up(c[i]) BY <1>1, <1>2
    <3>2. CASE i = k
      <4>1. nodes[c[k]].parent \in ids \cup {0} BY <1>3, <1>4 DEF ClosedUp
      <4> QED BY <1>3, <3>1, <3>2, <4>1 DEF Up
    <3>3. CASE i # k
      <4>1. c[i] \in ids \cup {0} BY <1>1, <3>1, <3>3
      <4>2. CASE c[i] \in Known
        <5>1. c[i] \in ids BY <4>1, <4>2, SnapshotFacts
        <5>2. nodes[c[i]].parent \in ids \cup {0} BY <1>4, <4>2, <5>1 DEF ClosedUp
        <5> QED BY <3>1, <4>2, <5>2 DEF Up
      <4>3. CASE c[i] \notin Known BY <3>1, <4>1, <4>3 DEF Up
      <4> QED BY <4>2, <4>3
    <3> QED BY <3>2, <3>3
  <2>3. T = Nat
    <3> HIDE DEF T
    <3>1. T \in SUBSET Nat BY DEF T
    <3> QED BY <2>1, <2>2, <3>1, AllNumbers
  <2>4. c[j] \in ids \cup {0} BY <1>1, <2>3
  <2> QED BY <1>3, <2>4
<1>5. c[j] \in Ids BY <1>2, <1>3
<1> QED BY <1>4, <1>5 DEF Above, c

\* Above a node is what its chain meets, and nothing else.
LEMMA AboveIsMet ==
  ASSUME SnapshotInv, NEW id \in Known
  PROVE  Above(id) = {Chain(id)[k] : k \in 1 .. Size + 1} \ {0}
<1> DEFINE c == Chain(id)
           N == Size
           V == {c[k] : k \in 1 .. N + 1} \ {0}
<1>1. N \in Nat /\ id \in Ids \cup {0} BY SnapshotFacts
<1>2. /\ c \in [0 .. N + 1 -> Ids \cup {0}] /\ c[0] = id
      /\ \A i \in 0 .. N : c[i + 1] = Up(c[i])
  BY <1>1, ChainClimbs
<1>3. V \subseteq Above(id)
  <2> SUFFICES ASSUME NEW k \in 1 .. N + 1, c[k] # 0 PROVE c[k] \in Above(id) OBVIOUS
  <2>1. k \in 0 .. N + 1 /\ 0 < k BY <1>1
  <2>2. c[k] \in Above(c[0])
    <3>1. c[0] \in Known BY <1>2
    <3> QED BY <1>1, <2>1, <3>1, MetIsAbove
  <2> QED BY <1>2, <2>2
<1>4. c[N + 1] \in Known => \E m \in 1 .. N : c[m] = c[N + 1] BY <1>1, ChainReturns
<1> HIDE DEF c
<1>5. V \in SUBSET Ids
  <2>1. \A k \in 1 .. N + 1 : c[k] \in Ids \cup {0} BY <1>1, <1>2
  <2> QED BY <2>1
<1>6. ClosedUp(V, id)
  <2> SUFFICES ASSUME NEW n \in Known \cap (V \cup {id}) PROVE nodes[n].parent \in V \cup {0}
    BY DEF ClosedUp
  <2>1. ASSUME NEW k \in 0 .. N, n = c[k] PROVE nodes[n].parent \in V \cup {0}
    <3>1. c[k + 1] = nodes[n].parent BY <1>2, <2>1 DEF Up
    <3>2. k + 1 \in 1 .. N + 1 BY <1>1
    <3> QED BY <3>1, <3>2
  <2>2. CASE n = id
    <3>1. 0 \in 0 .. N BY <1>1
    <3> QED BY <1>2, <2>1, <2>2, <3>1
  <2>3. CASE n # id
    <3>1. PICK k \in 1 .. N + 1 : n = c[k] BY <2>3
    <3>2. CASE k = N + 1
      <4>1. PICK m \in 1 .. N : c[m] = c[N + 1] BY <1>4, <3>1, <3>2
      <4>2. m \in 0 .. N BY <1>1
      <4> QED BY <2>1, <3>1, <3>2, <4>1, <4>2
    <3>3. CASE k # N + 1
      <4>1. k \in 0 .. N BY <1>1, <3>3
      <4> QED BY <2>1, <3>1, <4>1
    <3> QED BY <3>2, <3>3
  <2> QED BY <2>2, <2>3
<1>7. Above(id) \subseteq V
  <2> HIDE DEF V
  <2> QED BY <1>5, <1>6 DEF Above
<1> QED BY <1>3, <1>7 DEF c

\* Above an id the snapshot does not have there is nothing.
LEMMA AboveUnknown == ASSUME SnapshotInv, NEW id, id \notin Known PROVE Above(id) = {}
<1>1. ClosedUp({}, id) /\ {} \in SUBSET Ids BY DEF ClosedUp
<1> QED BY <1>1 DEF Above

\* The steps after which a chain has come to the root's parent.
Roots(id) == {k \in 1 .. StepBound : Chain(id)[k] = 0}

\* Where a chain ends, it meets each node once, until it ends.
LEMMA EndedChain ==
  ASSUME SnapshotInv, NEW id \in Known, NEW top \in Roots(id), \A j \in Roots(id) : top <= j
  PROVE  /\ top \in 1 .. Size /\ top \in Nat
         /\ \A k \in top .. Size + 1 : Chain(id)[k] = 0
         /\ \A k \in 0 .. top - 1 : Chain(id)[k] \in Known
         /\ \A i, j \in 0 .. top - 1 : Chain(id)[i] = Chain(id)[j] => i = j
<1> DEFINE c == Chain(id)
           N == Size
<1>1. /\ N \in Nat /\ id \in Ids \cup {0} /\ id # 0 /\ 0 \notin Known
      /\ IsFiniteSet(Known) /\ N = Cardinality(Known)
  BY SnapshotFacts
<1>2. /\ c \in [0 .. N + 1 -> Ids \cup {0}] /\ c[0] = id
      /\ \A i \in 0 .. N : c[i + 1] = Up(c[i])
  BY <1>1, ChainClimbs
<1>3. top \in 1 .. N + 1 /\ c[top] = 0 BY DEF Roots, StepBound
<1>4. \A k \in 1 .. N + 1 : c[k] = 0 => top <= k BY DEF Roots, StepBound
<1>5. ASSUME NEW k \in 0 .. N + 1, c[k] \notin Known, NEW j \in 0 .. N + 1, k <= j PROVE c[j] = c[k]
  BY <1>1, <1>5, ChainStays
<1>6. ASSUME NEW k \in 0 .. N + 1, NEW j \in Nat, k + j <= N + 1 PROVE c[k + j] = Chain(c[k])[j]
  BY <1>1, <1>6, ChainFollows
<1> HIDE DEF c
<1>7. \A k \in top .. N + 1 : c[k] = 0
  <2> SUFFICES ASSUME NEW k \in top .. N + 1 PROVE c[k] = 0 OBVIOUS
  <2>1. top \in 0 .. N + 1 /\ k \in 0 .. N + 1 /\ top <= k BY <1>1, <1>3
  <2> QED BY <1>1, <1>3, <1>5, <2>1
<1>8. ASSUME NEW k \in 0 .. top - 1 PROVE c[k] \in Known
  <2> SUFFICES ASSUME c[k] \notin Known PROVE FALSE OBVIOUS
  <2>1. k \in 0 .. N + 1 /\ top \in 0 .. N + 1 /\ k <= top /\ k < top BY <1>1, <1>3
  <2>2. c[k] = 0 BY <1>3, <1>5, <2>1
  <2>3. k # 0 BY <1>1, <1>2, <2>2
  <2>4. k \in 1 .. N + 1 /\ ~ (top <= k) BY <1>1, <2>1, <2>3
  <2> QED BY <1>4, <2>2, <2>4
<1>9. ASSUME NEW i \in 0 .. top - 1, NEW j \in 0 .. top - 1, i < j, c[i] = c[j] PROVE FALSE
  <2> DEFINE t == top - j
  <2>1. /\ t \in Nat /\ j + t = top /\ i + t \in 1 .. N + 1 /\ i + t < top /\ i + t <= N + 1
        /\ top <= N + 1 /\ i \in 0 .. N + 1 /\ j \in 0 .. N + 1
    BY <1>1, <1>3, <1>9
  <2> HIDE DEF t
  <2>2. c[j + t] = Chain(c[j])[t] /\ c[i + t] = Chain(c[i])[t] BY <1>6, <2>1
  <2>3. c[i + t] = 0 BY <1>3, <1>9, <2>1, <2>2
  <2>4. ~ (top <= i + t) BY <1>1, <1>3, <2>1
  <2> QED BY <1>4, <2>1, <2>3, <2>4
<1>10. \A i, j \in 0 .. top - 1 : c[i] = c[j] => i = j
  <2> SUFFICES ASSUME NEW i \in 0 .. top - 1, NEW j \in 0 .. top - 1, c[i] = c[j], i # j PROVE FALSE
    OBVIOUS
  <2>1. i < j \/ j < i BY <1>3
  <2> QED BY <1>9, <2>1
<1>11. top <= N
  <2> DEFINE f == [k \in 0 .. top - 1 |-> c[k]]
             places == 0 .. top - 1
  <2>1. f \in [places -> Known] /\ \A k \in places : f[k] = c[k] BY <1>8
  <2>2. IsFiniteSet(places) /\ Cardinality(places) = top
    <3>1. top - 1 \in Nat /\ 0 \in Int /\ top - 1 \in Int BY <1>1, <1>3
    <3>2. IsFiniteSet(0 .. top - 1) /\ Cardinality(0 .. top - 1) = IF 0 > top - 1 THEN 0 ELSE (top - 1) - 0 + 1
      BY <3>1, FS_Interval
    <3>3. ~ (0 > top - 1) /\ (top - 1) - 0 + 1 = top BY <1>1, <1>3
    <3>4. Cardinality(0 .. top - 1) = (top - 1) - 0 + 1 BY <3>2, <3>3
    <3> QED BY <3>2, <3>3, <3>4
  <2>3. \A x, y \in places : f[x] = f[y] => x = y BY <1>10, <2>1
  <2> HIDE DEF f, places
  <2> SUFFICES ASSUME ~ (top <= N) PROVE FALSE OBVIOUS
  <2>4. Cardinality(Known) < Cardinality(places) BY <1>1, <1>3, <2>2
  <2>5. \E x, y \in places : x # y /\ f[x] = f[y] BY <1>1, <2>1, <2>2, <2>4, FS_PigeonHole
  <2> QED BY <2>3, <2>5
<1>12. top \in 1 .. N /\ top \in Nat BY <1>1, <1>3, <1>11
<1> QED BY <1>7, <1>8, <1>10, <1>12 DEF c

\* The nodes from an id up to its root.
Unbroken(id) ==
  {id} \cup Above(id) \subseteq Known /\ \A a \in {id} \cup Above(id) : a \notin Above(a)

\* What is above a node whose chain ends is the rest of its chain.
LEMMA EndedIsWhole ==
  ASSUME SnapshotInv, NEW id \in Known, NEW top \in Roots(id), \A j \in Roots(id) : top <= j
  PROVE  {id} \cup Above(id) = {Chain(id)[k] : k \in 0 .. top - 1} /\ Unbroken(id)
<1> DEFINE c == Chain(id)
           N == Size
<1>1. N \in Nat /\ id \in Ids \cup {0} /\ 0 \notin Known /\ Known \subseteq Ids BY SnapshotFacts
<1>2. c[0] = id /\ \A i \in 0 .. N : c[i + 1] = Up(c[i]) BY <1>1, ChainClimbs
<1>3. /\ top \in 1 .. N /\ top \in Nat
      /\ \A k \in top .. N + 1 : c[k] = 0
      /\ \A k \in 0 .. top - 1 : c[k] \in Known
      /\ \A i, j \in 0 .. top - 1 : c[i] = c[j] => i = j
  BY EndedChain
<1>4. Above(id) = {c[k] : k \in 1 .. N + 1} \ {0} BY AboveIsMet
<1> HIDE DEF c
<1>5. {id} \cup Above(id) = {c[k] : k \in 0 .. top - 1}
  <2>1. ASSUME NEW k \in 0 .. top - 1 PROVE c[k] \in {id} \cup Above(id)
    <3>1. CASE k = 0 BY <1>2, <3>1
    <3>2. CASE k # 0
      <4>1. k \in 1 .. N + 1 /\ c[k] # 0 BY <1>1, <1>3, <3>2
      <4> QED BY <1>4, <4>1
    <3> QED BY <3>1, <3>2
  <2>2. ASSUME NEW k \in 1 .. N + 1, c[k] # 0 PROVE k \in 0 .. top - 1
    <3>1. k \notin top .. N + 1 BY <1>3, <2>2
    <3> QED BY <1>1, <1>3, <3>1
  <2>3. 0 \in 0 .. top - 1 BY <1>3
  <2> QED BY <1>2, <1>4, <2>1, <2>2, <2>3
<1>6. ASSUME NEW k \in 0 .. top - 1 PROVE c[k] \notin Above(c[k])
  <2> DEFINE V == {c[j] : j \in k + 1 .. top - 1}
  <2>1. V \in SUBSET Ids
    <3>1. \A j \in k + 1 .. top - 1 : j \in 0 .. top - 1 BY <1>3
    <3> QED BY <1>1, <1>3, <3>1
  <2>2. c[k] \notin V
    <3>1. \A j \in k + 1 .. top - 1 : j \in 0 .. top - 1 /\ j # k BY <1>3
    <3> QED BY <1>3, <3>1
  <2>3. ClosedUp(V, c[k])
    <3> SUFFICES ASSUME NEW j \in k .. top - 1 PROVE nodes[c[j]].parent \in V \cup {0}
      <4>1. \A j \in k + 1 .. top - 1 : j \in k .. top - 1 BY <1>3
      <4>2. k \in k .. top - 1 BY <1>3
      <4> QED BY <4>1, <4>2 DEF ClosedUp
    <3>1. j \in 0 .. top - 1 /\ j \in 0 .. N BY <1>1, <1>3
    <3>2. c[j + 1] = nodes[c[j]].parent BY <1>2, <1>3, <3>1 DEF Up
    <3>3. CASE j = top - 1
      <4>1. j + 1 = top /\ top \in top .. N + 1 BY <1>1, <1>3, <3>3
      <4> QED BY <1>3, <3>2, <4>1
    <3>4. CASE j # top - 1
      <4>1. j + 1 \in k + 1 .. top - 1 BY <1>3, <3>4
      <4> QED BY <3>2, <4>1
    <3> QED BY <3>3, <3>4
  <2> HIDE DEF V
  <2> QED BY <2>1, <2>2, <2>3 DEF Above
<1>7. Unbroken(id)
  <2>1. \A a \in {id} \cup Above(id) : \E k \in 0 .. top - 1 : a = c[k] BY <1>5
  <2>2. \A a \in {id} \cup Above(id) : a \in Known /\ a \notin Above(a) BY <1>3, <1>6, <2>1
  <2> QED BY <2>2 DEF Unbroken
<1> QED BY <1>5, <1>7 DEF c

\* A chain that does not end has a hole or a cycle.
LEMMA EndlessIsBroken ==
  ASSUME SnapshotInv, NEW id \in Known, Roots(id) = {}
  PROVE  ~ Unbroken(id)
<1> DEFINE c == Chain(id)
           N == Size
<1>1. N \in Nat /\ id \in Ids \cup {0} BY SnapshotFacts
<1>2. c[N + 1] # 0
  <2>1. N + 1 \in 1 .. StepBound BY <1>1 DEF StepBound
  <2> QED BY <2>1 DEF Roots
<1>3. Above(id) = {c[k] : k \in 1 .. N + 1} \ {0} BY AboveIsMet
<1>4. c[N + 1] \in Above(id)
  <2>1. N + 1 \in 1 .. N + 1 BY <1>1
  <2> HIDE DEF c
  <2> QED BY <1>2, <1>3, <2>1
<1>5. CASE c[N + 1] \notin Known BY <1>4, <1>5 DEF Unbroken
<1>6. CASE c[N + 1] \in Known
  <2>1. PICK m \in 1 .. N : c[m] = c[N + 1] BY <1>1, <1>6, ChainReturns
  <2>2. m \in Nat /\ N + 1 \in 0 .. N + 1 /\ m < N + 1 BY <1>1
  <2>3. c[N + 1] \in Above(c[m]) BY <1>1, <1>2, <1>6, <2>1, <2>2, MetIsAbove
  <2>4. c[N + 1] \in Above(c[N + 1])
    <3> HIDE DEF c
    <3> QED BY <2>1, <2>3
  <2> QED BY <1>4, <2>4 DEF Unbroken
<1> QED BY <1>5, <1>6

\* Ancestors has the chain of a node from its root down, or says it is broken.
LEMMA AncestorsAre ==
  ASSUME SnapshotInv, NEW id \in Known
  PROVE  /\ Roots(id) = {} => Ancestors(id) = Broken
         /\ Roots(id) # {} =>
              \E top \in Roots(id) : /\ \A j \in Roots(id) : top <= j
                                     /\ Ancestors(id) = [i \in 1 .. top |-> Chain(id)[top - i]]
<1>1. Roots(id) = {} => Ancestors(id) = Broken BY Zenon DEF Ancestors, Roots
<1>2. ASSUME Roots(id) # {}
      PROVE  \E top \in Roots(id) : /\ \A j \in Roots(id) : top <= j
                                    /\ Ancestors(id) = [i \in 1 .. top |-> Chain(id)[top - i]]
  <2> DEFINE top == CHOOSE k \in Roots(id) : \A j \in Roots(id) : k <= j
  <2>1. Roots(id) \in SUBSET Nat BY SnapshotFacts DEF Roots, StepBound
  <2>2. \E k \in Roots(id) : \A j \in Roots(id) : k <= j BY <1>2, <2>1, LeastOne
  <2>3. top \in Roots(id) /\ \A j \in Roots(id) : top <= j BY <2>2, Zenon
  <2>4. Ancestors(id) = [i \in 1 .. top |-> Chain(id)[top - i]]
    BY <1>2, Zenon DEF Ancestors, Roots
  <2> HIDE DEF top
  <2> QED BY <2>3, <2>4
<1> QED BY <1>1, <1>2

LEMMA AncestorsStep == SnapshotInv => AncestorsAreAbove
<1> SUFFICES ASSUME SnapshotInv, NEW id \in Known
             PROVE  LET chain == Ancestors(id)
                        above == {id} \cup Above(id)
                    IN IF ~ Unbroken(id) THEN chain = Broken
                       ELSE /\ chain # Broken
                            /\ {chain[i] : i \in DOMAIN chain} = above
                            /\ Len(chain) = Cardinality(above)
                            /\ nodes[chain[1]].parent = 0
                            /\ \A i \in 2 .. Len(chain) : nodes[chain[i]].parent = chain[i - 1]
  BY DEF AncestorsAreAbove, Unbroken
<1>1. CASE Roots(id) = {} BY <1>1, EndlessIsBroken, AncestorsAre
<1>2. CASE Roots(id) # {}
  <2> DEFINE c == Chain(id)
             above == {id} \cup Above(id)
  <2>1. PICK top \in Roots(id) : /\ \A j \in Roots(id) : top <= j
                                 /\ Ancestors(id) = [i \in 1 .. top |-> c[top - i]]
    BY <1>2, AncestorsAre
  <2> DEFINE chain == [i \in 1 .. top |-> c[top - i]]
  <2>2. /\ top \in 1 .. Size /\ top \in Nat /\ top >= 1 /\ Size \in Nat
        /\ \A k \in top .. Size + 1 : c[k] = 0
        /\ \A k \in 0 .. top - 1 : c[k] \in Known
        /\ \A i, j \in 0 .. top - 1 : c[i] = c[j] => i = j
    <3>1. Size \in Nat BY SnapshotFacts
    <3> HIDE DEF c
    <3>2. /\ top \in 1 .. Size /\ top \in Nat
          /\ \A k \in top .. Size + 1 : Chain(id)[k] = 0
          /\ \A k \in 0 .. top - 1 : Chain(id)[k] \in Known
          /\ \A i, j \in 0 .. top - 1 : Chain(id)[i] = Chain(id)[j] => i = j
      BY <2>1, EndedChain
    <3> QED BY <3>1, <3>2 DEF c
  <2>3. above = {c[k] : k \in 0 .. top - 1} /\ Unbroken(id) BY <2>1, EndedIsWhole
  <2>4. \A k \in 0 .. Size : c[k + 1] = Up(c[k])
    <3>1. id \in Ids \cup {0} BY SnapshotFacts
    <3> QED BY <3>1, ChainClimbs
  <2> HIDE DEF c, above
  <2>5. \A i \in 1 .. top : chain[i] = c[top - i] /\ top - i \in 0 .. top - 1 /\ c[top - i] \in Known
    BY <2>2
  <2>6. DOMAIN chain = 1 .. top OBVIOUS
  <2>7. chain \in Seq(Ids) /\ Len(chain) = top
    <3>1. chain \in [1 .. top -> Ids] BY <2>5, SnapshotFacts
    <3> QED BY <2>2, <3>1
  <2> HIDE DEF chain
  <2>8. chain # Broken BY <2>7, ErrorsAssumption
  <2>9. {chain[i] : i \in DOMAIN chain} = above
    <3>1. ASSUME NEW k \in 0 .. top - 1 PROVE \E i \in 1 .. top : c[k] = chain[i]
      <4>1. top - k \in 1 .. top /\ top - (top - k) = k BY <2>2
      <4> QED BY <2>5, <4>1
    <3> QED BY <2>3, <2>5, <2>6, <3>1
  <2>10. Len(chain) = Cardinality(above)
    <3> DEFINE f == [k \in 0 .. top - 1 |-> c[k]]
               places == 0 .. top - 1
    <3>1. IsFiniteSet(places) /\ Cardinality(places) = top
      <4>1. top - 1 \in Int /\ 0 \in Int /\ ~ (0 > top - 1) /\ (top - 1) - 0 + 1 = top BY <2>2
      <4>2. IsFiniteSet(0 .. top - 1) /\ Cardinality(0 .. top - 1) = IF 0 > top - 1 THEN 0 ELSE (top - 1) - 0 + 1
        BY <4>1, FS_Interval
      <4>3. Cardinality(0 .. top - 1) = (top - 1) - 0 + 1 BY <4>1, <4>2
      <4> QED BY <4>1, <4>2, <4>3
    <3>2. /\ f \in [places -> above]
          /\ \A a, b \in places : f[a] = f[b] => a = b
          /\ \A t \in above : \E k \in places : f[k] = t
      BY <2>2, <2>3
    <3> HIDE DEF f, places
    <3>3. f \in Bijection(places, above)
      <4>1. f \in Injection(places, above) BY <3>2 DEF Injection, IsInjective
      <4>2. f \in Surjection(places, above) BY <3>2 DEF Surjection
      <4> QED BY <4>1, <4>2 DEF Bijection
    <3>4. Cardinality(above) = Cardinality(places)
      <4>1. ExistsBijection(places, above) BY <3>3 DEF ExistsBijection
      <4> QED BY <3>1, <4>1, FS_Bijection
    <3> QED BY <2>7, <3>1, <3>4
  <2>11. nodes[chain[1]].parent = 0
    <3>1. 1 \in 1 .. top /\ top - 1 \in 0 .. Size /\ (top - 1) + 1 = top /\ top \in top .. Size + 1 BY <2>2
    <3>2. chain[1] = c[top - 1] /\ c[top - 1] \in Known BY <2>5, <3>1
    <3>3. c[top] = nodes[c[top - 1]].parent BY <2>4, <3>1, <3>2 DEF Up
    <3> QED BY <2>2, <3>1, <3>2, <3>3
  <2>12. ASSUME NEW i \in 2 .. top PROVE nodes[chain[i]].parent = chain[i - 1]
    <3>1. i \in 1 .. top /\ i - 1 \in 1 .. top /\ top - i \in 0 .. Size /\ (top - i) + 1 = top - (i - 1)
      BY <2>2
    <3>2. chain[i] = c[top - i] /\ c[top - i] \in Known /\ chain[i - 1] = c[top - (i - 1)] BY <2>5, <3>1
    <3>3. c[(top - i) + 1] = nodes[c[top - i]].parent BY <2>4, <3>1, <3>2 DEF Up
    <3> QED BY <3>1, <3>2, <3>3
  <2>13. Ancestors(id) = chain BY <2>1 DEF chain
  <2>14. \A i \in 2 .. Len(chain) : nodes[chain[i]].parent = chain[i - 1] BY <2>7, <2>12
  <2> DEFINE walk == Ancestors(id)
             round == {id} \cup Above(id)
  <2>15. walk = chain /\ round = above BY <2>13 DEF above
  <2> HIDE DEF walk, round
  <2>16. IF ~ Unbroken(id) THEN walk = Broken
         ELSE /\ walk # Broken
              /\ {walk[i] : i \in DOMAIN walk} = round
              /\ Len(walk) = Cardinality(round)
              /\ nodes[walk[1]].parent = 0
              /\ \A i \in 2 .. Len(walk) : nodes[walk[i]].parent = walk[i - 1]
    BY <2>3, <2>8, <2>9, <2>10, <2>11, <2>14, <2>15
  <2> QED BY <2>16 DEF walk, round
<1> QED BY <1>1, <1>2

\* In a well-formed snapshot every chain ends.
LEMMA WellFormedEnds ==
  ASSUME SnapshotInv, WellFormed, NEW id \in Known
  PROVE  /\ Unbroken(id) /\ Ancestors(id) # Broken
         /\ Chain(id)[Size] = 0 /\ Chain(id)[Size + 1] = 0
<1>1. Above(id) \subseteq Known
  <2>1. ClosedUp(Known, id) BY DEF ClosedUp, WellFormed
  <2>2. Known \in SUBSET Ids BY SnapshotFacts
  <2> QED BY <2>1, <2>2 DEF Above
<1>2. Unbroken(id)
  <2>1. \A a \in {id} \cup Above(id) : a \in Known /\ a \in Ids BY <1>1, SnapshotFacts
  <2> QED BY <2>1 DEF Unbroken, WellFormed
<1>3. Roots(id) # {} BY <1>2, EndlessIsBroken
<1>4. Roots(id) \in SUBSET Nat /\ Size \in Nat BY SnapshotFacts DEF Roots, StepBound
<1>5. PICK top \in Roots(id) : \A j \in Roots(id) : top <= j BY <1>3, <1>4, LeastOne
<1>6. /\ top \in 1 .. Size /\ top \in Nat
      /\ \A k \in top .. Size + 1 : Chain(id)[k] = 0
  BY <1>5, EndedChain
<1>7. Size \in top .. Size + 1 /\ Size + 1 \in top .. Size + 1 BY <1>4, <1>6
<1>8. Ancestors(id) # Broken
  <2>1. AncestorsAreAbove BY AncestorsStep
  <2> QED BY <1>2, <2>1 DEF AncestorsAreAbove, Unbroken
<1> QED BY <1>2, <1>6, <1>7, <1>8

LayerRule(layer, root) ==
  layer = [k \in 0 .. Size |->
             IF k = 0 THEN {root} ELSE UNION {Children(id) : id \in layer[k - 1]}]

\* Layers is defined, and each layer has the children of the one before.
LEMMA LayersGoDown ==
  ASSUME SnapshotInv, NEW root \in Known
  PROVE  /\ Layers(root)[0] = {root}
         /\ \A k \in 0 .. Size : k # 0 =>
              Layers(root)[k] = UNION {Children(id) : id \in Layers(root)[k - 1]}
<1> DEFINE S == SUBSET Known
           Down(ids) == UNION {Children(id) : id \in ids}
           next == [ids \in S |-> Down(ids)]
           l == CHOOSE layer : LayerRule(layer, root)
           N == Size
<1>1. N \in Nat BY SnapshotFacts
<1>2. \A ids \in S : Down(ids) \in S BY DEF Children
<1> HIDE DEF Down
<1>3. next \in [S -> S] /\ \A ids \in S : next[ids] = Down(ids) BY <1>2
<1> HIDE DEF next, N
<1>4. PICK f : Iterated(f, S, next, {root}, N)
  <2>1. {root} \in S OBVIOUS
  <2> HIDE DEF S
  <2> QED BY <1>1, <1>3, <2>1, Iterates
<1>5. f \in [0 .. N -> S] /\ f[0] = {root} /\ \A k \in 1 .. N : f[k] = next[f[k - 1]]
  BY <1>4 DEF Iterated
<1>6. ASSUME NEW k \in 0 .. N
      PROVE  f[k] = IF k = 0 THEN {root} ELSE Down(f[k - 1])
  <2>1. CASE k = 0 BY <1>5, <2>1
  <2>2. CASE k # 0
    <3>1. k \in 1 .. N /\ k - 1 \in 0 .. N BY <1>1, <2>2
    <3>2. f[k] = next[f[k - 1]] /\ f[k - 1] \in S BY <1>5, <3>1
    <3> QED BY <1>3, <2>2, <3>2
  <2> QED BY <2>1, <2>2
<1>7. f = [k \in 0 .. N |-> f[k]] BY <1>5
<1>8. f = [k \in 0 .. N |-> IF k = 0 THEN {root} ELSE Down(f[k - 1])] BY <1>6, <1>7
<1>9. LayerRule(f, root) BY <1>8, Zenon DEF LayerRule, N, Down
<1>10. LayerRule(l, root) BY <1>9, Zenon
<1>11. Layers(root) = l BY Zenon DEF Layers, LayerRule
<1> HIDE DEF l
<1>12. l = [k \in 0 .. N |-> IF k = 0 THEN {root} ELSE Down(l[k - 1])]
  BY <1>10, Zenon DEF LayerRule, N, Down
<1>13. \A k \in 0 .. N : l[k] = IF k = 0 THEN {root} ELSE Down(l[k - 1]) BY <1>12
<1>14. l[0] = {root} /\ \A k \in 0 .. N : k # 0 => l[k] = Down(l[k - 1]) BY <1>1, <1>13
<1> QED BY <1>11, <1>14 DEF Down, N

\* A layer has the nodes from which that many steps lead up to the root.
LEMMA LayersAreChains ==
  ASSUME SnapshotInv, NEW root \in Known, NEW k \in 0 .. Size
  PROVE  Layers(root)[k] = {id \in Known : Chain(id)[k] = root}
<1> DEFINE l == Layers(root)
           C(id) == Chain(id)
           N == Size
           From(j) == {id \in Known : C(id)[j] = root}
           T == {j \in Nat : j <= N => l[j] = From(j)}
<1>1. /\ Known \subseteq Ids /\ 0 \notin Known /\ N \in Nat
      /\ \A n \in Known : nodes[n].parent \in Ids \cup {0} /\ Up(n) = nodes[n].parent
  BY SnapshotFacts
<1>2. l[0] = {root} /\ \A j \in 0 .. N : j # 0 => l[j] = UNION {Children(id) : id \in l[j - 1]}
  BY LayersGoDown
<1>3. ASSUME NEW id \in Ids \cup {0} PROVE C(id)[0] = id BY ChainClimbs
<1>4. ASSUME NEW id \in Known, NEW j \in Nat, j + 1 <= N
      PROVE  C(id)[j + 1] = C(nodes[id].parent)[j]
  <2>1. id \in Ids \cup {0} /\ 1 \in 0 .. Size + 1 /\ 0 \in 0 .. Size /\ 1 + j <= Size + 1 /\ 1 + j = j + 1 /\ 0 + 1 = 1
    BY <1>1, <1>4
  <2>2. C(id)[0 + 1] = Up(C(id)[0]) /\ C(id)[0] = id BY <2>1, ChainClimbs
  <2>3. C(id)[1] = nodes[id].parent BY <1>1, <2>1, <2>2
  <2>4. C(id)[1 + j] = Chain(C(id)[1])[j] BY <2>1, ChainFollows
  <2> QED BY <2>1, <2>3, <2>4
<1>5. ASSUME NEW p \in Ids \cup {0}, p \notin Known, NEW j \in Nat, j <= N PROVE C(p)[j] = p
  <2>1. 0 \in 0 .. Size + 1 /\ j \in 0 .. Size + 1 /\ 0 <= j BY <1>1, <1>5
  <2>2. C(p)[0] = p BY <1>3
  <2>3. Chain(p)[0] \notin Known BY <1>5, <2>2
  <2>4. Chain(p)[j] = Chain(p)[0] BY <2>1, <2>3, ChainStays
  <2> QED BY <2>2, <2>4
<1> HIDE DEF l, C, N
<1>6. 0 \in T
  <2>1. From(0) = {root} BY <1>1, <1>3
  <2> QED BY <1>2, <2>1
<1>7. ASSUME NEW j \in T PROVE j + 1 \in T
  <2> SUFFICES ASSUME j + 1 <= N PROVE l[j + 1] = From(j + 1) OBVIOUS
  <2>1. j \in Nat /\ j <= N /\ j + 1 \in 0 .. N /\ j + 1 # 0 /\ (j + 1) - 1 = j BY <1>1
  <2>2. l[j] = From(j) BY <2>1
  <2>3. l[j + 1] = UNION {Children(id) : id \in From(j)}
    <3> HIDE DEF From
    <3> QED BY <1>2, <2>1, <2>2
  <2>4. l[j + 1] = {id \in Known : nodes[id].parent \in From(j)}
    BY <2>3 DEF Children
  <2>5. ASSUME NEW id \in Known PROVE nodes[id].parent \in From(j) <=> C(id)[j + 1] = root
    <3>1. C(id)[j + 1] = C(nodes[id].parent)[j] BY <1>4, <2>1
    <3>2. CASE nodes[id].parent \in Known BY <3>1, <3>2
    <3>3. CASE nodes[id].parent \notin Known
      <4>1. C(nodes[id].parent)[j] = nodes[id].parent BY <1>1, <1>5, <2>1, <3>3
      <4> QED BY <3>1, <3>3, <4>1
    <3> QED BY <3>2, <3>3
  <2> QED BY <2>4, <2>5
<1>8. T = Nat
  <2> HIDE DEF T
  <2>1. T \in SUBSET Nat BY DEF T
  <2> QED BY <1>6, <1>7, <2>1, AllNumbers
<1>9. k \in Nat /\ k <= N BY <1>1 DEF N
<1>10. l[k] = From(k) BY <1>8, <1>9
<1> QED BY <1>10 DEF l, C

\* The subtree of a node has the nodes whose chains come by it.
LEMMA SubtreeIs ==
  ASSUME SnapshotInv, WellFormed, NEW root \in Known
  PROVE  /\ Subtree(root) = {id \in Known : \E k \in 0 .. Size : Chain(id)[k] = root}
         /\ Subtree(root) = {root} \cup {id \in Ids : root \in Above(id)}
<1> DEFINE N == Size
           C(id) == Chain(id)
           l == Layers(root)
<1>1. N \in Nat /\ 0 \notin Known /\ Known \subseteq Ids /\ 0 \notin Ids BY SnapshotFacts
<1>2. \A k \in 0 .. N : l[k] = {id \in Known : C(id)[k] = root} BY LayersAreChains
<1>3. \A id \in Known : C(id)[N] = 0 /\ C(id)[N + 1] = 0 BY WellFormedEnds
<1>4. \A id \in Known : Above(id) = {C(id)[k] : k \in 1 .. N + 1} \ {0} BY AboveIsMet
<1>5. \A id \in Known : C(id)[0] = id
  <2>1. \A id \in Known : id \in Ids \cup {0} BY <1>1
  <2> QED BY <2>1, ChainClimbs
<1>6. \A id \in Ids : id \notin Known => Above(id) = {} BY AboveUnknown
<1>7. Subtree(root) = IF l[N] # {} THEN Endless ELSE UNION {l[k] : k \in 0 .. N}
  BY Zenon DEF Subtree
<1> HIDE DEF C, l, N
<1>8. l[N] = {}
  <2>1. N \in 0 .. N BY <1>1
  <2> QED BY <1>1, <1>2, <1>3, <2>1
<1>9. UNION {l[k] : k \in 0 .. N} = {id \in Known : \E k \in 0 .. N : C(id)[k] = root} BY <1>2
<1>10. ASSUME NEW id \in Known
       PROVE  (\E k \in 0 .. N : C(id)[k] = root) <=> id = root \/ root \in Above(id)
  <2>1. root # 0 BY <1>1
  <2>2. \A k \in 0 .. N : k = 0 \/ k \in 1 .. N + 1 BY <1>1
  <2>3. \A k \in 1 .. N + 1 : k \in 0 .. N \/ k = N + 1 BY <1>1
  <2>4. 0 \in 0 .. N BY <1>1
  <2>5. root \in Above(id) <=> \E k \in 1 .. N + 1 : C(id)[k] = root BY <1>4, <2>1
  <2> QED BY <1>3, <1>5, <2>1, <2>2, <2>3, <2>4, <2>5
<1>11. {id \in Known : \E k \in 0 .. N : C(id)[k] = root} = {root} \cup {id \in Ids : root \in Above(id)}
  BY <1>1, <1>6, <1>10
<1> QED BY <1>7, <1>8, <1>9, <1>11 DEF N, C

LEMMA ClosesStep == SnapshotInv => ClosesSubtree
<1> SUFFICES ASSUME SnapshotInv, WellFormed, NEW today \in Days, NEW root \in Known,
                    Validate(root, today) # "valid", NEW id \in Subtree(root)
             PROVE  Validate(id, today) # "valid"
  BY DEF ClosesSubtree
<1> DEFINE c == Chain(id)
           d == Chain(root)
           N == Size
           Bad(n) == Rejects(n, today)
<1>1. N \in Nat /\ Known \subseteq Ids BY SnapshotFacts
<1>2. PICK k \in 0 .. N : id \in Known /\ c[k] = root BY SubtreeIs
<1>3. c[N + 1] = 0 /\ d[N + 1] = 0 BY <1>2, WellFormedEnds
<1>4. c \in [0 .. N + 1 -> Ids \cup {0}] /\ d \in [0 .. N + 1 -> Ids \cup {0}]
  BY <1>1, <1>2, ChainClimbs
<1>5. ASSUME NEW j \in Nat, k + j <= N + 1 PROVE c[k + j] = d[j]
  <2>1. id \in Ids \cup {0} /\ k \in 0 .. Size + 1 BY <1>1, <1>2
  <2>2. c[k + j] = Chain(c[k])[j] BY <1>5, <2>1, ChainFollows
  <2> QED BY <1>2, <2>2
<1>6. ASSUME NEW i \in 0 .. N + 1, NEW j \in 0 .. N + 1, i <= j, d[i] = 0 PROVE d[j] = 0
  <2>1. d[i] \notin Known /\ root \in Ids \cup {0} BY <1>1, <1>6, SnapshotFacts
  <2>2. d[j] = d[i] BY <1>6, <2>1, ChainStays
  <2> QED BY <1>6, <2>2
<1>7. \A n \in Known : LET chain == Chain(n)
                           asked == {j \in DOMAIN chain : chain[j] # 0}
                       IN /\ (\E j \in asked : Bad(chain[j])) => Validate(n, today) = "invalid"
                          /\ asked # DOMAIN chain /\ Validate(n, today) # "valid"
                               => \E j \in asked : Bad(chain[j])
  BY DEF Validate
<1>8. \E j \in {j \in DOMAIN d : d[j] # 0} : Bad(d[j])
  <2>1. {j \in DOMAIN d : d[j] # 0} # DOMAIN d
    <3>1. N + 1 \in DOMAIN d BY <1>1, <1>4
    <3> QED BY <1>3, <3>1
  <2> HIDE DEF Bad
  <2> QED BY <1>7, <2>1
<1> HIDE DEF c, d, N, Bad
<1>9. PICK j \in 0 .. N + 1 : d[j] # 0 /\ Bad(d[j]) BY <1>4, <1>8
<1>10. k + j <= N + 1
  <2> SUFFICES ASSUME ~ (k + j <= N + 1) PROVE FALSE OBVIOUS
  <2> DEFINE i == N + 1 - k
  <2>1. i \in Nat /\ i \in 0 .. N + 1 /\ k + i = N + 1 /\ k + i <= N + 1 /\ i <= j BY <1>1
  <2> HIDE DEF i
  <2>2. d[i] = 0 BY <1>3, <1>5, <2>1
  <2> QED BY <1>6, <1>9, <2>1, <2>2
<1>11. c[k + j] = d[j] /\ k + j \in 0 .. N + 1 BY <1>1, <1>5, <1>10
<1>12. \E i \in {i \in DOMAIN c : c[i] # 0} : Bad(c[i]) BY <1>4, <1>9, <1>11
<1>13. Validate(id, today) = "invalid" BY <1>2, <1>7, <1>12 DEF c
<1> QED BY <1>13

LEMMA CoherentStep == SnapshotInv => CoherentIsAnchored
<1> SUFFICES ASSUME SnapshotInv, WellFormed, NEW division \in Known, NEW anchor \in Known
             PROVE  LET chain == Ancestors(division)
                    IN /\ chain # Broken
                       /\ CheckCoherence(division, anchor) = (\E i \in DOMAIN chain : chain[i] = anchor)
  BY DEF CoherentIsAnchored
<1> DEFINE chain == Ancestors(division)
           below == Subtree(anchor)
<1>1. Known \subseteq Ids BY SnapshotFacts
<1>2. chain # Broken /\ Unbroken(division) BY WellFormedEnds
<1>3. {chain[i] : i \in DOMAIN chain} = {division} \cup Above(division)
  BY <1>2, AncestorsStep DEF AncestorsAreAbove, Unbroken
<1>4. below = {anchor} \cup {id \in Ids : anchor \in Above(id)} BY SubtreeIs
<1>5. below \in SUBSET Ids BY <1>1, <1>4
<1>6. below \notin {NotFound, Endless} BY <1>5, ErrorsAssumption
<1>7. CheckCoherence(division, anchor) = (division \in below) BY <1>6 DEF CheckCoherence
<1> HIDE DEF chain, below
<1>8. division \in below <=> anchor \in {division} \cup Above(division) BY <1>1, <1>4
<1>9. (\E i \in DOMAIN chain : chain[i] = anchor) <=> anchor \in {chain[i] : i \in DOMAIN chain} OBVIOUS
<1>10. (division \in below) <=> (\E i \in DOMAIN chain : chain[i] = anchor) BY <1>3, <1>8, <1>9
<1>11. (division \in below) = (\E i \in DOMAIN chain : chain[i] = anchor)
  <2> DEFINE listed == \E i \in DOMAIN chain : chain[i] = anchor
  <2>1. CASE division \in below
    <3>1. (division \in below) = TRUE BY <2>1
    <3>2. listed = TRUE BY <1>10, <2>1
    <3> QED BY <3>1, <3>2
  <2>2. CASE division \notin below
    <3>1. (division \in below) = FALSE BY <2>2
    <3>2. listed = FALSE BY <1>10, <2>2
    <3> QED BY <3>1, <3>2
  <2> QED BY <2>1, <2>2
<1> QED BY <1>2, <1>7, <1>11 DEF chain

LEMMA SnapshotStep == SnapshotInv /\ [Next]_nodes => SnapshotInv'
<1> SUFFICES ASSUME SnapshotInv, [Next]_nodes PROVE SnapshotInv' OBVIOUS
<1>1. ASSUME NEW id \in Ids, NEW node \in Node, Put(id, node) PROVE SnapshotInv'
  BY <1>1 DEF Put, SnapshotInv, Known
<1>2. ASSUME NEW id \in Ids, Delete(id) PROVE SnapshotInv'
  BY <1>2 DEF Delete, SnapshotInv, Known
<1>3. CASE UNCHANGED nodes BY <1>3 DEF SnapshotInv, Known
<1>4. Node' = Node BY DEF Node
<1> QED BY <1>1, <1>2, <1>3 DEF Next, Edit

\* The walks over a snapshot, up and down, are walks of the one tree it is
\* (client.go:202-257, catalogs.go:135-182).
THEOREM WalksAreOfOneTree == Spec => []WalksAgree
<1>1. Init => SnapshotInv BY DEF Init, SnapshotInv, Known
<1>2. SnapshotInv => WalksAgree
  <2>1. SnapshotInv => SubtreeIsBelow BY SubtreeIs DEF SubtreeIsBelow
  <2> QED BY <2>1, AncestorsStep, ClosesStep, CoherentStep DEF WalksAgree
<1> QED BY <1>1, <1>2, SnapshotStep, PTL DEF Spec

-----------------------------------------------------------------------------
(* The rules of human capital.                                             *)

\* A step as the lookup compares it.
StepRow(s) == s.min \in Int /\ s.exclusive \in BOOLEAN

\* Of three thresholds, what outranks one that a second does not outranks the
\* second.
LEMMA RankIsWeakOrder ==
  ASSUME NEW a, NEW b, NEW c, StepRow(a), StepRow(b), StepRow(c)
  PROVE  /\ ~Outranks(a, a)
         /\ Outranks(a, b) /\ ~Outranks(c, b) => Outranks(a, c)
         /\ Outranks(a, b) => ~Outranks(b, a)
<1>1. ASSUME a.min # c.min, Outranks(a, b), ~Outranks(c, b) PROVE a.min > c.min
  BY <1>1 DEF Outranks, StepRow
<1>2. ASSUME a.min = c.min, Outranks(a, b), ~Outranks(c, b) PROVE a.exclusive /\ ~c.exclusive
  BY <1>2 DEF Outranks, StepRow
<1>3. ~Outranks(a, a) BY DEF Outranks
<1>4. Outranks(a, b) => ~Outranks(b, a) BY DEF Outranks, StepRow
<1> QED BY <1>1, <1>2, <1>3, <1>4 DEF Outranks

\* Of any bands one wins.
LEMMA OneWins ==
  ASSUME NEW bands, NEW N \in Nat, \A i \in 1 .. N : StepRow(bands[i])
  PROVE  \A met \in SUBSET (1 .. N) : met # {} => \E i \in met : Wins(bands, met, i)
<1> DEFINE T == {n \in Nat : \A met \in SUBSET (1 .. N) :
                    met # {} /\ (\A i \in met : i <= n) => \E i \in met : Wins(bands, met, i)}
<1>1. 0 \in T
  <2>1. ASSUME NEW met \in SUBSET (1 .. N), met # {}, \A i \in met : i <= 0 PROVE FALSE
    <3>1. PICK i \in met : TRUE BY <2>1
    <3>2. i \in 1 .. N /\ i <= 0 BY <2>1
    <3> QED BY <3>2
  <2> QED BY <2>1
<1>2. ASSUME NEW n \in T PROVE n + 1 \in T
  <2>1. n \in Nat /\ n + 1 \in Nat OBVIOUS
  <2> SUFFICES ASSUME NEW met \in SUBSET (1 .. N), met # {}, \A i \in met : i <= n + 1
               PROVE  \E i \in met : Wins(bands, met, i)
    BY <2>1
  <2> DEFINE rest == met \ {n + 1}
  <2>2. rest \in SUBSET (1 .. N) /\ \A i \in rest : i <= n BY <2>1
  <2>3. CASE rest = {}
    <3>1. met = {n + 1} BY <2>3
    <3>2. StepRow(bands[n + 1]) BY <3>1
    <3> QED BY <2>1, <3>1, <3>2, RankIsWeakOrder DEF Wins
  <2>4. CASE rest # {}
    <3>1. PICK i \in rest : Wins(bands, rest, i) BY <2>2, <2>4
    <3>2. i \in met /\ i \in 1 .. N /\ i <= n /\ StepRow(bands[i]) BY <2>2
    <3>3. CASE n + 1 \notin met
      <4>1. rest = met BY <3>3
      <4> QED BY <3>1, <4>1
    <3>4. CASE n + 1 \in met /\ ~Outranks(bands[n + 1], bands[i])
      <4>1. ASSUME NEW j \in met
            PROVE  ~Outranks(bands[j], bands[i]) /\ (j < i => Outranks(bands[i], bands[j]))
        <5>1. CASE j = n + 1 BY <2>1, <3>2, <3>4, <5>1
        <5>2. CASE j # n + 1
          <6>1. j \in rest BY <5>2
          <6> QED BY <3>1, <6>1 DEF Wins
        <5> QED BY <5>1, <5>2
      <4> QED BY <3>2, <4>1 DEF Wins
    <3>5. CASE n + 1 \in met /\ Outranks(bands[n + 1], bands[i])
      <4>1. StepRow(bands[n + 1]) BY <3>5
      <4>2. ASSUME NEW j \in met
            PROVE  ~Outranks(bands[j], bands[n + 1]) /\ (j < n + 1 => Outranks(bands[n + 1], bands[j]))
        <5>1. CASE j = n + 1 BY <2>1, <4>1, <5>1, RankIsWeakOrder
        <5>2. CASE j # n + 1
          <6>1. j \in rest /\ StepRow(bands[j]) BY <5>2
          <6>2. ~Outranks(bands[j], bands[i]) BY <3>1, <6>1 DEF Wins
          <6>3. Outranks(bands[n + 1], bands[j]) BY <3>2, <3>5, <4>1, <6>1, <6>2, RankIsWeakOrder
          <6>4. ~Outranks(bands[j], bands[n + 1]) BY <4>1, <6>1, <6>3, RankIsWeakOrder
          <6> QED BY <6>3, <6>4
        <5> QED BY <5>1, <5>2
      <4> QED BY <3>5, <4>2 DEF Wins
    <3> QED BY <3>3, <3>4, <3>5
  <2> QED BY <2>3, <2>4
<1>3. T \in SUBSET Nat OBVIOUS
<1> HIDE DEF T
<1>4. T = Nat BY <1>1, <1>2, <1>3, AllNumbers
<1>5. N \in T BY <1>4
<1> QED BY <1>5 DEF T

\* The value of a step lookup is that of the band that wins.
Winner(bands, x) == CHOOSE i \in Met(bands, x) : Wins(bands, Met(bands, x), i)

\* The bands of a lookup, and what it finds in them.
StepBands(bands, N) == N \in Nat /\ DOMAIN bands = 1 .. N /\ \A i \in 1 .. N : StepRow(bands[i])

Looked(bands, x, none) ==
  /\ Met(bands, x) = {} => HighestMet(bands, x, none) = none
  /\ Met(bands, x) # {} =>
       /\ Winner(bands, x) \in Met(bands, x)
       /\ Wins(bands, Met(bands, x), Winner(bands, x))
       /\ HighestMet(bands, x, none) = bands[Winner(bands, x)].value

LEMMA HighestWins ==
  ASSUME NEW bands, NEW N, StepBands(bands, N), NEW x, NEW none
  PROVE  Looked(bands, x, none)
<1> DEFINE met == Met(bands, x)
           best == Winner(bands, x)
<1>1. /\ met \in SUBSET (1 .. N)
      /\ N \in Nat /\ \A i \in 1 .. N : StepRow(bands[i])
  BY DEF Met, StepBands
<1>2. HighestMet(bands, x, none) = IF met = {} THEN none ELSE bands[best].value
  BY Zenon DEF HighestMet, Winner
<1>3. ASSUME met # {} PROVE best \in met /\ Wins(bands, met, best)
  <2>1. \E i \in met : Wins(bands, met, i) BY <1>1, <1>3, OneWins
  <2> QED BY <2>1, Zenon DEF Winner
<1> HIDE DEF met, best
<1> QED BY <1>2, <1>3 DEF met, best, Looked

\* Bands of which no two are of one rank, and the same in another order.
Untied(bands, N) ==
  /\ N \in Nat /\ DOMAIN bands = 1 .. N
  /\ \A i \in 1 .. N : StepRow(bands[i])
  /\ \A i, j \in 1 .. N : i = j \/ Outranks(bands[i], bands[j]) \/ Outranks(bands[j], bands[i])

Shuffled(other, bands, order, N) ==
  /\ order \in [1 .. N -> 1 .. N] /\ \A j \in 1 .. N : \E i \in 1 .. N : order[i] = j
  /\ DOMAIN other = 1 .. N /\ \A i \in 1 .. N : other[i] = bands[order[i]]

\* No order of the bands makes a difference unless two are of one rank.
LEMMA HighestOfPermuted ==
  ASSUME NEW bands, NEW other, NEW order, NEW N, Untied(bands, N), Shuffled(other, bands, order, N),
         NEW x, NEW none
  PROVE  HighestMet(other, x, none) = HighestMet(bands, x, none)
<1> USE DEF Untied, Shuffled
<1>0. N \in Nat /\ DOMAIN bands = 1 .. N /\ \A i \in 1 .. N : StepRow(bands[i]) OBVIOUS
<1>1. DOMAIN other = 1 .. N /\ \A i \in 1 .. N : StepRow(other[i]) /\ other[i] = bands[order[i]] OBVIOUS
<1>2. ASSUME NEW i \in 1 .. N PROVE i \in Met(other, x) <=> order[i] \in Met(bands, x)
  <2>1. order[i] \in 1 .. N /\ other[i] = bands[order[i]] BY <1>1
  <2> QED BY <1>1, <2>1 DEF Met, MetBy
<1>3. Met(bands, x) \subseteq 1 .. N /\ Met(other, x) \subseteq 1 .. N BY <1>1 DEF Met
<1>4. Met(bands, x) = {} <=> Met(other, x) = {}
  <2>1. ASSUME NEW j \in Met(bands, x) PROVE Met(other, x) # {}
    <3>1. PICK i \in 1 .. N : order[i] = j BY <1>3
    <3> QED BY <1>2, <3>1
  <2>2. ASSUME NEW i \in Met(other, x) PROVE Met(bands, x) # {} BY <1>2, <1>3
  <2> QED BY <2>1, <2>2
<1>looked. Looked(bands, x, none) /\ Looked(other, x, none)
  <2>1. StepBands(bands, N) /\ StepBands(other, N) BY <1>0, <1>1 DEF StepBands
  <2> QED BY <2>1, HighestWins
<1>5. CASE Met(bands, x) = {}
  <2>1. HighestMet(bands, x, none) = none BY <1>5, <1>looked DEF Looked
  <2>2. HighestMet(other, x, none) = none BY <1>4, <1>5, <1>looked DEF Looked
  <2> QED BY <2>1, <2>2
<1>6. CASE Met(bands, x) # {}
  <2> DEFINE i == Winner(bands, x)
             k == Winner(other, x)
  <2>1. i \in Met(bands, x) /\ Wins(bands, Met(bands, x), i) /\ HighestMet(bands, x, none) = bands[i].value
    BY <1>6, <1>looked DEF Looked
  <2>2. k \in Met(other, x) /\ Wins(other, Met(other, x), k) /\ HighestMet(other, x, none) = other[k].value
    BY <1>4, <1>6, <1>looked DEF Looked
  <2> HIDE DEF i, k
  <2>3. PICK m \in 1 .. N : order[m] = i BY <1>3, <2>1
  <2>4. m \in Met(other, x) /\ k \in 1 .. N /\ i \in 1 .. N BY <1>2, <1>3, <2>1, <2>2, <2>3
  <2>5. ~Outranks(bands[i], bands[order[k]]) BY <1>1, <2>2, <2>3, <2>4 DEF Wins
  <2>6. ~Outranks(bands[order[k]], bands[i]) BY <1>2, <2>1, <2>2, <2>4 DEF Wins
  <2>7. order[k] = i BY <2>4, <2>5, <2>6
  <2> QED BY <1>1, <2>1, <2>2, <2>4, <2>7
<1> QED BY <1>5, <1>6

\* A number with nothing left over by a unit is so many of the unit.
LEMMA UnitDivides ==
  ASSUME NEW v \in Int, NEW unit \in Nat \ {0}, v % unit = 0
  PROVE  v \div unit \in Int /\ v = unit * (v \div unit)
OBVIOUS

\* A count that passes requireCount is a number, at least the least allowed.
LEMMA CountIsNat ==
  ASSUME NEW c, NEW count, c[count] \in Int, NEW atLeast \in Nat, IsCount(c, count, atLeast)
  PROVE  CountOf(c, count) \in Nat /\ CountOf(c, count) >= atLeast /\ c[count] = One * CountOf(c, count)
<1>1. One \in Nat \ {0} /\ MaxCount \in Nat \ {0} BY RulesAssumption
<1>2. /\ c[count] \in Int /\ atLeast * One <= c[count] /\ c[count] % One = 0
  BY <1>1 DEF IsCount, Whole
<1> DEFINE n == c[count] \div One
<1>3. n \in Int /\ c[count] = One * n BY <1>1, <1>2, UnitDivides
<1>4. c[count] = One * n BY <1>3
<1>5. n >= atLeast
  <2>1. ASSUME n < atLeast PROVE FALSE
    <3>1. n + 1 <= atLeast BY <1>3, <2>1
    <3>2. One * (n + 1) <= One * atLeast BY <1>1, <1>3, <3>1
    <3>3. One * (n + 1) = One * n + One BY <1>1, <1>3
    <3>4. One * atLeast = atLeast * One BY <1>1
    <3> QED BY <1>1, <1>2, <1>3, <1>4, <3>2, <3>3, <3>4
  <2> QED BY <1>3, <2>1
<1> QED BY <1>3, <1>4, <1>5 DEF CountOf

\* What a step lookup finds is a number, or what it was to find in none.
LEMMA HighestIsInt ==
  ASSUME NEW bands, NEW N \in Nat, DOMAIN bands = 1 .. N,
         \A i \in 1 .. N : StepRow(bands[i]) /\ bands[i].value \in Int,
         NEW x, NEW none
  PROVE  HighestMet(bands, x, none) \in Int \cup {none}
<1>1. Met(bands, x) \subseteq 1 .. N BY DEF Met
<1>2. \A i \in 1 .. N : StepRow(bands[i]) OBVIOUS
<1>looked. Looked(bands, x, none)
  <2>1. StepBands(bands, N) BY <1>2 DEF StepBands
  <2> QED BY <2>1, HighestWins
<1>3. CASE Met(bands, x) = {} BY <1>3, <1>looked DEF Looked
<1>4. CASE Met(bands, x) # {}
  <2>1. Winner(bands, x) \in 1 .. N /\ HighestMet(bands, x, none) = bands[Winner(bands, x)].value
    BY <1>1, <1>4, <1>looked DEF Looked
  <2> QED BY <2>1
<1> QED BY <1>3, <1>4

\* A rounded quotient is a number.
LEMMA QuotientIsInt ==
  ASSUME NEW a \in Int, NEW b \in Int, NEW unit \in Nat
  PROVE  /\ b = 0 => DivRound(a, b, unit) = Panic
         /\ b # 0 => DivRound(a, b, unit) \in Int
<1>1. ASSUME b = 0 PROVE DivRound(a, b, unit) = Panic BY <1>1 DEF DivRound
<1>2. ASSUME b # 0 PROVE DivRound(a, b, unit) \in Int
  <2> DEFINE m == IF a < 0 THEN -a ELSE a
             d == IF b < 0 THEN -b ELSE b
             q == (2 * (m * unit) + d) \div (2 * d)
  <2>1. m \in Nat /\ d \in Nat /\ d > 0 BY <1>2
  <2>2. m * unit \in Nat BY <2>1
  <2>3. 2 * (m * unit) + d \in Int /\ 2 * d \in Int /\ 2 * d > 0 BY <2>1, <2>2
  <2>4. q \in Int BY <2>3
  <2>5. DivRound(a, b, unit) = q \/ DivRound(a, b, unit) = -q BY <1>2 DEF DivRound
  <2> HIDE DEF q
  <2> QED BY <2>4, <2>5
<1> QED BY <1>1, <1>2

\* What is asked of a row before its formula answers anybody.
RowOk(kind, c) ==
  CASE kind = "preaviso_cr" ->
         /\ HasBands(c, "band_count", 0, {"min_years", "notice_days"})
         /\ \A i \in 1 .. CountOf(c, "band_count") : IsOptionalFlag(c.bands[i], "exclusive")
    [] kind = "cesantia_cr_art29" -> Art29Row(c)
    [] kind = "fixed_term_indemnity_cr" -> Coefficients(kind) \subseteq DOMAIN c /\ c.block_days > 0
    [] kind \in {"vacation_accrual_cr", "vacation_proportional"} ->
         Coefficients(kind) \subseteq DOMAIN c /\ c.weeks_base > 0
    [] kind = "vacation_period_vesting" ->
         Coefficients(kind) \subseteq DOMAIN c /\ c.period_months > 0
    [] OTHER -> Coefficients(kind) \subseteq DOMAIN c

\* A row of a step table has bands, and numbers in whatever fields they have.
LEMMA RowOfBands ==
  ASSUME NEW kind \in StepTables \cap Formulas, NEW c \in RowsOf(kind)
  PROVE  /\ "bands" \in DOMAIN c /\ Len(c.bands) \in Nat /\ DOMAIN c.bands = 1 .. Len(c.bands)
         /\ \A i \in 1 .. Len(c.bands) :
              /\ DOMAIN c.bands[i] \subseteq BandFields(kind)
              /\ \A name \in DOMAIN c.bands[i] : c.bands[i][name] \in Int
         /\ \A name \in DOMAIN c : name # "bands" /\ name # "rows" => c[name] \in Int
         /\ DOMAIN c \subseteq Coefficients(kind) \cup {"bands", "rows"}
<1>1. kind \in Formulas /\ kind \in StepTables OBVIOUS
<1>2. /\ DOMAIN c \subseteq Coefficients(kind) \cup {"bands", "rows"}
      /\ \A name \in DOMAIN c \ {"bands", "rows"} : c[name] \in Int
      /\ "bands" \in DOMAIN c /\ Len(c.bands) \in Nat /\ DOMAIN c.bands = 1 .. Len(c.bands)
      /\ \A i \in DOMAIN c.bands :
           /\ DOMAIN c.bands[i] \subseteq BandFields(kind)
           /\ \A name \in DOMAIN c.bands[i] : c.bands[i][name] \in Int
  BY <1>1, RowsAssumption
<1> QED BY <1>2

\* The bands counted, as the steps they make.
LEMMA CountedBands ==
  ASSUME NEW kind \in StepTables \cap Formulas, NEW c \in RowsOf(kind),
         NEW count, count # "bands", count # "rows", NEW atLeast \in Nat, NEW names,
         HasBands(c, count, atLeast, names)
  PROVE  /\ CountOf(c, count) \in Nat /\ CountOf(c, count) >= atLeast
         /\ c[count] = One * CountOf(c, count)
         /\ CountOf(c, count) <= Len(c.bands)
         /\ \A i \in 1 .. CountOf(c, count) :
              i \in 1 .. Len(c.bands) /\ (\A name \in names : name \in DOMAIN c.bands[i] /\ c.bands[i][name] \in Int)
<1>1. IsCount(c, count, atLeast) /\ CountOf(c, count) <= Len(c.bands)
      /\ \A i \in 1 .. CountOf(c, count) : names \subseteq DOMAIN c.bands[i]
  BY DEF HasBands, Given
<1>2. count \in DOMAIN c BY <1>1 DEF IsCount, Given
<1>3. c[count] \in Int BY <1>2, RowOfBands
<1>4. CountOf(c, count) \in Nat /\ CountOf(c, count) >= atLeast /\ c[count] = One * CountOf(c, count)
  BY <1>1, <1>3, CountIsNat
<1>5. Len(c.bands) \in Nat /\ \A i \in 1 .. Len(c.bands) : \A name \in DOMAIN c.bands[i] : c.bands[i][name] \in Int
  BY RowOfBands
<1> QED BY <1>1, <1>4, <1>5

\* A flag is up or not.
LEMMA RaisedIs == ASSUME NEW b, NEW name PROVE Raised(b, name) \in BOOLEAN
BY DEF Raised

\* Whether the preaviso fails is decided by its row alone.
LEMMA PreavisoDecides ==
  ASSUME "preaviso_cr" \in Formulas, NEW c \in RowsOf("preaviso_cr"), NEW x \in FactsOf("preaviso_cr")
  PROVE  PreavisoCR(c, x) # Error <=> RowOk("preaviso_cr", c)
<1> DEFINE bands == FirstBands(c, "band_count")
           steps == [i \in DOMAIN bands |-> PreavisoStep(bands[i])]
           n == CountOf(c, "band_count")
           ok == /\ Given(x, {"years_of_service"})
                 /\ HasBands(c, "band_count", 0, {"min_years", "notice_days"})
                 /\ \A i \in DOMAIN bands : IsOptionalFlag(bands[i], "exclusive")
<1>1. "years_of_service" \in DOMAIN x
  <2>1. Facts("preaviso_cr") \subseteq DOMAIN x BY FactsAssumption
  <2> QED BY <2>1 DEF Facts
<1>2. RowOk("preaviso_cr", c) <=> /\ HasBands(c, "band_count", 0, {"min_years", "notice_days"})
                                  /\ \A i \in 1 .. n : IsOptionalFlag(c.bands[i], "exclusive")
  BY DEF RowOk
<1>3. DOMAIN bands = 1 .. n /\ \A i \in 1 .. n : bands[i] = c.bands[i] BY DEF FirstBands
<1>4. ok <=> RowOk("preaviso_cr", c)
  BY <1>1, <1>2, <1>3 DEF Given
<1>5. PreavisoCR(c, x) = Checked(ok, HighestMet(steps, x.years_of_service, 0))
  BY Zenon DEF PreavisoCR
<1>6. ASSUME ok PROVE HighestMet(steps, x.years_of_service, 0) \in Int
  <2>1. HasBands(c, "band_count", 0, {"min_years", "notice_days"}) BY <1>6
  <2>2. "preaviso_cr" \in StepTables \cap Formulas BY DEF StepTables
  <2>3. n \in Nat /\ \A i \in 1 .. n : \A name \in {"min_years", "notice_days"} : c.bands[i][name] \in Int
    BY <2>1, <2>2, CountedBands
  <2>4. DOMAIN steps = 1 .. n BY <1>3
  <2>5. ASSUME NEW i \in 1 .. n PROVE StepRow(steps[i]) /\ steps[i].value \in Int
    <3>1. steps[i] = PreavisoStep(c.bands[i]) BY <1>3
    <3>2. c.bands[i].min_years \in Int /\ c.bands[i].notice_days \in Int BY <2>3
    <3> QED BY <3>1, <3>2, RaisedIs DEF PreavisoStep, Step, StepRow
  <2> HIDE DEF steps, n
  <2> QED BY <2>3, <2>4, <2>5, HighestIsInt
<1> HIDE DEF ok, steps
<1> QED BY <1>4, <1>5, <1>6, RulesAssumption DEF Checked

\* Whether the cesantia of art. 29 fails is decided by its row alone.
LEMMA Art29Decides ==
  ASSUME "cesantia_cr_art29" \in Formulas, NEW c \in RowsOf("cesantia_cr_art29"),
         NEW x \in FactsOf("cesantia_cr_art29")
  PROVE  CesantiaCRArt29(c, x) # Error <=> RowOk("cesantia_cr_art29", c)
<1> DEFINE kind == "cesantia_cr_art29"
<1>0. One \in Nat \ {0} /\ Error \notin Int BY RulesAssumption
<1>1. /\ {"completed_years", "remainder_months"} \subseteq DOMAIN x
      /\ x.completed_years \in Nat /\ x.completed_years % One = 0
      /\ x.remainder_months \in Nat /\ x.remainder_months < 12 * One
  <2>1. /\ Facts(kind) \subseteq DOMAIN x
        /\ \A name \in DOMAIN x : x[name] \in Int /\ x[name] >= 0
        /\ x.completed_years % One = 0 /\ x.remainder_months < 12 * One
    BY FactsAssumption
  <2>2. Facts(kind) = {"completed_years", "remainder_months"} BY DEF Facts
  <2> QED BY <2>1, <2>2
<1>2. Art29Tenure(x) BY <1>0, <1>1 DEF Art29Tenure, Given, Whole
<1>3. RowOk(kind, c) <=> Art29Row(c) BY DEF RowOk
<1> DEFINE months == x.remainder_months
           years == x.completed_years
<1>4. ASSUME Art29Row(c), years = 0 PROVE Art29SubYear(c, months) \in Int
  <2> DEFINE bands == FirstBands(c, "sub_year_band_count")
             steps == [i \in DOMAIN bands |-> Art29Step(bands[i])]
             n == CountOf(c, "sub_year_band_count")
  <2>1. HasBands(c, "sub_year_band_count", 0, {"min_months", "days"}) BY <1>4 DEF Art29Row
  <2>2. kind \in StepTables \cap Formulas BY DEF StepTables
  <2>3. n \in Nat /\ \A i \in 1 .. n : \A name \in {"min_months", "days"} : c.bands[i][name] \in Int
    BY <2>1, <2>2, CountedBands
  <2>4. DOMAIN bands = 1 .. n /\ \A i \in 1 .. n : bands[i] = c.bands[i] BY DEF FirstBands
  <2>5. ASSUME NEW i \in 1 .. n PROVE StepRow(steps[i]) /\ steps[i].value \in Int
    <3>1. steps[i] = Art29Step(c.bands[i]) BY <2>4
    <3>2. c.bands[i].min_months \in Int /\ c.bands[i].days \in Int BY <2>3
    <3> DEFINE strictly == ~Raised(c.bands[i], "inclusive")
    <3>3. strictly \in BOOLEAN OBVIOUS
    <3>4. steps[i] = [min |-> c.bands[i].min_months, exclusive |-> strictly, value |-> c.bands[i].days]
      BY <3>1 DEF Art29Step, Step
    <3> HIDE DEF strictly, steps
    <3> QED BY <3>2, <3>3, <3>4 DEF StepRow
  <2>6. Art29SubYear(c, months) = One * HighestMet(steps, months, 0) BY Zenon DEF Art29SubYear
  <2>7. DOMAIN steps = 1 .. n BY <2>4
  <2> HIDE DEF steps, n
  <2>8. HighestMet(steps, months, 0) \in Int BY <2>3, <2>5, <2>7, HighestIsInt
  <2> QED BY <1>0, <2>6, <2>8
<1>5. ASSUME Art29Row(c), years # 0
      PROVE  Art29Rate(c, years) \in Int /\ Art29Counted(c, years, months) \in Int
  <2> DEFINE k == Least(CountOf(c, "row_count"), years \div One)
  <2>1. /\ \A i \in DOMAIN c.rows : c.rows[i] \in Int
        /\ \A name \in DOMAIN c \ {"bands", "rows"} : c[name] \in Int
    BY RowsAssumption
  <2>2. /\ IsCount(c, "row_count", 1) /\ 1 .. CountOf(c, "row_count") \subseteq DOMAIN c.rows
        /\ {"row_count", "cap_years", "fraction_min_months"} \subseteq DOMAIN c
    BY <1>5 DEF Art29Row, IsCount, Given
  <2>3. CountOf(c, "row_count") \in Nat /\ CountOf(c, "row_count") >= 1 BY <2>1, <2>2, CountIsNat
  <2>4. years \div One \in Int /\ years = One * (years \div One) BY <1>0, <1>1, UnitDivides
  <2>5. years \div One >= 1
    <3> DEFINE q == years \div One
    <3>1. ASSUME q <= 0 PROVE FALSE
      <4>1. One * q <= 0 BY <1>0, <2>4, <3>1
      <4> QED BY <1>1, <1>5, <2>4, <4>1
    <3> HIDE DEF q
    <3> QED BY <2>4, <3>1 DEF q
  <2>6. k \in DOMAIN c.rows
    <3>1. k \in 1 .. CountOf(c, "row_count") BY <2>3, <2>4, <2>5 DEF Least
    <3> HIDE DEF k
    <3> QED BY <2>2, <3>1
  <2>7. Art29Rate(c, years) \in Int BY <2>1, <2>6 DEF Art29Rate
  <2>8. c.cap_years \in Int BY <2>1, <2>2
  <2>9. Art29Counted(c, years, months) \in Int BY <1>0, <1>1, <2>8 DEF Art29Counted, Least
  <2> QED BY <2>7, <2>9
<1>6. ASSUME Art29Row(c) PROVE CesantiaCRArt29(c, x) \in Int
  <2>1. CASE years = 0 BY <1>2, <1>4, <1>6, <2>1 DEF CesantiaCRArt29, Checked
  <2>2. CASE years # 0
    <3>1. CesantiaCRArt29(c, x) = Art29Rate(c, years) * Art29Counted(c, years, months)
      BY <1>2, <1>6, <2>2 DEF CesantiaCRArt29, Checked
    <3> QED BY <1>5, <1>6, <2>2, <3>1
  <2> QED BY <2>1, <2>2
<1>7. ASSUME ~Art29Row(c) PROVE CesantiaCRArt29(c, x) = Error
  BY <1>7 DEF CesantiaCRArt29, Checked
<1> QED BY <1>0, <1>3, <1>6, <1>7

\* No more units make no higher number.
LEMMA UnitsInOrder ==
  ASSUME NEW unit \in Nat \ {0}, NEW i \in Nat, NEW m \in Nat, unit * i <= unit * m
  PROVE  i <= m
<1>1. ASSUME i >= m + 1 PROVE FALSE
  <2>1. unit * i >= unit * (m + 1) BY <1>1
  <2>2. unit * (m + 1) = unit * m + unit OBVIOUS
  <2>3. unit * i \in Int /\ unit * m \in Int OBVIOUS
  <2> QED BY <2>1, <2>2, <2>3
<1> QED BY <1>1

\* The share of an absence fails by its row, or for a day before every band.
AbsenceRowOk(c) ==
  LET bands == FirstBands(c, "band_count")
  IN /\ HasBands(c, "band_count", 1, {"from_day", "rate"})
     /\ \A i \in DOMAIN bands : Whole(bands[i].from_day) /\ bands[i].from_day >= One
     /\ \A i, j \in DOMAIN bands : bands[i].from_day = bands[j].from_day => i = j

LEMMA AbsenceDecides ==
  ASSUME "absence_employer_share" \in Formulas, NEW c \in RowsOf("absence_employer_share"),
         NEW x \in FactsOf("absence_employer_share")
  PROVE  /\ AbsenceEmployerShare(c, x) # Error => AbsenceRowOk(c)
         /\ AbsenceRowOk(c) /\ AbsenceEmployerShare(c, x) = Error =>
              BeforeEveryBand("absence_employer_share", c, x)
<1> DEFINE kind == "absence_employer_share"
           bands == FirstBands(c, "band_count")
           steps == [i \in DOMAIN bands |-> Step(bands[i].from_day, FALSE, bands[i].rate)]
           n == CountOf(c, "band_count")
<1>1. /\ "absence_day_index" \in DOMAIN x /\ x.absence_day_index \in Int
      /\ x.absence_day_index % One = 0 /\ x.absence_day_index >= One
  <2>1. Facts(kind) \subseteq DOMAIN x /\ \A name \in DOMAIN x : x[name] \in Int BY FactsAssumption
  <2>2. x.absence_day_index % One = 0 /\ x.absence_day_index >= One BY FactsAssumption
  <2>3. Facts(kind) = {"absence_day_index"} BY DEF Facts
  <2> QED BY <2>1, <2>2, <2>3
<1>2. AbsenceEmployerShare(c, x) = Checked(AbsenceRowOk(c), HighestMet(steps, x.absence_day_index, Error))
  <2>1. AbsenceEmployerShare(c, x) =
          Checked(/\ Given(x, {"absence_day_index"})
                  /\ Whole(x.absence_day_index) /\ x.absence_day_index >= One
                  /\ HasBands(c, "band_count", 1, {"from_day", "rate"})
                  /\ \A i \in DOMAIN bands : Whole(bands[i].from_day) /\ bands[i].from_day >= One
                  /\ \A i, j \in DOMAIN bands : bands[i].from_day = bands[j].from_day => i = j,
                  HighestMet(steps, x.absence_day_index, Error))
    BY Zenon DEF AbsenceEmployerShare
  <2>2. Given(x, {"absence_day_index"}) /\ Whole(x.absence_day_index) BY <1>1 DEF Given, Whole
  <2> HIDE DEF steps
  <2> QED BY <1>1, <2>1, <2>2 DEF AbsenceRowOk, Checked
<1>3. ASSUME AbsenceRowOk(c), HighestMet(steps, x.absence_day_index, Error) = Error
      PROVE  BeforeEveryBand(kind, c, x)
  <2>1. HasBands(c, "band_count", 1, {"from_day", "rate"}) BY <1>3 DEF AbsenceRowOk
  <2>2. kind \in StepTables \cap Formulas BY DEF StepTables
  <2>3. /\ n \in Nat /\ c["band_count"] = One * n
        /\ \A i \in 1 .. n : \A name \in {"from_day", "rate"} : c.bands[i][name] \in Int
    BY <2>1, <2>2, CountedBands
  <2>4. DOMAIN bands = 1 .. n /\ \A i \in 1 .. n : bands[i] = c.bands[i] BY DEF FirstBands
  <2> DEFINE S == [i \in 1 .. n |-> Step(c.bands[i].from_day, FALSE, c.bands[i].rate)]
  <2>5. steps = S BY <2>4
  <2>6. DOMAIN S = 1 .. n /\ \A i \in 1 .. n :
          /\ S[i].min = c.bands[i].from_day /\ S[i].exclusive = FALSE /\ S[i].value = c.bands[i].rate
    BY DEF Step
  <2> HIDE DEF S, steps
  <2>7. \A i \in 1 .. n : StepRow(S[i]) /\ S[i].value \in Int BY <2>3, <2>6 DEF StepRow
  <2> DEFINE met == Met(S, x.absence_day_index)
  <2>8. ASSUME met # {} PROVE FALSE
    <3>1. met \subseteq 1 .. n BY <2>6 DEF Met
    <3>2. PICK i \in met : i = CHOOSE j \in met : Wins(S, met, j)
      <4>1. \E j \in met : Wins(S, met, j) BY <2>3, <2>7, <2>8, <3>1, OneWins
      <4> QED BY <4>1, Zenon
    <3>3. HighestMet(S, x.absence_day_index, Error) = S[i].value
      <4> DEFINE best == CHOOSE j \in met : Wins(S, met, j)
      <4>1. HighestMet(S, x.absence_day_index, Error) = IF met = {} THEN Error ELSE S[best].value
        BY Zenon DEF HighestMet
      <4> HIDE DEF met
      <4> QED BY <2>8, <3>2, <4>1
    <3>4. S[i].value \in Int BY <2>7, <3>1
    <3> QED BY <1>3, <2>5, <3>3, <3>4, RulesAssumption
  <2>9. ASSUME NEW i \in Counted(kind, c) PROVE x.absence_day_index < c.bands[i].from_day
    <3>1. i \in DOMAIN c.bands /\ One * i <= One * n BY <2>3, <2>9 DEF Counted, CountKey
    <3>2. i \in Nat /\ i >= 1 BY <2>2, <3>1, RowOfBands
    <3>3. One \in Nat \ {0} BY RulesAssumption
    <3>4. i <= n BY <2>3, <3>1, <3>2, <3>3, UnitsInOrder
    <3>5. i \in 1 .. n BY <2>3, <3>2, <3>4
    <3>6. i \notin met BY <2>8
    <3>7. ~MetBy(S[i], x.absence_day_index) BY <2>6, <3>5, <3>6 DEF Met
    <3>8. c.bands[i].from_day \in Int BY <2>3, <3>5
    <3> QED BY <1>1, <2>6, <3>5, <3>7, <3>8 DEF MetBy
  <2> QED BY <2>9 DEF BeforeEveryBand
<1> HIDE DEF steps
<1> QED BY <1>2, <1>3 DEF Checked

\* The kinds without bands, and all kinds of the registry.
BandlessKinds == {"aguinaldo_cr", "thirteenth_br", "fixed_term_indemnity_cr", "aviso_previo_br", "fgts_br",
           "overtime", "min_wage_higher_of_us", "vacation_accrual_cr", "vacation_proportional",
           "vacation_period_vesting"}

\* Of finitely many numbers one is the highest.
LEMMA SomeFactIsTop ==
  ASSUME NEW x, DOMAIN x # {}, IsFiniteSet(DOMAIN x), \A name \in DOMAIN x : x[name] \in Int
  PROVE  \E v \in {x[name] : name \in DOMAIN x} : \A name \in DOMAIN x : x[name] <= v
<1> DEFINE N == Cardinality(DOMAIN x)
<1>1. N \in Nat /\ ExistsBijection(1 .. N, DOMAIN x) BY FS_CardinalityType
<1>2. PICK f : f \in Bijection(1 .. N, DOMAIN x) BY <1>1 DEF ExistsBijection
<1>3. /\ \A i \in 1 .. N : f[i] \in DOMAIN x
      /\ \A name \in DOMAIN x : \E i \in 1 .. N : f[i] = name
  BY <1>2 DEF Bijection, Surjection, Injection
<1> DEFINE bands == [i \in 1 .. N |-> Step(x[f[i]], FALSE, 0)]
<1>4. \A i \in 1 .. N : bands[i].min = x[f[i]] /\ x[f[i]] \in Int /\ bands[i].exclusive = FALSE
  BY <1>3 DEF Step
<1> HIDE DEF N, bands
<1>5. \A i \in 1 .. N : StepRow(bands[i]) BY <1>4 DEF StepRow
<1>6. 1 .. N # {} BY <1>3
<1>7. PICK i \in 1 .. N : Wins(bands, 1 .. N, i) BY <1>1, <1>5, <1>6, OneWins
<1>8. ASSUME NEW name \in DOMAIN x PROVE x[name] <= x[f[i]]
  <2>1. PICK j \in 1 .. N : f[j] = name BY <1>3
  <2>2. ~Outranks(bands[j], bands[i]) BY <1>7 DEF Wins
  <2> QED BY <1>4, <2>1, <2>2 DEF Outranks
<1> QED BY <1>3, <1>8

\* What the formulas without bands work out is a number, or a division by zero.
LEMMA SimpleDecides ==
  ASSUME NEW kind \in BandlessKinds \cap Formulas, NEW c \in RowsOf(kind), NEW x \in FactsOf(kind)
  PROVE  EvalFormula(kind, c, x) # Error <=> RowOk(kind, c)
<1>1. /\ One \in Nat \ {0} /\ Precision \in Nat \ {0} /\ Error \notin Int /\ Panic \notin Int
      /\ Panic # Error
  BY RulesAssumption
<1>2. /\ Facts(kind) \subseteq DOMAIN x /\ DOMAIN x # {}
      /\ IsFiniteSet(DOMAIN x)
      /\ \A name \in DOMAIN x : x[name] \in Int
      /\ kind \in {"fixed_term_indemnity_cr", "vacation_period_vesting"} => \A name \in DOMAIN x : x[name] >= 0
  <2>1. kind \in Formulas OBVIOUS
  <2> QED BY <2>1, FactsAssumption
<1>3. \A name \in Coefficients(kind) : name \in DOMAIN c => c[name] \in Int
  <2>1. kind \in Formulas OBVIOUS
  <2>2. \A name \in DOMAIN c \ {"bands", "rows"} : c[name] \in Int BY <2>1, RowsAssumption
  <2>3. "bands" \notin Coefficients(kind) /\ "rows" \notin Coefficients(kind) BY DEF Coefficients, BandlessKinds
  <2> QED BY <2>2, <2>3
<1>4. CASE kind = "aguinaldo_cr"
  <2>1. EvalFormula(kind, c, x) = AguinaldoCR(c, x) BY <1>4 DEF EvalFormula
  <2>2. Facts(kind) = {"total_annual_salary"} /\ Coefficients(kind) = {"divisor"} BY <1>4 DEF Facts, Coefficients
  <2>3. RowOk(kind, c) <=> "divisor" \in DOMAIN c BY <1>4, <2>2 DEF RowOk
  <2>4. ASSUME "divisor" \in DOMAIN c PROVE DivRound(x.total_annual_salary, c.divisor, Precision) \in Int \cup {Panic}
    <3>1. x.total_annual_salary \in Int /\ c.divisor \in Int BY <1>2, <1>3, <2>2, <2>4
    <3> QED BY <1>1, <3>1, QuotientIsInt
  <2> QED BY <1>1, <1>2, <2>1, <2>2, <2>3, <2>4 DEF AguinaldoCR, Checked, Given
<1>5. CASE kind = "thirteenth_br"
  <2>1. EvalFormula(kind, c, x) = ThirteenthBR(c, x) BY <1>5 DEF EvalFormula
  <2>2. Facts(kind) = {"monthly_salary", "months_worked"} /\ Coefficients(kind) = {"divisor"}
    BY <1>5 DEF Facts, Coefficients
  <2>3. RowOk(kind, c) <=> "divisor" \in DOMAIN c BY <1>5, <2>2 DEF RowOk
  <2> DEFINE twelfth == DivRound(x.monthly_salary, c.divisor, Precision)
  <2>4. ASSUME "divisor" \in DOMAIN c PROVE twelfth \in Int \cup {Panic}
    <3>1. x.monthly_salary \in Int /\ c.divisor \in Int BY <1>2, <1>3, <2>2, <2>4
    <3> QED BY <1>1, <3>1, QuotientIsInt
  <2>5. ThirteenthBR(c, x) =
          Checked(Given(x, {"monthly_salary", "months_worked"}) /\ Given(c, {"divisor"}),
                  IF twelfth = Panic THEN Panic ELSE twelfth * x.months_worked)
    BY Zenon DEF ThirteenthBR
  <2>6. x.months_worked \in Int BY <1>2, <2>2
  <2> HIDE DEF twelfth
  <2>7. ASSUME twelfth \in Int PROVE twelfth * x.months_worked \in Int BY <2>6, <2>7
  <2> QED BY <1>1, <1>2, <2>1, <2>2, <2>3, <2>4, <2>5, <2>7 DEF Checked, Given
<1>6. CASE kind = "fixed_term_indemnity_cr"
  <2>1. EvalFormula(kind, c, x) = FixedTermIndemnityCR(c, x) BY <1>6 DEF EvalFormula
  <2>2. /\ Facts(kind) = {"days_worked", "contract_months"}
        /\ Coefficients(kind)
             = {"block_days", "days_per_block", "min_days", "min_days_long", "long_contract_months"}
    BY <1>6 DEF Facts, Coefficients
  <2>3. RowOk(kind, c) <=> Coefficients(kind) \subseteq DOMAIN c /\ c.block_days > 0 BY <1>6 DEF RowOk
  <2>4. /\ x.days_worked \in Int /\ x.contract_months \in Int
        /\ x.days_worked >= 0 /\ x.contract_months >= 0
    BY <1>2, <1>6, <2>2
  <2> DEFINE owed == Greatest(BlocksBegun(x.days_worked, c.block_days) * c.days_per_block,
                              IF x.contract_months >= c.long_contract_months THEN c.min_days_long
                              ELSE c.min_days)
  <2>5. ASSUME RowOk(kind, c) PROVE owed \in Int
    <3>1. /\ c.block_days \in Int /\ c.block_days > 0 /\ c.days_per_block \in Int /\ c.min_days \in Int
          /\ c.min_days_long \in Int
      BY <1>3, <2>2, <2>3, <2>5
    <3>2. BlocksBegun(x.days_worked, c.block_days) \in Int BY <2>4, <3>1 DEF BlocksBegun
    <3>3. BlocksBegun(x.days_worked, c.block_days) * c.days_per_block \in Int BY <3>1, <3>2
    <3> QED BY <3>1, <3>3 DEF Greatest
  <2>6. Given(x, {"days_worked", "contract_months"}) BY <1>2, <2>2 DEF Given
  <2>7. FixedTermIndemnityCR(c, x) =
          Checked(/\ Given(x, {"days_worked", "contract_months"})
                  /\ x.days_worked >= 0 /\ x.contract_months >= 0
                  /\ Given(c, {"block_days", "days_per_block", "min_days", "min_days_long",
                               "long_contract_months"})
                  /\ c.block_days > 0, owed)
    BY Zenon DEF FixedTermIndemnityCR
  <2> HIDE DEF owed
  <2> QED BY <1>1, <2>1, <2>2, <2>3, <2>4, <2>5, <2>6, <2>7 DEF Checked, Given
<1>7. CASE kind = "aviso_previo_br"
  <2>1. EvalFormula(kind, c, x) = AvisoPrevioBR(c, x) BY <1>7 DEF EvalFormula
  <2>2. Facts(kind) = {"years_of_service"} /\ Coefficients(kind) = {"base_days", "per_year_days", "cap_days"}
    BY <1>7 DEF Facts, Coefficients
  <2>3. RowOk(kind, c) <=> Coefficients(kind) \subseteq DOMAIN c BY <1>7 DEF RowOk
  <2> DEFINE owed == Least(One * c.base_days + c.per_year_days * x.years_of_service, One * c.cap_days)
  <2>4. ASSUME RowOk(kind, c) PROVE owed \in Int
    <3>1. /\ c.base_days \in Int /\ c.per_year_days \in Int /\ c.cap_days \in Int
          /\ x.years_of_service \in Int
      BY <1>2, <1>3, <2>2, <2>3, <2>4
    <3>2. /\ One * c.base_days \in Int /\ One * c.cap_days \in Int
          /\ c.per_year_days * x.years_of_service \in Int
      BY <1>1, <3>1
    <3> QED BY <3>2 DEF Least
  <2>5. AvisoPrevioBR(c, x) = Checked(Given(x, {"years_of_service"})
                                        /\ Given(c, {"base_days", "per_year_days", "cap_days"}), owed)
    BY Zenon DEF AvisoPrevioBR
  <2> HIDE DEF owed
  <2> QED BY <1>1, <1>2, <2>1, <2>2, <2>3, <2>4, <2>5 DEF Checked, Given
<1>8. CASE kind = "fgts_br"
  <2>1. EvalFormula(kind, c, x) = FgtsBR(c, x) BY <1>8 DEF EvalFormula
  <2>2. Facts(kind) = {"base"} /\ Coefficients(kind) = {"rate"} BY <1>8 DEF Facts, Coefficients
  <2>3. RowOk(kind, c) <=> Coefficients(kind) \subseteq DOMAIN c BY <1>8 DEF RowOk
  <2>4. ASSUME RowOk(kind, c) PROVE x.base * c.rate \in Int
    <3>1. x.base \in Int /\ c.rate \in Int BY <1>2, <1>3, <2>2, <2>3, <2>4
    <3> QED BY <3>1
  <2> QED BY <1>1, <1>2, <2>1, <2>2, <2>3, <2>4 DEF FgtsBR, Checked, Given
<1>9. CASE kind = "overtime"
  <2>1. EvalFormula(kind, c, x) = Overtime(c, x) BY <1>9 DEF EvalFormula
  <2>2. Facts(kind) = {"ordinary_hourly_rate", "overtime_hours"} /\ Coefficients(kind) = {"multiplier"}
    BY <1>9 DEF Facts, Coefficients
  <2>3. RowOk(kind, c) <=> Coefficients(kind) \subseteq DOMAIN c BY <1>9 DEF RowOk
  <2> DEFINE owed == x.ordinary_hourly_rate * c.multiplier * x.overtime_hours
  <2>4. ASSUME RowOk(kind, c) PROVE owed \in Int
    <3>1. x.ordinary_hourly_rate \in Int /\ x.overtime_hours \in Int /\ c.multiplier \in Int
      BY <1>2, <1>3, <2>2, <2>3, <2>4
    <3>2. x.ordinary_hourly_rate * c.multiplier \in Int BY <3>1
    <3> QED BY <3>1, <3>2
  <2>5. Overtime(c, x) = Checked(Given(x, {"ordinary_hourly_rate", "overtime_hours"})
                                   /\ Given(c, {"multiplier"}), owed)
    BY Zenon DEF Overtime
  <2> HIDE DEF owed
  <2> QED BY <1>1, <1>2, <2>1, <2>2, <2>3, <2>4, <2>5 DEF Checked, Given
<1>12. CASE kind \in {"vacation_accrual_cr", "vacation_proportional"}
  <2>1. EvalFormula(kind, c, x) = VacationProportional(c, x) BY <1>12 DEF EvalFormula
  <2>2. Facts(kind) = {"weeks_worked"} /\ Coefficients(kind) = {"entitlement_days", "weeks_base"}
    BY <1>12 DEF Facts, Coefficients
  <2>3. RowOk(kind, c) <=> Coefficients(kind) \subseteq DOMAIN c /\ c.weeks_base > 0 BY <1>12 DEF RowOk
  <2> DEFINE owed == DivRound(c.entitlement_days * x.weeks_worked, One * c.weeks_base, Precision)
  <2>4. ASSUME RowOk(kind, c) PROVE owed \in Int
    <3>1. c.entitlement_days \in Int /\ c.weeks_base \in Int /\ c.weeks_base > 0 /\ x.weeks_worked \in Int
      BY <1>2, <1>3, <2>2, <2>3, <2>4
    <3>2. c.entitlement_days * x.weeks_worked \in Int /\ One * c.weeks_base \in Int /\ One * c.weeks_base # 0
      BY <1>1, <3>1
    <3> QED BY <1>1, <3>2, QuotientIsInt
  <2>5. VacationProportional(c, x) =
          Checked(Given(x, {"weeks_worked"}) /\ Given(c, {"entitlement_days", "weeks_base"})
                    /\ c.weeks_base > 0, owed)
    BY Zenon DEF VacationProportional
  <2> HIDE DEF owed
  <2> QED BY <1>1, <1>2, <2>1, <2>2, <2>3, <2>4, <2>5 DEF Checked, Given
<1>13. CASE kind = "vacation_period_vesting"
  <2>1. EvalFormula(kind, c, x) = VacationPeriodVesting(c, x) BY <1>13 DEF EvalFormula
  <2>2. Facts(kind) = {"months_of_service"} /\ Coefficients(kind) = {"days_per_period", "period_months"}
    BY <1>13 DEF Facts, Coefficients
  <2>3. RowOk(kind, c) <=> Coefficients(kind) \subseteq DOMAIN c /\ c.period_months > 0 BY <1>13 DEF RowOk
  <2>4. x.months_of_service \in Int /\ x.months_of_service >= 0 BY <1>2, <1>13, <2>2
  <2> DEFINE owed == c.days_per_period * PeriodsCompleted(x.months_of_service, c.period_months)
  <2>5. ASSUME RowOk(kind, c) PROVE owed \in Int
    <3>1. c.days_per_period \in Int /\ c.period_months \in Int /\ c.period_months # 0
      BY <1>3, <2>2, <2>3, <2>5
    <3>2. DivRound(x.months_of_service, c.period_months, Precision) \in Int BY <1>1, <2>4, <3>1, QuotientIsInt
    <3>3. PeriodsCompleted(x.months_of_service, c.period_months) \in Int BY <1>1, <3>2 DEF PeriodsCompleted
    <3> QED BY <3>1, <3>3
  <2>6. VacationPeriodVesting(c, x) =
          Checked(/\ Given(x, {"months_of_service"}) /\ Given(c, {"days_per_period", "period_months"})
                  /\ c.period_months > 0 /\ x.months_of_service >= 0, owed)
    BY Zenon DEF VacationPeriodVesting
  <2> HIDE DEF owed
  <2> QED BY <1>1, <1>2, <2>1, <2>2, <2>3, <2>4, <2>5, <2>6 DEF Checked, Given
<1>14. CASE kind = "min_wage_higher_of_us"
  <2>1. EvalFormula(kind, c, x) = MinWageHigherOfUS(c, x) BY <1>14 DEF EvalFormula
  <2>2. RowOk(kind, c)
    <3>1. Coefficients(kind) = {} BY <1>14 DEF Coefficients
    <3> QED BY <1>14, <3>1 DEF RowOk
  <2> DEFINE top == CHOOSE v \in {x[name] : name \in DOMAIN x} : \A name \in DOMAIN x : x[name] <= v
  <2>3. \E v \in {x[name] : name \in DOMAIN x} : \A name \in DOMAIN x : x[name] <= v BY <1>2, SomeFactIsTop
  <2>4. top \in {x[name] : name \in DOMAIN x} BY <2>3, Zenon
  <2>5. MinWageHigherOfUS(c, x) = top BY <1>2, Zenon DEF MinWageHigherOfUS, Checked
  <2> HIDE DEF top
  <2> QED BY <1>1, <1>2, <2>1, <2>2, <2>4, <2>5
<1> QED BY <1>4, <1>5, <1>6, <1>7, <1>8, <1>9, <1>12, <1>13, <1>14 DEF BandlessKinds

KnownKinds == BandlessKinds \cup {"preaviso_cr", "cesantia_cr_art29", "cesantia_cr", "absence_employer_share"}

\* A kind the registry does not have always fails.
LEMMA UnknownFails ==
  ASSUME NEW kind, kind \notin KnownKinds, NEW c, NEW x
  PROVE  EvalFormula(kind, c, x) = Error
BY DEF EvalFormula, KnownKinds, BandlessKinds

\* Whether a formula fails is decided by its row alone.
LEMMA RowDecides ==
  ASSUME NEW kind \in Formulas \ {"cesantia_cr", "absence_employer_share"}, NEW c \in RowsOf(kind),
         NEW x \in FactsOf(kind)
  PROVE  EvalFormula(kind, c, x) # Error <=> kind \in KnownKinds /\ RowOk(kind, c)
<1>1. CASE kind \in BandlessKinds BY <1>1, SimpleDecides DEF KnownKinds
<1>2. CASE kind = "preaviso_cr"
  <2>1. EvalFormula(kind, c, x) = PreavisoCR(c, x) BY <1>2 DEF EvalFormula
  <2> QED BY <1>2, <2>1, PreavisoDecides DEF KnownKinds
<1>3. CASE kind = "cesantia_cr_art29"
  <2>1. EvalFormula(kind, c, x) = CesantiaCRArt29(c, x) BY <1>3 DEF EvalFormula
  <2> QED BY <1>3, <2>1, Art29Decides DEF KnownKinds
<1>4. CASE kind \notin KnownKinds BY <1>4, UnknownFails
<1> QED BY <1>1, <1>2, <1>3, <1>4 DEF KnownKinds

\* Without any one of the coefficients it reads a formula fails.
LEMMA WithoutOneFails ==
  ASSUME NEW kind, NEW c, NEW x, NEW name \in Coefficients(kind), name \notin DOMAIN c
  PROVE  EvalFormula(kind, c, x) = Error
<1>1. CASE kind = "preaviso_cr"
  <2>1. EvalFormula(kind, c, x) = PreavisoCR(c, x) BY <1>1 DEF EvalFormula
  <2>2. ~HasBands(c, "band_count", 0, {"min_years", "notice_days"})
    BY <1>1 DEF Coefficients, HasBands, IsCount, Given
  <2> QED BY <2>1, <2>2 DEF PreavisoCR, Checked
<1>2. CASE kind = "absence_employer_share"
  <2>1. EvalFormula(kind, c, x) = AbsenceEmployerShare(c, x) BY <1>2 DEF EvalFormula
  <2>2. ~HasBands(c, "band_count", 1, {"from_day", "rate"})
    BY <1>2 DEF Coefficients, HasBands, IsCount, Given
  <2> QED BY <2>1, <2>2 DEF AbsenceEmployerShare, Checked
<1>3. CASE kind = "cesantia_cr_art29"
  <2>1. EvalFormula(kind, c, x) = CesantiaCRArt29(c, x) BY <1>3 DEF EvalFormula
  <2>2. ~Art29Row(c)
    BY <1>3 DEF Coefficients, Art29Row, HasBands, IsCount, IsFlag, Given
  <2> QED BY <2>1, <2>2 DEF CesantiaCRArt29, Checked
<1>4. CASE kind = "aguinaldo_cr"
  BY <1>4 DEF EvalFormula, Coefficients, AguinaldoCR, Checked, Given
<1>5. CASE kind = "thirteenth_br"
  <2>1. EvalFormula(kind, c, x) = ThirteenthBR(c, x) BY <1>5 DEF EvalFormula
  <2>2. ~Given(c, {"divisor"}) BY <1>5 DEF Coefficients, Given
  <2> QED BY <2>1, <2>2 DEF ThirteenthBR, Checked
<1>6. CASE kind = "fixed_term_indemnity_cr"
  BY <1>6 DEF EvalFormula, Coefficients, FixedTermIndemnityCR, Checked, Given
<1>7. CASE kind = "aviso_previo_br"
  BY <1>7 DEF EvalFormula, Coefficients, AvisoPrevioBR, Checked, Given
<1>8. CASE kind = "fgts_br" BY <1>8 DEF EvalFormula, Coefficients, FgtsBR, Checked, Given
<1>9. CASE kind = "overtime" BY <1>9 DEF EvalFormula, Coefficients, Overtime, Checked, Given
<1>10. CASE kind \in {"vacation_accrual_cr", "vacation_proportional"}
  BY <1>10 DEF EvalFormula, Coefficients, VacationProportional, Checked, Given
<1>11. CASE kind = "vacation_period_vesting"
  BY <1>11 DEF EvalFormula, Coefficients, VacationPeriodVesting, Checked, Given
<1>12. CASE kind = "min_wage_higher_of_us" BY <1>12 DEF Coefficients
<1>13. CASE kind \notin KnownKinds BY <1>13, UnknownFails
<1>14. CASE kind = "cesantia_cr"
  <2>1. EvalFormula(kind, c, x) = CesantiaCR(c, x) BY <1>14 DEF EvalFormula
  <2>2. ~Given(c, {"cap_years", "band_count"}) BY <1>14 DEF Coefficients, Given
  <2> QED BY <2>1, <2>2 DEF CesantiaCR, Checked
<1> QED
  BY <1>1, <1>2, <1>3, <1>4, <1>5, <1>6, <1>7, <1>8, <1>9, <1>10, <1>11, <1>12, <1>13, <1>14
  DEF KnownKinds, BandlessKinds

\* A broken row fails for all, but for a day that an absence's table lacks.
LEMMA FailsForAll == RulesInv => RowFailsForAll
<1> SUFFICES ASSUME RulesInv, rule # NoRow, rule.kind \in Formulas \ {"cesantia_cr"},
                    NEW x \in FactsOf(rule.kind), NEW y \in FactsOf(rule.kind),
                    Owed(rule.row, x) = Error, Owed(rule.row, y) # Error
             PROVE  BeforeEveryBand(rule.kind, rule.row, x)
  BY DEF RowFailsForAll
<1>1. rule.row \in RowsOf(rule.kind) BY DEF RulesInv
<1>2. CASE rule.kind # "absence_employer_share" BY <1>1, <1>2, RowDecides DEF Owed
<1>3. CASE rule.kind = "absence_employer_share"
  <2>1. /\ AbsenceEmployerShare(rule.row, x) = Error
        /\ AbsenceEmployerShare(rule.row, y) # Error
    BY <1>3 DEF Owed, EvalFormula
  <2>2. AbsenceRowOk(rule.row) BY <1>1, <1>3, <2>1, AbsenceDecides
  <2> QED BY <1>1, <1>3, <2>1, <2>2, AbsenceDecides
<1> QED BY <1>2, <1>3

\* A row without one of a counted band's fields does not have its bands.
LEMMA BandWithoutOne ==
  ASSUME NEW kind \in StepTables \cap Formulas, NEW c \in RowsOf(kind),
         NEW i \in Counted(kind, c), NEW name,
         NEW d, d = [c EXCEPT !.bands[i] = Without(@, name)], NEW atLeast \in Nat
  PROVE  /\ i \in Nat \ {0} /\ name \notin DOMAIN d.bands[i]
         /\ IsCount(d, CountKey(kind), atLeast) => i \in 1 .. CountOf(d, CountKey(kind))
<1> DEFINE key == CountKey(kind)
<1>1. /\ "bands" \in DOMAIN c /\ Len(c.bands) \in Nat /\ DOMAIN c.bands = 1 .. Len(c.bands)
      /\ \A n \in DOMAIN c : n # "bands" /\ n # "rows" => c[n] \in Int
  BY RowOfBands
<1>2. i \in DOMAIN c.bands /\ key \in DOMAIN c /\ One * i <= c[key] BY DEF Counted, Given
<1>3. key # "bands" /\ key # "rows" BY DEF CountKey
<1> HIDE DEF key
<1>4. d.bands[i] = Without(c.bands[i], name) /\ d[key] = c[key] BY <1>1, <1>2, <1>3
<1>5. name \notin DOMAIN d.bands[i] BY <1>4 DEF Without
<1>6. i \in Nat \ {0} BY <1>1, <1>2
<1>7. ASSUME IsCount(d, key, atLeast) PROVE i \in 1 .. CountOf(d, key)
  <2>1. d[key] \in Int BY <1>1, <1>2, <1>3, <1>4
  <2>2. CountOf(d, key) \in Nat /\ d[key] = One * CountOf(d, key) BY <1>7, <2>1, CountIsNat
  <2>3. One \in Nat \ {0} BY RulesAssumption
  <2>4. PICK m \in Nat : m = CountOf(d, key) BY <2>2
  <2>5. One * i <= One * m BY <1>2, <1>4, <2>2, <2>4
  <2>6. i <= m BY <1>6, <2>3, <2>5, UnitsInOrder
  <2> QED BY <1>6, <2>4, <2>6
<1> QED BY <1>5, <1>6, <1>7 DEF key

\* A missing coefficient is never papered over, in a band or a row either.
LEMMA LoudStep == RulesInv => MissingIsLoud
<1> SUFFICES ASSUME RulesInv, rule # NoRow, rule.kind \in Formulas
             PROVE  MissingIsLoud
  BY DEF MissingIsLoud
<1> DEFINE c == rule.row
           kind == rule.kind
<1>1. c \in RowsOf(kind) /\ kind \in Formulas BY DEF RulesInv
<1>2. ASSUME NEW x, NEW name \in Coefficients(kind) PROVE Owed(Without(c, name), x) = Error
  <2> DEFINE d == Without(c, name)
  <2>1. name \notin DOMAIN d BY DEF Without
  <2> HIDE DEF d
  <2> QED BY <2>1, WithoutOneFails DEF Owed, d
<1>3. ASSUME NEW x, kind \in StepTables, NEW i \in Counted(kind, c), NEW name \in BandFields(kind) \ {"exclusive"}
      PROVE  Owed([c EXCEPT !.bands[i] = Without(@, name)], x) = Error
  <2> DEFINE e == [c EXCEPT !.bands[i] = Without(@, name)]
  <2>1. PICK d : d = e OBVIOUS
  <2> HIDE DEF e, c, kind
  <2>2. kind \in StepTables \cap Formulas BY <1>1, <1>3
  <2>3. d = [c EXCEPT !.bands[i] = Without(@, name)] BY <2>1 DEF e
  <2>4. \A atLeast \in Nat :
          /\ name \notin DOMAIN d.bands[i]
          /\ IsCount(d, CountKey(kind), atLeast) => i \in 1 .. CountOf(d, CountKey(kind))
    BY <1>1, <1>3, <2>2, <2>3, BandWithoutOne
  <2>5. \A atLeast \in Nat : \A names : name \in names => ~HasBands(d, CountKey(kind), atLeast, names)
    BY <2>4 DEF HasBands, Given
  <2>6. CASE kind = "preaviso_cr"
    <3>1. ~HasBands(d, "band_count", 0, {"min_years", "notice_days"})
      BY <1>3, <2>5, <2>6 DEF BandFields, CountKey
    <3>2. PreavisoCR(d, x) = Error BY <3>1 DEF PreavisoCR, Checked
    <3> QED BY <2>1, <2>6, <3>2 DEF Owed, EvalFormula, e, kind
  <2>7. CASE kind = "absence_employer_share"
    <3>1. ~HasBands(d, "band_count", 1, {"from_day", "rate"})
      BY <1>3, <2>5, <2>7 DEF BandFields, CountKey
    <3>2. AbsenceEmployerShare(d, x) = Error BY <3>1 DEF AbsenceEmployerShare, Checked
    <3> QED BY <2>1, <2>7, <3>2 DEF Owed, EvalFormula, e, kind
  <2>8. CASE kind = "cesantia_cr_art29"
    <3>1. ASSUME name \in {"min_months", "days"} PROVE ~Art29Row(d)
      <4>1. ~HasBands(d, "sub_year_band_count", 0, {"min_months", "days"})
        BY <2>5, <2>8, <3>1 DEF CountKey
      <4> QED BY <4>1 DEF Art29Row
    <3>2. ASSUME name = "inclusive" PROVE ~Art29Row(d)
      <4>1. ~IsFlag(d.bands[i], "inclusive") BY <2>4, <3>2 DEF IsFlag, Given
      <4>2. IsCount(d, "sub_year_band_count", 0) => i \in 1 .. CountOf(d, "sub_year_band_count")
        BY <2>4, <2>8 DEF CountKey
      <4> QED BY <4>1, <4>2 DEF Art29Row, HasBands
    <3>3. ~Art29Row(d) BY <1>3, <2>8, <3>1, <3>2 DEF BandFields
    <3>4. CesantiaCRArt29(d, x) = Error BY <3>3 DEF CesantiaCRArt29, Checked
    <3> QED BY <2>1, <2>8, <3>4 DEF Owed, EvalFormula, e, kind
  <2> QED BY <1>3, <2>6, <2>7, <2>8 DEF StepTables, e
<1>4. ASSUME NEW x, kind = "cesantia_cr_art29", Given(c, {"row_count"}),
             NEW i \in 1 .. CountOf(c, "row_count")
      PROVE  Owed([c EXCEPT !.rows = Without(@, i)], x) = Error
  <2> DEFINE e == [c EXCEPT !.rows = Without(@, i)]
  <2>1. PICK d : d = e OBVIOUS
  <2>2. "rows" \in DOMAIN c BY <1>1, <1>4, RowsAssumption
  <2>3. DOMAIN d.rows = DOMAIN c.rows \ {i} /\ d["row_count"] = c["row_count"]
    BY <1>4, <2>1, <2>2 DEF Without, Given
  <2> HIDE DEF e, c, kind
  <2>4. CountOf(d, "row_count") = CountOf(c, "row_count") BY <2>3 DEF CountOf
  <2>5. ~Art29Row(d) BY <1>4, <2>3, <2>4 DEF Art29Row, Given
  <2>6. CesantiaCRArt29(d, x) = Error BY <2>5 DEF CesantiaCRArt29, Checked
  <2> QED BY <1>4, <2>1, <2>6 DEF Owed, EvalFormula, e, kind
<1> HIDE DEF c, kind
<1> QED BY <1>2, <1>3, <1>4 DEF MissingIsLoud, c, kind

\* An order of the places of N bands.
Reordering(order, N) ==
  /\ order \in [1 .. N -> 1 .. N]
  /\ \A i, j \in 1 .. N : order[i] = order[j] => i = j

\* An order that repeats no place has every place.
LEMMA OntoToo ==
  ASSUME NEW N \in Nat, NEW order, Reordering(order, N)
  PROVE  \A j \in 1 .. N : \E i \in 1 .. N : order[i] = j
<1> DEFINE places == 1 .. N
<1>1. IsFiniteSet(places) BY FS_Interval
<1>2. order \in Injection(places, places) BY DEF Injection, IsInjective, Reordering
<1> HIDE DEF places
<1>3. order \in Surjection(places, places) BY <1>1, <1>2, FS_Injection
<1> QED BY <1>3 DEF Surjection, places

\* So many of a unit, divided by the unit.
LEMMA TimesOver == ASSUME NEW n \in Nat, NEW unit \in Nat \ {0} PROVE (unit * n) \div unit = n
OBVIOUS

\* A seeded row of a step table, and a count of all of its bands.
StepTable(kind, c) == kind \in StepTables \cap Formulas /\ c \in RowsOf(kind)

AllCounted(c, count, N) ==
  /\ N = Len(c.bands) /\ count \in DOMAIN c /\ count # "bands" /\ c[count] = One * N

\* The row with its bands in another order.
Reordered(c, order) == [c EXCEPT !.bands = Permuted(@, order)]

\* The row with its bands reordered has all the rest of the row.
LEMMA ReorderedIs ==
  ASSUME NEW kind, NEW c, StepTable(kind, c), NEW N, N = Len(c.bands), NEW order, Reordering(order, N)
  PROVE  /\ DOMAIN Reordered(c, order) = DOMAIN c
         /\ \A name \in DOMAIN c : name # "bands" => Reordered(c, order)[name] = c[name]
         /\ Reordered(c, order).bands = [i \in 1 .. N |-> c.bands[order[i]]]
         /\ Len(Reordered(c, order).bands) = N
<1>1. "bands" \in DOMAIN c /\ N \in Nat /\ DOMAIN c.bands = 1 .. N BY RowOfBands DEF StepTable
<1>2. Reordered(c, order).bands = [i \in 1 .. N |-> c.bands[order[i]]] BY <1>1 DEF Reordered, Permuted
<1>3. Len([i \in 1 .. N |-> c.bands[order[i]]]) = N
  <2> DEFINE f == [i \in 1 .. N |-> c.bands[order[i]]]
             S == {c.bands[i] : i \in 1 .. N}
  <2>1. f \in [1 .. N -> S] BY DEF Reordering
  <2> HIDE DEF f, S
  <2>2. f \in Seq(S) /\ Len(f) = N BY <1>1, <2>1
  <2> QED BY <2>2 DEF f
<1> QED BY <1>1, <1>2, <1>3 DEF Reordered

\* With all bands counted, the row and the reordered one have the same number.
SameTable(c, order, count, N, atLeast, names) ==
  LET d == Reordered(c, order)
  IN /\ CountOf(c, count) = N /\ CountOf(d, count) = N /\ N \in Nat
     /\ FirstBands(c, count) = [i \in 1 .. N |-> c.bands[i]]
     /\ FirstBands(d, count) = [i \in 1 .. N |-> c.bands[order[i]]]
     /\ HasBands(c, count, atLeast, names) <=> HasBands(d, count, atLeast, names)

LEMMA SameBands ==
  ASSUME NEW kind, NEW c, StepTable(kind, c), NEW N, NEW order, Reordering(order, N),
         NEW count, AllCounted(c, count, N), NEW atLeast, NEW names
  PROVE  SameTable(c, order, count, N, atLeast, names)
<1> DEFINE d == Reordered(c, order)
<1>1. /\ N \in Nat /\ One \in Nat \ {0} /\ N = Len(c.bands)
      /\ count \in DOMAIN c /\ count # "bands" /\ c[count] = One * N
  BY RowOfBands, RulesAssumption DEF StepTable, AllCounted
<1>2. /\ DOMAIN d = DOMAIN c /\ d[count] = c[count] /\ Len(d.bands) = N
      /\ d.bands = [i \in 1 .. N |-> c.bands[order[i]]]
  BY <1>1, ReorderedIs
<1> HIDE DEF d
<1>3. CountOf(c, count) = N /\ CountOf(d, count) = N BY <1>1, <1>2, TimesOver DEF CountOf
<1>4. FirstBands(c, count) = [i \in 1 .. N |-> c.bands[i]] BY <1>3 DEF FirstBands
<1>5. FirstBands(d, count) = [i \in 1 .. N |-> c.bands[order[i]]]
  <2>1. \A i \in 1 .. N : d.bands[i] = c.bands[order[i]] BY <1>2
  <2> QED BY <1>3, <2>1 DEF FirstBands
<1>6. IsCount(c, count, atLeast) <=> IsCount(d, count, atLeast) BY <1>2 DEF IsCount, Given
<1>7. (\A i \in 1 .. N : Given(c.bands[i], names)) <=> (\A i \in 1 .. N : Given(d.bands[i], names))
  <2>1. \A j \in 1 .. N : \E i \in 1 .. N : order[i] = j BY <1>1, OntoToo
  <2>2. \A i \in 1 .. N : d.bands[i] = c.bands[order[i]] /\ order[i] \in 1 .. N BY <1>2 DEF Reordering
  <2>3. ASSUME \A i \in 1 .. N : Given(c.bands[i], names), NEW i \in 1 .. N PROVE Given(d.bands[i], names)
    BY <2>2, <2>3
  <2>4. ASSUME \A i \in 1 .. N : Given(d.bands[i], names), NEW j \in 1 .. N PROVE Given(c.bands[j], names)
    <3>1. PICK i \in 1 .. N : order[i] = j BY <2>1
    <3>2. Given(d.bands[i], names) BY <2>4
    <3> QED BY <2>2, <3>1, <3>2
  <2> QED BY <2>3, <2>4
<1>8. HasBands(c, count, atLeast, names) <=> HasBands(d, count, atLeast, names)
  BY <1>1, <1>2, <1>3, <1>6, <1>7 DEF HasBands
<1> QED BY <1>1, <1>3, <1>4, <1>5, <1>8 DEF d, SameTable

\* Of two steps that differ in more than their value one outranks the other.
LEMMA DistinctSteps ==
  ASSUME NEW s, NEW t, StepRow(s), StepRow(t), s.min # t.min \/ s.exclusive # t.exclusive
  PROVE  Outranks(s, t) \/ Outranks(t, s)
<1>1. CASE s.min # t.min BY <1>1 DEF StepRow, Outranks
<1>2. CASE s.min = t.min /\ s.exclusive = TRUE BY <1>2 DEF StepRow, Outranks
<1>3. CASE s.min = t.min /\ s.exclusive = FALSE BY <1>3 DEF StepRow, Outranks
<1> QED BY <1>1, <1>2, <1>3 DEF StepRow

\* The preaviso goes by no order of the bands.
LEMMA PreavisoOrder ==
  ASSUME "preaviso_cr" \in Formulas, NEW c \in RowsOf("preaviso_cr"), NEW x, NEW N, N = Len(c.bands),
         NEW order, Reordering(order, N),
         "band_count" \in DOMAIN c, c.band_count = One * N,
         \A i, j \in 1 .. N : Tied(c.bands[i], c.bands[j]) => i = j
  PROVE  PreavisoCR(Reordered(c, order), x) = PreavisoCR(c, x)
<1> DEFINE d == Reordered(c, order)
           bands(r) == FirstBands(r, "band_count")
           steps(r) == [i \in DOMAIN bands(r) |-> PreavisoStep(bands(r)[i])]
           flags(r) == \A i \in DOMAIN bands(r) : IsOptionalFlag(bands(r)[i], "exclusive")
           ok(r) == /\ Given(x, {"years_of_service"})
                    /\ HasBands(r, "band_count", 0, {"min_years", "notice_days"})
                    /\ flags(r)
<1>1. "preaviso_cr" \in StepTables \cap Formulas BY DEF StepTables
<1>2. /\ N \in Nat
      /\ bands(c) = [i \in 1 .. N |-> c.bands[i]]
      /\ bands(d) = [i \in 1 .. N |-> c.bands[order[i]]]
      /\ HasBands(c, "band_count", 0, {"min_years", "notice_days"})
           <=> HasBands(d, "band_count", 0, {"min_years", "notice_days"})
      /\ CountOf(c, "band_count") = N
  <2> DEFINE names == {"min_years", "notice_days"}
  <2>1. AllCounted(c, "band_count", N) /\ StepTable("preaviso_cr", c) BY <1>1 DEF AllCounted, StepTable
  <2> HIDE DEF names
  <2>2. SameTable(c, order, "band_count", N, 0, names) BY <2>1, SameBands, Zenon
  <2> QED BY <2>2 DEF SameTable, names
<1>3. PreavisoCR(c, x) = Checked(ok(c), HighestMet(steps(c), x.years_of_service, 0))
  BY Zenon DEF PreavisoCR
<1>4. PreavisoCR(d, x) = Checked(ok(d), HighestMet(steps(d), x.years_of_service, 0))
  BY Zenon DEF PreavisoCR
<1>5. \A i \in 1 .. N : order[i] \in 1 .. N BY DEF Reordering
<1>6. \A j \in 1 .. N : \E i \in 1 .. N : order[i] = j BY <1>2, OntoToo
<1>7. steps(c) = [i \in 1 .. N |-> PreavisoStep(c.bands[i])] BY <1>2
<1>8. steps(d) = [i \in 1 .. N |-> PreavisoStep(c.bands[order[i]])] BY <1>2
<1>9. flags(c) <=> \A i \in 1 .. N : IsOptionalFlag(c.bands[i], "exclusive") BY <1>2
<1>10. flags(d) <=> \A i \in 1 .. N : IsOptionalFlag(c.bands[order[i]], "exclusive") BY <1>2
<1>11. flags(c) <=> flags(d)
  <2>1. ASSUME flags(c) PROVE flags(d) BY <1>5, <1>9, <1>10, <2>1
  <2>2. ASSUME flags(d) PROVE flags(c) BY <1>6, <1>9, <1>10, <2>2
  <2> QED BY <2>1, <2>2
<1>12. ok(c) <=> ok(d) BY <1>2, <1>11
<1>13. ASSUME ok(c)
       PROVE  HighestMet(steps(d), x.years_of_service, 0) = HighestMet(steps(c), x.years_of_service, 0)
  <2>1. HasBands(c, "band_count", 0, {"min_years", "notice_days"}) BY <1>13
  <2>2. \A i \in 1 .. N : i \in 1 .. Len(c.bands) /\
            \A name \in {"min_years", "notice_days"} : name \in DOMAIN c.bands[i] /\ c.bands[i][name] \in Int
    BY <1>1, <1>2, <2>1, CountedBands
  <2> DEFINE S == [i \in 1 .. N |-> PreavisoStep(c.bands[i])]
  <2>3. ASSUME NEW i \in 1 .. N
        PROVE  /\ StepRow(S[i]) /\ S[i] # Error
               /\ StepOf(c.bands[i]) = S[i]
    <3>1. c.bands[i].min_years \in Int /\ c.bands[i].notice_days \in Int BY <2>2
    <3> DEFINE e == Raised(c.bands[i], "exclusive")
    <3>2. e \in BOOLEAN BY RaisedIs
    <3>3. S[i] = [min |-> c.bands[i].min_years, exclusive |-> e, value |-> c.bands[i].notice_days]
      BY DEF PreavisoStep, Step
    <3> HIDE DEF e
    <3>4. S[i] \in [min : Int, exclusive : BOOLEAN, value : Int] BY <3>1, <3>2, <3>3
    <3>5. StepRow(S[i]) /\ S[i] # Error BY <3>4, RulesAssumption DEF StepRow
    <3>6. DOMAIN c.bands[i] \subseteq {"min_years", "notice_days", "exclusive"}
      BY <1>1, <2>2, RowOfBands DEF BandFields
    <3>7. Given(c.bands[i], {"min_years", "notice_days"}) /\ ~Given(c.bands[i], {"min_months", "days"})
      BY <2>2, <3>6 DEF Given
    <3>8. StepOf(c.bands[i]) = PreavisoStep(c.bands[i]) BY <3>7 DEF StepOf
    <3> QED BY <3>5, <3>8
  <2> HIDE DEF S
  <2>4. ASSUME NEW i \in 1 .. N, NEW j \in 1 .. N PROVE i = j \/ Outranks(S[i], S[j]) \/ Outranks(S[j], S[i])
    <3>1. i = j \/ ~Tied(c.bands[i], c.bands[j]) OBVIOUS
    <3>2. i = j \/ S[i].min # S[j].min \/ S[i].exclusive # S[j].exclusive BY <2>3, <3>1 DEF Tied
    <3> QED BY <2>3, <3>2, DistinctSteps
  <2>5. \A i \in 1 .. N : StepRow(S[i]) BY <2>3
  <2>6. DOMAIN S = 1 .. N BY DEF S
  <2> DEFINE R == steps(d)
  <2>7. DOMAIN R = 1 .. N /\ \A i \in 1 .. N : R[i] = S[order[i]] BY <1>5, <1>8 DEF S
  <2> HIDE DEF R
  <2>8. Untied(S, N) /\ Shuffled(R, S, order, N)
    BY <1>2, <1>6, <2>4, <2>5, <2>6, <2>7 DEF Untied, Shuffled, Reordering
  <2>9. HighestMet(R, x.years_of_service, 0) = HighestMet(S, x.years_of_service, 0)
    BY <2>8, HighestOfPermuted
  <2> HIDE DEF steps
  <2> QED BY <1>7, <2>9 DEF S, R
<1> HIDE DEF ok, steps, d
<1> QED BY <1>3, <1>4, <1>12, <1>13 DEF Checked, d

\* A reordered row is as good a row of art. 29.
LEMMA Art29RowOrder ==
  ASSUME "cesantia_cr_art29" \in Formulas, NEW c \in RowsOf("cesantia_cr_art29"), NEW N, N = Len(c.bands),
         NEW order, Reordering(order, N),
         "sub_year_band_count" \in DOMAIN c, c.sub_year_band_count = One * N
  PROVE  Art29Row(Reordered(c, order)) <=> Art29Row(c)
<1> DEFINE d == Reordered(c, order)
           names == {"min_months", "days"}
           count == "sub_year_band_count"
<1>1. "cesantia_cr_art29" \in StepTables \cap Formulas BY DEF StepTables
<1>2. /\ DOMAIN d = DOMAIN c
      /\ \A name \in DOMAIN c : name # "bands" => d[name] = c[name]
      /\ d.bands = [i \in 1 .. N |-> c.bands[order[i]]]
  <2>1. StepTable("cesantia_cr_art29", c) BY <1>1 DEF StepTable
  <2> QED BY <2>1, ReorderedIs
<1>3. /\ N \in Nat /\ CountOf(c, count) = N /\ CountOf(d, count) = N
      /\ HasBands(c, count, 0, names) <=> HasBands(d, count, 0, names)
  <2>1. AllCounted(c, "sub_year_band_count", N) /\ StepTable("cesantia_cr_art29", c) BY <1>1 DEF AllCounted, StepTable
  <2> HIDE DEF names
  <2>2. SameTable(c, order, "sub_year_band_count", N, 0, names) BY <2>1, SameBands, Zenon
  <2> QED BY <2>2 DEF SameTable
<1>4. "rows" \in DOMAIN c /\ d.rows = c.rows BY <1>2, RowsAssumption
<1> HIDE DEF d, names
<1>5. IsCount(d, "row_count", 1) <=> IsCount(c, "row_count", 1)
  BY <1>2 DEF IsCount, Given
<1>6. IsCount(c, "row_count", 1) => CountOf(d, "row_count") = CountOf(c, "row_count")
  BY <1>2 DEF IsCount, Given, CountOf
<1>7. IsFlag(d, "fraction_inclusive") <=> IsFlag(c, "fraction_inclusive")
  BY <1>2 DEF IsFlag, Given
<1>8. Given(d, {"cap_years", "fraction_min_months"}) <=> Given(c, {"cap_years", "fraction_min_months"})
  BY <1>2 DEF Given
<1>9. Given(c, {"cap_years", "fraction_min_months"}) => d.cap_years = c.cap_years
  BY <1>2 DEF Given
<1>10. (\A i \in 1 .. N : IsFlag(c.bands[i], "inclusive")) <=> (\A i \in 1 .. N : IsFlag(d.bands[i], "inclusive"))
  <2>1. \A j \in 1 .. N : \E i \in 1 .. N : order[i] = j BY <1>3, OntoToo
  <2>2. \A i \in 1 .. N : d.bands[i] = c.bands[order[i]] /\ order[i] \in 1 .. N BY <1>2 DEF Reordering
  <2>3. ASSUME \A i \in 1 .. N : IsFlag(c.bands[i], "inclusive"), NEW i \in 1 .. N
        PROVE  IsFlag(d.bands[i], "inclusive")
    BY <2>2, <2>3
  <2>4. ASSUME \A i \in 1 .. N : IsFlag(d.bands[i], "inclusive"), NEW j \in 1 .. N
        PROVE  IsFlag(c.bands[j], "inclusive")
    <3>1. PICK i \in 1 .. N : order[i] = j BY <2>1
    <3>2. IsFlag(d.bands[i], "inclusive") BY <2>4
    <3> QED BY <2>2, <3>1, <3>2
  <2> QED BY <2>3, <2>4
<1>11. ASSUME Art29Row(c) PROVE Art29Row(d)
  BY <1>3, <1>4, <1>5, <1>6, <1>7, <1>8, <1>9, <1>10, <1>11 DEF Art29Row, names
<1>12. ASSUME Art29Row(d) PROVE Art29Row(c)
  BY <1>3, <1>4, <1>5, <1>6, <1>7, <1>8, <1>9, <1>10, <1>12 DEF Art29Row, names
<1> QED BY <1>11, <1>12 DEF d

\* Less than a year of service is paid by no order of the bands.
LEMMA Art29SubYearOrder ==
  ASSUME "cesantia_cr_art29" \in Formulas, NEW c \in RowsOf("cesantia_cr_art29"), NEW x, NEW N, N = Len(c.bands),
         NEW order, Reordering(order, N),
         "sub_year_band_count" \in DOMAIN c, c.sub_year_band_count = One * N, Art29Row(c),
         \A i, j \in 1 .. N : Tied(c.bands[i], c.bands[j]) => i = j
  PROVE  Art29SubYear(Reordered(c, order), x) = Art29SubYear(c, x)
<1> DEFINE d == Reordered(c, order)
           count == "sub_year_band_count"
           names == {"min_months", "days"}
           bands(r) == FirstBands(r, count)
           steps(r) == [i \in DOMAIN bands(r) |-> Art29Step(bands(r)[i])]
<1>1. "cesantia_cr_art29" \in StepTables \cap Formulas BY DEF StepTables
<1>2. /\ N \in Nat /\ CountOf(c, count) = N
      /\ bands(c) = [i \in 1 .. N |-> c.bands[i]]
      /\ bands(d) = [i \in 1 .. N |-> c.bands[order[i]]]
  <2>1. AllCounted(c, "sub_year_band_count", N) /\ StepTable("cesantia_cr_art29", c) BY <1>1 DEF AllCounted, StepTable
  <2> HIDE DEF names
  <2>2. SameTable(c, order, "sub_year_band_count", N, 0, names) BY <2>1, SameBands, Zenon
  <2> QED BY <2>2 DEF SameTable
<1>3. Art29SubYear(c, x) = One * HighestMet(steps(c), x, 0) BY Zenon DEF Art29SubYear
<1>4. Art29SubYear(d, x) = One * HighestMet(steps(d), x, 0) BY Zenon DEF Art29SubYear
<1>5. \A i \in 1 .. N : order[i] \in 1 .. N BY DEF Reordering
<1>6. \A j \in 1 .. N : \E i \in 1 .. N : order[i] = j BY <1>2, OntoToo
<1>7. steps(c) = [i \in 1 .. N |-> Art29Step(c.bands[i])] BY <1>2
<1>8. steps(d) = [i \in 1 .. N |-> Art29Step(c.bands[order[i]])] BY <1>2
<1>9. \A i \in 1 .. N : i \in 1 .. Len(c.bands) /\
          \A name \in names : name \in DOMAIN c.bands[i] /\ c.bands[i][name] \in Int
  <2>1. HasBands(c, count, 0, names) BY DEF Art29Row
  <2> QED BY <1>1, <1>2, <2>1, CountedBands
<1> DEFINE S == [i \in 1 .. N |-> Art29Step(c.bands[i])]
<1>10. ASSUME NEW i \in 1 .. N PROVE StepRow(S[i]) /\ S[i] # Error /\ StepOf(c.bands[i]) = S[i]
  <2>1. c.bands[i].min_months \in Int /\ c.bands[i].days \in Int BY <1>9
  <2> DEFINE e == ~Raised(c.bands[i], "inclusive")
  <2>2. e \in BOOLEAN OBVIOUS
  <2>3. S[i] = [min |-> c.bands[i].min_months, exclusive |-> e, value |-> c.bands[i].days]
    BY DEF Art29Step, Step
  <2> HIDE DEF e
  <2>4. S[i] \in [min : Int, exclusive : BOOLEAN, value : Int] BY <2>1, <2>2, <2>3
  <2>5. StepRow(S[i]) /\ S[i] # Error BY <2>4, RulesAssumption DEF StepRow
  <2>6. DOMAIN c.bands[i] \subseteq {"min_months", "days", "inclusive"}
    BY <1>1, <1>9, RowOfBands DEF BandFields
  <2>7. Given(c.bands[i], {"min_months", "days"}) /\ ~Given(c.bands[i], {"min_years", "notice_days"})
    BY <1>9, <2>6 DEF Given
  <2>8. StepOf(c.bands[i]) = Art29Step(c.bands[i]) BY <2>7 DEF StepOf
  <2> QED BY <2>5, <2>8
<1> HIDE DEF S
<1>11. ASSUME NEW i \in 1 .. N, NEW j \in 1 .. N PROVE i = j \/ Outranks(S[i], S[j]) \/ Outranks(S[j], S[i])
  <2>1. i = j \/ ~Tied(c.bands[i], c.bands[j]) OBVIOUS
  <2>2. i = j \/ S[i].min # S[j].min \/ S[i].exclusive # S[j].exclusive BY <1>10, <2>1 DEF Tied
  <2> QED BY <1>10, <2>2, DistinctSteps
<1>12. DOMAIN S = 1 .. N BY DEF S
<1> DEFINE R == steps(d)
<1>13. DOMAIN R = 1 .. N /\ \A i \in 1 .. N : R[i] = S[order[i]] BY <1>5, <1>8 DEF S
<1> HIDE DEF R
<1>14. Untied(S, N) /\ Shuffled(R, S, order, N)
  BY <1>2, <1>6, <1>10, <1>11, <1>12, <1>13 DEF Untied, Shuffled, Reordering
<1>15. HighestMet(R, x, 0) = HighestMet(S, x, 0) BY <1>14, HighestOfPermuted
<1> HIDE DEF steps, d
<1> QED BY <1>3, <1>4, <1>7, <1>15 DEF S, R, d

\* The cesantia of art. 29 goes by no order of the bands.
LEMMA Art29Order ==
  ASSUME "cesantia_cr_art29" \in Formulas, NEW c \in RowsOf("cesantia_cr_art29"), NEW x, NEW N, N = Len(c.bands),
         NEW order, Reordering(order, N),
         "sub_year_band_count" \in DOMAIN c, c.sub_year_band_count = One * N,
         \A i, j \in 1 .. N : Tied(c.bands[i], c.bands[j]) => i = j
  PROVE  CesantiaCRArt29(Reordered(c, order), x) = CesantiaCRArt29(c, x)
<1> DEFINE d == Reordered(c, order)
           months == x.remainder_months
           years == x.completed_years
<1>1. Art29Row(d) <=> Art29Row(c) BY Art29RowOrder
<1>2. ASSUME Art29Row(c)
      PROVE  /\ Art29SubYear(d, months) = Art29SubYear(c, months)
             /\ Art29Rate(d, years) = Art29Rate(c, years)
             /\ Art29Counted(d, years, months) = Art29Counted(c, years, months)
  <2>1. Art29SubYear(d, months) = Art29SubYear(c, months) BY <1>2, Art29SubYearOrder
  <2>2. "cesantia_cr_art29" \in StepTables \cap Formulas BY DEF StepTables
  <2>3. DOMAIN d = DOMAIN c /\ \A name \in DOMAIN c : name # "bands" => d[name] = c[name]
    <3>1. StepTable("cesantia_cr_art29", c) BY <2>2 DEF StepTable
    <3>2. /\ DOMAIN d = DOMAIN c /\ \A name \in DOMAIN c : name # "bands" => d[name] = c[name]
          /\ d.bands = [i \in 1 .. N |-> c.bands[order[i]]]
          /\ Len(d.bands) = N
      BY <3>1, ReorderedIs
    <3> QED BY <3>2
  <2>4. "rows" \in DOMAIN c BY RowsAssumption
  <2>5. {"row_count", "cap_years", "fraction_min_months", "fraction_inclusive"} \subseteq DOMAIN c
    BY <1>2 DEF Art29Row, IsCount, IsFlag, Given
  <2>6. /\ d.rows = c.rows /\ d["row_count"] = c["row_count"] /\ d.cap_years = c.cap_years
        /\ d.fraction_min_months = c.fraction_min_months
        /\ Raised(d, "fraction_inclusive") = Raised(c, "fraction_inclusive")
    BY <2>3, <2>4, <2>5 DEF Raised
  <2> HIDE DEF d, months, years
  <2>7. Art29Rate(d, years) = Art29Rate(c, years) BY <2>6 DEF Art29Rate, CountOf
  <2>8. Art29Counted(d, years, months) = Art29Counted(c, years, months) BY <2>6 DEF Art29Counted
  <2> QED BY <2>1, <2>7, <2>8
<1> HIDE DEF d
<1> DEFINE pay(r) == IF x.completed_years = 0 THEN Art29SubYear(r, months)
                     ELSE Art29Rate(r, years) * Art29Counted(r, years, months)
<1>3. /\ CesantiaCRArt29(c, x) = Checked(Art29Tenure(x) /\ Art29Row(c), pay(c))
      /\ CesantiaCRArt29(d, x) = Checked(Art29Tenure(x) /\ Art29Row(d), pay(d))
  BY Zenon DEF CesantiaCRArt29
<1>4. ASSUME Art29Row(c) PROVE pay(d) = pay(c) BY <1>2, <1>4
<1> HIDE DEF pay
<1> QED BY <1>1, <1>3, <1>4 DEF Checked, d

\* The share of an absence goes by no order of the bands.
LEMMA AbsenceOrder ==
  ASSUME "absence_employer_share" \in Formulas, NEW c \in RowsOf("absence_employer_share"), NEW x,
         NEW N, N = Len(c.bands),
         NEW order, Reordering(order, N),
         "band_count" \in DOMAIN c, c.band_count = One * N
  PROVE  AbsenceEmployerShare(Reordered(c, order), x) = AbsenceEmployerShare(c, x)
<1> DEFINE d == Reordered(c, order)
           names == {"from_day", "rate"}
           count == "band_count"
           bands(r) == FirstBands(r, count)
           steps(r) == [i \in DOMAIN bands(r) |-> Step(bands(r)[i].from_day, FALSE, bands(r)[i].rate)]
           days(r) == \A i \in DOMAIN bands(r) : Whole(bands(r)[i].from_day) /\ bands(r)[i].from_day >= One
           apart(r) == \A i, j \in DOMAIN bands(r) : bands(r)[i].from_day = bands(r)[j].from_day => i = j
           ok(r) == /\ Given(x, {"absence_day_index"})
                    /\ Whole(x.absence_day_index) /\ x.absence_day_index >= One
                    /\ HasBands(r, count, 1, names)
                    /\ days(r)
                    /\ apart(r)
<1>1. "absence_employer_share" \in StepTables \cap Formulas BY DEF StepTables
<1>2. /\ N \in Nat /\ CountOf(c, count) = N
      /\ bands(c) = [i \in 1 .. N |-> c.bands[i]]
      /\ bands(d) = [i \in 1 .. N |-> c.bands[order[i]]]
      /\ HasBands(c, count, 1, names) <=> HasBands(d, count, 1, names)
  <2>1. AllCounted(c, "band_count", N) /\ StepTable("absence_employer_share", c) BY <1>1 DEF AllCounted, StepTable
  <2> HIDE DEF names
  <2>2. SameTable(c, order, "band_count", N, 1, names) BY <2>1, SameBands, Zenon
  <2> QED BY <2>2 DEF SameTable
<1>3. AbsenceEmployerShare(c, x) = Checked(ok(c), HighestMet(steps(c), x.absence_day_index, Error))
  BY Zenon DEF AbsenceEmployerShare
<1>4. AbsenceEmployerShare(d, x) = Checked(ok(d), HighestMet(steps(d), x.absence_day_index, Error))
  BY Zenon DEF AbsenceEmployerShare
<1>5. \A i \in 1 .. N : order[i] \in 1 .. N BY DEF Reordering
<1>6. \A j \in 1 .. N : \E i \in 1 .. N : order[i] = j BY <1>2, OntoToo
<1>7. /\ steps(c) = [i \in 1 .. N |-> Step(c.bands[i].from_day, FALSE, c.bands[i].rate)]
      /\ steps(d) = [i \in 1 .. N |-> Step(c.bands[order[i]].from_day, FALSE, c.bands[order[i]].rate)]
  BY <1>2
<1>8. /\ days(c) <=> \A i \in 1 .. N : Whole(c.bands[i].from_day) /\ c.bands[i].from_day >= One
      /\ days(d) <=> \A i \in 1 .. N : Whole(c.bands[order[i]].from_day) /\ c.bands[order[i]].from_day >= One
  BY <1>2
<1>9. /\ apart(c) <=> \A i, j \in 1 .. N : c.bands[i].from_day = c.bands[j].from_day => i = j
      /\ apart(d) <=> \A i, j \in 1 .. N : c.bands[order[i]].from_day = c.bands[order[j]].from_day => i = j
  <2>1. DOMAIN bands(c) = 1 .. N /\ \A i \in 1 .. N : bands(c)[i].from_day = c.bands[i].from_day BY <1>2
  <2>2. DOMAIN bands(d) = 1 .. N /\ \A i \in 1 .. N : bands(d)[i].from_day = c.bands[order[i]].from_day BY <1>2
  <2> DEFINE e == bands(c)
             f == bands(d)
  <2>3. apart(c) <=> \A i, j \in DOMAIN e : e[i].from_day = e[j].from_day => i = j OBVIOUS
  <2>4. apart(d) <=> \A i, j \in DOMAIN f : f[i].from_day = f[j].from_day => i = j OBVIOUS
  <2>5. DOMAIN e = 1 .. N /\ \A i \in 1 .. N : e[i].from_day = c.bands[i].from_day BY <2>1
  <2>6. DOMAIN f = 1 .. N /\ \A i \in 1 .. N : f[i].from_day = c.bands[order[i]].from_day BY <2>2
  <2> HIDE DEF apart, e, f
  <2>7. apart(c) <=> \A i, j \in 1 .. N : c.bands[i].from_day = c.bands[j].from_day => i = j BY <2>3, <2>5
  <2>8. apart(d) <=> \A i, j \in 1 .. N : c.bands[order[i]].from_day = c.bands[order[j]].from_day => i = j
    BY <2>4, <2>6
  <2> QED BY <2>7, <2>8
<1> HIDE DEF days, apart
<1>10. days(c) <=> days(d) BY <1>5, <1>6, <1>8
<1>11. ASSUME apart(c) PROVE apart(d)
  <2>1. ASSUME NEW i \in 1 .. N, NEW j \in 1 .. N, c.bands[order[i]].from_day = c.bands[order[j]].from_day
        PROVE  i = j
    <3>1. order[i] = order[j] BY <1>5, <1>9, <1>11, <2>1
    <3> QED BY <3>1 DEF Reordering
  <2> QED BY <1>9, <2>1
<1>12. ASSUME apart(d) PROVE apart(c)
  <2>1. ASSUME NEW i \in 1 .. N, NEW j \in 1 .. N, c.bands[i].from_day = c.bands[j].from_day PROVE i = j
    <3>1. PICK k \in 1 .. N : order[k] = i BY <1>6
    <3>2. PICK l \in 1 .. N : order[l] = j BY <1>6
    <3>3. k = l BY <1>9, <1>12, <2>1, <3>1, <3>2
    <3> QED BY <3>1, <3>2, <3>3
  <2> QED BY <1>9, <2>1
<1>13. ok(c) <=> ok(d) BY <1>2, <1>10, <1>11, <1>12
<1>14. ASSUME ok(c)
       PROVE  HighestMet(steps(d), x.absence_day_index, Error) = HighestMet(steps(c), x.absence_day_index, Error)
  <2>1. HasBands(c, count, 1, names) BY <1>14
  <2>2. \A i \in 1 .. N : \A name \in names : c.bands[i][name] \in Int
    BY <1>1, <1>2, <2>1, CountedBands
  <2> DEFINE S == [i \in 1 .. N |-> Step(c.bands[i].from_day, FALSE, c.bands[i].rate)]
  <2>3. \A i \in 1 .. N : S[i].min = c.bands[i].from_day /\ S[i].exclusive = FALSE /\ c.bands[i].from_day \in Int
    BY <2>2 DEF Step
  <2>4. DOMAIN S = 1 .. N BY DEF S
  <2> HIDE DEF S
  <2>5. \A i \in 1 .. N : StepRow(S[i]) BY <2>3 DEF StepRow
  <2>6. ASSUME NEW i \in 1 .. N, NEW j \in 1 .. N PROVE i = j \/ Outranks(S[i], S[j]) \/ Outranks(S[j], S[i])
    <3>1. apart(c) BY <1>14
    <3>2. i = j \/ S[i].min # S[j].min BY <1>9, <2>3, <3>1
    <3> QED BY <2>3, <2>5, <3>2, DistinctSteps
  <2> DEFINE R == steps(d)
  <2>7. DOMAIN R = 1 .. N /\ \A i \in 1 .. N : R[i] = S[order[i]] BY <1>5, <1>7 DEF S
  <2> HIDE DEF R
  <2>8. Untied(S, N) /\ Shuffled(R, S, order, N)
    BY <1>2, <1>6, <2>4, <2>5, <2>6, <2>7 DEF Untied, Shuffled, Reordering
  <2>9. HighestMet(R, x.absence_day_index, Error) = HighestMet(S, x.absence_day_index, Error)
    BY <2>8, HighestOfPermuted
  <2> HIDE DEF steps
  <2> QED BY <1>7, <2>9 DEF S, R
<1> HIDE DEF ok, steps, d
<1> QED BY <1>3, <1>4, <1>13, <1>14 DEF Checked, d

\* No order of the bands counts.
LEMMA OrderStep == RulesInv => BandOrderFree
<1> DEFINE c == rule.row
           kind == rule.kind
           N == Len(c.bands)
           tieless == \A i, j \in 1 .. N : Tied(c.bands[i], c.bands[j]) => i = j
           counted == \E name \in {"band_count", "sub_year_band_count"} :
                        Given(c, {name}) /\ c[name] = One * N
<1>1. ASSUME RulesInv, rule # NoRow, kind \in StepTables
      PROVE  kind \in StepTables \cap Formulas /\ c \in RowsOf(kind) /\ N \in Nat /\ DOMAIN c.bands = 1 .. N
  <2>1. kind \in Formulas BY <1>1 DEF RulesInv, StepTables, Formulas
  <2>2. c \in RowsOf(kind) BY <1>1 DEF RulesInv
  <2> HIDE DEF c, kind
  <2> QED BY <1>1, <2>1, <2>2, RowOfBands
<1>2. ASSUME RulesInv, rule # NoRow, kind \in StepTables, counted, tieless,
             NEW x, NEW order, Reordering(order, N)
      PROVE  EvalFormula(kind, Reordered(c, order), x) = EvalFormula(kind, c, x)
  <2>1. kind \in StepTables \cap Formulas /\ c \in RowsOf(kind) BY <1>1, <1>2
  <2>2. DOMAIN c \subseteq Coefficients(kind) \cup {"bands", "rows"} BY <2>1, RowOfBands
  <2> HIDE DEF c, kind
  <2>3. N = Len(c.bands) OBVIOUS
  <2> HIDE DEF N
  <2>4. CASE kind = "preaviso_cr"
    <3>1. "sub_year_band_count" \notin DOMAIN c BY <2>2, <2>4 DEF Coefficients
    <3>2. "band_count" \in DOMAIN c /\ c.band_count = One * N BY <1>2, <3>1 DEF Given
    <3>3. PreavisoCR(Reordered(c, order), x) = PreavisoCR(c, x)
      BY <1>2, <2>1, <2>3, <2>4, <3>2, PreavisoOrder
    <3> QED BY <2>4, <3>3 DEF EvalFormula
  <2>5. CASE kind = "cesantia_cr_art29"
    <3>1. "band_count" \notin DOMAIN c BY <2>2, <2>5 DEF Coefficients
    <3>2. "sub_year_band_count" \in DOMAIN c /\ c.sub_year_band_count = One * N BY <1>2, <3>1 DEF Given
    <3>3. CesantiaCRArt29(Reordered(c, order), x) = CesantiaCRArt29(c, x)
      BY <1>2, <2>1, <2>3, <2>5, <3>2, Art29Order
    <3> QED BY <2>5, <3>3 DEF EvalFormula
  <2>6. CASE kind = "absence_employer_share"
    <3>1. "sub_year_band_count" \notin DOMAIN c BY <2>2, <2>6 DEF Coefficients
    <3>2. "band_count" \in DOMAIN c /\ c.band_count = One * N BY <1>2, <3>1 DEF Given
    <3>3. AbsenceEmployerShare(Reordered(c, order), x) = AbsenceEmployerShare(c, x)
      BY <1>2, <2>1, <2>3, <2>6, <3>2, AbsenceOrder
    <3> QED BY <2>6, <3>3 DEF EvalFormula
  <2> QED BY <1>2, <2>4, <2>5, <2>6 DEF StepTables
<1>3. SUFFICES ASSUME RulesInv, rule # NoRow, kind \in StepTables, counted,
                      \A i, j \in DOMAIN c.bands : Tied(c.bands[i], c.bands[j]) => i = j,
                      NEW x \in FactsOf(kind),
                      NEW order \in {f \in [DOMAIN c.bands -> DOMAIN c.bands] :
                                       \A i, j \in DOMAIN c.bands : f[i] = f[j] => i = j}
               PROVE  Owed(Reordered(c, order), x) = Owed(c, x)
  BY DEF BandOrderFree, Reordered
<1>4. DOMAIN c.bands = 1 .. N BY <1>1, <1>3
<1>5. tieless /\ Reordering(order, N) BY <1>3, <1>4 DEF Reordering
<1> HIDE DEF tieless, counted, N, c
<1>6. EvalFormula(kind, Reordered(c, order), x) = EvalFormula(kind, c, x) BY <1>2, <1>3, <1>5
<1> QED BY <1>6 DEF Owed

\* An answer depends on what a row says, not on how it is stored; a coefficient
\* missing in it, or in a band or row it counts, fails everybody; and so does any
\* other fault of it, but for an absence's day before its first band and for the
\* legacy cesantia_cr (values.go:19-24, formula.go:159-163, 264-266).
THEOREM OneRowServesAll == RulesSpec => []OneRowForAll
<1>1. RulesInit => RulesInv BY DEF RulesInit, RulesInv
<1>2. RulesInv /\ [RulesNext]_rule => RulesInv'
  <2>1. ASSUME NEW kind \in Kinds, NEW row \in RowsOf(kind), Seed(kind, row) PROVE RulesInv'
    BY <2>1 DEF Seed, RulesInv
  <2>2. ASSUME RulesInv, UNCHANGED rule PROVE RulesInv' BY <2>2 DEF RulesInv
  <2> QED BY <2>1, <2>2 DEF RulesNext
<1>3. RulesInv => OneRowForAll BY FailsForAll, LoudStep, OrderStep DEF OneRowForAll
<1> QED BY <1>1, <1>2, <1>3, PTL DEF RulesSpec
=============================================================================
