----------------------- MODULE PlatformClient_proofs -----------------------
(***************************************************************************)
(* The invariant of PlatformClient is inductive, and gives, for any        *)
(* tenants, catalogs, callers, lives and timeouts: how old an answer can   *)
(* be, and that no call outlives the token it goes out with. The one of    *)
(* References gives that the answers were true, for any tree.              *)
(***************************************************************************)
EXTENDS PlatformClient, References, FiniteSetTheorems, NaturalsInduction, WellFoundedInduction, TLAPS

\* The initial key is a key.
LEMMA SomeKey == NoKey \in Key /\ NoAnswer \in [age : Nat, of : Tenant]
<1>1. PICK t \in Tenant : TRUE  BY ClientAssumption
<1>2. PICK g \in Catalog : TRUE  BY ClientAssumption
<1>3. <<t, g>> \in Key  BY DEF Key
<1>4. NoKey \in Key  BY <1>3 DEF NoKey
<1> QED  BY <1>4 DEF NoAnswer, Key

\* The invariant holds at first: nothing is cached and nobody asks.
LEMMA InvInit ==
  ASSUME Init
  PROVE  ClientInv
<1>1. TypeOK  BY SomeKey, ClientAssumption DEF Init, TypeOK, Key
<1>2. RequestsOK  BY ClientAssumption DEF Init, RequestsOK
<1>3. SnapshotsOK  BY ClientAssumption DEF Init, SnapshotsOK
<1>4. TokensOK  BY DEF Init, TokensOK
<1>5. AnswerIsRecent  BY DEF Init, AnswerIsRecent
<1> QED  BY <1>1, <1>2, <1>3, <1>4, <1>5 DEF ClientInv, CacheInv

\* The actions of Next, one by one.
LEMMA NextCases ==
  ASSUME Next
  PROVE  \/ \E c \in Caller, k \in Key : Hit(c, k)
         \/ \E c \in Caller, k \in Key, person \in BOOLEAN : Miss(c, k, person)
         \/ \E c \in Caller : \E since \in 0 .. waited[c] : Reply(c, since)
         \/ \E c \in Caller : CallFails(c)
         \/ \E c \in Caller : Return(c)
         \/ \E c \in Caller : TokenHit(c)
         \/ \E c \in Caller : MintStart(c)
         \/ \E c \in Caller : \E ttl \in Life : \E since \in 0 .. waited[c] : Minted(c, ttl, since)
         \/ \E c \in Caller : MintFails(c)
         \/ Elapse
BY DEF Next, Ask, Goroutine, Answered, Granted

\* Types.
LEMMA TypeStep ==
  ASSUME TypeOK, Next
  PROVE  TypeOK'
<1> USE ClientAssumption, SomeKey DEF TypeOK, callVars, tokenVars, cacheVars
<1>1. ASSUME NEW c \in Caller, NEW k \in Key, Hit(c, k)
      PROVE  TypeOK'
  <2>1. [age |-> read[k], of |-> from[k]] \in [age : Nat, of : Tenant]  OBVIOUS
  <2> QED  BY <1>1, <2>1 DEF Hit, Goes
<1>2. ASSUME NEW c \in Caller, NEW k \in Key, NEW person \in BOOLEAN, Miss(c, k, person)
      PROVE  TypeOK'
  BY <1>2 DEF Miss, Goes
<1>3. ASSUME NEW c \in Caller, NEW since \in 0 .. waited[c], Reply(c, since)
      PROVE  TypeOK'
  <2>1. key[c][1] \in Tenant  BY DEF Key
  <2>2. waited[c] \in Nat /\ since \in Nat  OBVIOUS
  <2>3. [age |-> since, of |-> key[c][1]] \in [age : Nat, of : Tenant]  BY <2>1, <2>2
  <2> QED  BY <1>3, <2>1, <2>2, <2>3 DEF Reply, Answers, Goes
<1>4. ASSUME NEW c \in Caller, CallFails(c)
      PROVE  TypeOK'
  BY <1>4 DEF CallFails, Ends, Goes
<1>5. ASSUME NEW c \in Caller, Return(c)
      PROVE  TypeOK'
  BY <1>5 DEF Return, Ends, Goes
<1>6. ASSUME NEW c \in Caller, TokenHit(c)
      PROVE  TypeOK'
  <2>1. key[c][1] \in Tenant  BY DEF Key
  <2> QED  BY <1>6, <2>1 DEF TokenHit, Goes
<1>7. ASSUME NEW c \in Caller, MintStart(c)
      PROVE  TypeOK'
  BY <1>7 DEF MintStart, Goes
<1>8. ASSUME NEW c \in Caller, NEW ttl \in Life, NEW since \in 0 .. waited[c], Minted(c, ttl, since)
      PROVE  TypeOK'
  <2>1. ttl \in Nat /\ since \in Nat  OBVIOUS
  <2>2. Larger(ttl - since, 0) \in Nat /\ Larger(ttl, LeastLife) - Margin \in Nat
    BY <2>1 DEF Larger
  <2> QED  BY <1>8, <2>2 DEF Minted, Goes
<1>9. ASSUME NEW c \in Caller, MintFails(c)
      PROVE  TypeOK'
  BY <1>9 DEF MintFails, Ends, Goes
<1>10. ASSUME Elapse
       PROVE  TypeOK'
  <2>1. \A n \in Nat : Less(n) \in Nat  BY DEF Less, Larger
  <2>2. \A k \in Key : fetched[k] < TTL => fetched[k] + 1 \in 0 .. TTL  OBVIOUS
  <2>3. fetched' \in [Key -> 0 .. TTL]  BY <1>10, <2>2 DEF Elapse
  <2>4. read' \in [Key -> Nat] /\ from' = from /\ waited' \in [Caller -> Nat]
    BY <1>10 DEF Elapse
  <2>5. life' \in [Tenant -> Nat] /\ reuse' \in [Tenant -> Nat] /\ bearer' \in [Caller -> Nat]
    BY <1>10, <2>1 DEF Elapse
  <2> QED  BY <1>10, <2>3, <2>4, <2>5 DEF Elapse
<1> QED  BY NextCases, <1>1, <1>2, <1>3, <1>4, <1>5, <1>6, <1>7, <1>8, <1>9, <1>10

\* Who holds the mutex, and how long a request has been out: one step per
\* action.
LEMMA RequestsStep ==
  ASSUME TypeOK, RequestsOK, Next
  PROVE  RequestsOK'
<1> USE ClientAssumption DEF TypeOK, RequestsOK, callVars, tokenVars, cacheVars
<1>1. ASSUME NEW c \in Caller, NEW k \in Key, Hit(c, k)
      PROVE  RequestsOK'
  BY <1>1 DEF Hit, Goes
<1>2. ASSUME NEW c \in Caller, NEW k \in Key, NEW person \in BOOLEAN, Miss(c, k, person)
      PROVE  RequestsOK'
  BY <1>2 DEF Miss, Goes
<1>3. ASSUME NEW c \in Caller, NEW since \in 0 .. waited[c], Reply(c, since)
      PROVE  RequestsOK'
  BY <1>3 DEF Reply, Answers, Goes
<1>4. ASSUME NEW c \in Caller, CallFails(c)
      PROVE  RequestsOK'
  BY <1>4 DEF CallFails, Ends, Goes
<1>5. ASSUME NEW c \in Caller, Return(c)
      PROVE  RequestsOK'
  BY <1>5 DEF Return, Ends, Goes
<1>6. ASSUME NEW c \in Caller, TokenHit(c)
      PROVE  RequestsOK'
  BY <1>6 DEF TokenHit, Goes
<1>7. ASSUME NEW c \in Caller, MintStart(c)
      PROVE  RequestsOK'
  BY <1>7 DEF MintStart, Goes
<1>8. ASSUME NEW c \in Caller, NEW ttl \in Life, NEW since \in 0 .. waited[c], Minted(c, ttl, since)
      PROVE  RequestsOK'
  BY <1>8 DEF Minted, Goes
<1>9. ASSUME NEW c \in Caller, MintFails(c)
      PROVE  RequestsOK'
  BY <1>9 DEF MintFails, Ends, Goes
<1>10. ASSUME Elapse
       PROVE  RequestsOK'
  BY <1>10 DEF Elapse, InTime
<1> QED  BY NextCases, <1>1, <1>2, <1>3, <1>4, <1>5, <1>6, <1>7, <1>8, <1>9, <1>10

\* The snapshots: only Reply stores one, and time makes what it was read from
\* as much older as the snapshot.
LEMMA SnapshotsStep ==
  ASSUME TypeOK, RequestsOK, SnapshotsOK, Next
  PROVE  SnapshotsOK'
<1> USE ClientAssumption DEF TypeOK, SnapshotsOK, cacheVars
<1>1. ASSUME UNCHANGED cacheVars
      PROVE  SnapshotsOK'
  BY <1>1
<1>2. ASSUME NEW c \in Caller, NEW since \in 0 .. waited[c], Reply(c, since)
      PROVE  SnapshotsOK'
  <2>1. since <= CallTimeout  BY <1>2 DEF Reply, RequestsOK
  <2>2. waited[c] \in Nat /\ since \in Nat  OBVIOUS
  <2> QED  BY <1>2, <2>1, <2>2 DEF Reply
<1>3. ASSUME Elapse
      PROVE  SnapshotsOK'
  <2> SUFFICES ASSUME NEW k \in Key
               PROVE  from'[k] = k[1] /\ (fetched'[k] < TTL => read'[k] <= fetched'[k] + CallTimeout)
    OBVIOUS
  <2>1. fetched[k] \in 0 .. TTL /\ read[k] \in Nat  OBVIOUS
  <2>2. fetched'[k] = IF fetched[k] < TTL THEN fetched[k] + 1 ELSE TTL  BY <1>3 DEF Elapse
  <2>3. read'[k] = IF fetched[k] + 1 < TTL THEN read[k] + 1 ELSE 0  BY <1>3 DEF Elapse
  <2>4. from' = from  BY <1>3 DEF Elapse
  <2> QED  BY <2>1, <2>2, <2>3, <2>4
<1> QED
  BY NextCases, <1>1, <1>2, <1>3
  DEF Hit, Miss, CallFails, Return, TokenHit, MintStart, Minted, MintFails

\* The answers: from a fresh snapshot, or from the reply.  No time passes while
\* a call has its answer.
LEMMA AnswerStep ==
  ASSUME TypeOK, RequestsOK, SnapshotsOK, AnswerIsRecent, Next
  PROVE  AnswerIsRecent'
<1> USE ClientAssumption DEF TypeOK, AnswerIsRecent, Goes
<1>1. ASSUME NEW c \in Caller, NEW k \in Key, Hit(c, k)
      PROVE  AnswerIsRecent'
  <2>1. fetched[k] \in 0 .. TTL /\ read[k] \in Nat  OBVIOUS
  <2>2. read[k] < TTL + CallTimeout /\ from[k] = k[1]  BY <1>1, <2>1 DEF Hit, SnapshotsOK
  <2> QED  BY <1>1, <2>2 DEF Hit
<1>2. ASSUME NEW c \in Caller, NEW since \in 0 .. waited[c], Reply(c, since)
      PROVE  AnswerIsRecent'
  <2>1. waited[c] \in Nat /\ since \in Nat  OBVIOUS
  <2>2. since < TTL + CallTimeout  BY <1>2, <2>1 DEF Reply, RequestsOK
  <2> QED  BY <1>2, <2>2 DEF Reply, Answers
<1>3. ASSUME NEW c \in Caller, NEW k \in Key, NEW person \in BOOLEAN, Miss(c, k, person)
      PROVE  AnswerIsRecent'
  BY <1>3 DEF Miss
<1>4. ASSUME NEW c \in Caller, CallFails(c) \/ Return(c) \/ MintFails(c)
      PROVE  AnswerIsRecent'
  <2>1. Ends(c)  BY <1>4 DEF CallFails, Return, MintFails
  <2>2. /\ at' = [at EXCEPT ![c] = "idle"] /\ key' = [key EXCEPT ![c] = NoKey]
        /\ answer' = [answer EXCEPT ![c] = NoAnswer]
    BY <2>1 DEF Ends
  <2> QED  BY <2>2
<1>5. ASSUME NEW c \in Caller, TokenHit(c) \/ MintStart(c)
      PROVE  AnswerIsRecent'
  BY <1>5 DEF TokenHit, MintStart
<1>6. ASSUME NEW c \in Caller, NEW ttl \in Life, NEW since \in 0 .. waited[c], Minted(c, ttl, since)
      PROVE  AnswerIsRecent'
  BY <1>6 DEF Minted
<1>7. ASSUME Elapse
      PROVE  AnswerIsRecent'
  BY <1>7 DEF Elapse
<1> QED  BY NextCases, <1>1, <1>2, <1>3, <1>4, <1>5, <1>6, <1>7

\* The tokens, under the assumption on the margin: Minted grants the margin and
\* more, TokenHit hands out what has it left, and time takes from both sides.
LEMMA TokensStep ==
  ASSUME MarginSuffices, TypeOK, RequestsOK, TokensOK, Next
  PROVE  TokensOK'
<1> USE ClientAssumption, MarginSuffices DEF TypeOK, TokensOK, Goes, tokenVars, callVars
<1>1. ASSUME NEW c \in Caller, NEW k \in Key, Hit(c, k)
      PROVE  TokensOK'
  BY <1>1 DEF Hit
<1>2. ASSUME NEW c \in Caller, NEW k \in Key, NEW person \in BOOLEAN, Miss(c, k, person)
      PROVE  TokensOK'
  BY <1>2 DEF Miss
<1>3. ASSUME NEW c \in Caller, NEW since \in 0 .. waited[c], Reply(c, since)
      PROVE  TokensOK'
  BY <1>3 DEF Reply, Answers
<1>4. ASSUME NEW c \in Caller, CallFails(c) \/ Return(c) \/ MintFails(c)
      PROVE  TokensOK'
  BY <1>4 DEF CallFails, Return, MintFails, Ends
<1>5. ASSUME NEW c \in Caller, TokenHit(c)
      PROVE  TokensOK'
  <2> DEFINE t == key[c][1]
  <2>1. t \in Tenant  BY DEF Key
  <2>2. life[t] \in Nat /\ reuse[t] \in Nat /\ reuse[t] > 0  BY <1>5, <2>1 DEF TokenHit
  <2>3. life[t] > CallTimeout  BY <2>1, <2>2 DEF MarginSuffices
  <2>4. waited[c] = 0  BY <1>5 DEF TokenHit, RequestsOK
  <2>5. bearer'[c] = life[t]  BY <1>5 DEF TokenHit
  <2> HIDE DEF t
  <2> QED  BY <1>5, <2>2, <2>3, <2>4, <2>5 DEF TokenHit
<1>6. ASSUME NEW c \in Caller, MintStart(c)
      PROVE  TokensOK'
  BY <1>6 DEF MintStart
<1>7. ASSUME NEW c \in Caller, NEW ttl \in Life, NEW since \in 0 .. waited[c], Minted(c, ttl, since)
      PROVE  TokensOK'
  <2> DEFINE t == key[c][1]
  <2>1. t \in Tenant  BY DEF Key
  <2>2. ttl \in Nat /\ waited[c] \in Nat /\ since \in Nat /\ since <= MintTimeout
    BY <1>7 DEF Minted, RequestsOK
  <2>3. ttl >= LeastLife  BY DEF MarginSuffices
  <2>4. Larger(ttl, LeastLife) = ttl  BY <2>2, <2>3 DEF Larger
  <2>5. Larger(ttl - since, 0) = ttl - since /\ ttl - since > CallTimeout
    BY <2>2, <2>3 DEF Larger, MarginSuffices
  <2>6. life'[t] = ttl - since /\ reuse'[t] = ttl - Margin /\ bearer'[c] = ttl - since /\ waited'[c] = 0
    BY <1>7, <2>1, <2>4, <2>5 DEF Minted
  <2>7. life'[t] + MintTimeout >= reuse'[t] + Margin  BY <2>2, <2>6
  <2>8. bearer'[c] + waited'[c] > CallTimeout  BY <2>2, <2>5, <2>6
  <2>9. \A d \in Caller \ {c} : /\ at'[d] = at[d] /\ user'[d] = user[d]
                                /\ bearer'[d] = bearer[d] /\ waited'[d] = waited[d]
    BY <1>7 DEF Minted
  <2>10. \A s \in Tenant \ {t} : life'[s] = life[s] /\ reuse'[s] = reuse[s]
    BY <1>7 DEF Minted
  <2> HIDE DEF t
  <2> QED  BY <2>7, <2>8, <2>9, <2>10
<1>8. ASSUME Elapse
      PROVE  TokensOK'
  <2>1. ASSUME NEW t \in Tenant, reuse'[t] > 0
        PROVE  life'[t] + MintTimeout >= reuse'[t] + Margin
    <3>1. life[t] \in Nat /\ reuse[t] \in Nat  OBVIOUS
    <3>2. life'[t] = Less(life[t]) /\ reuse'[t] = Less(reuse[t])  BY <1>8 DEF Elapse
    <3>3. reuse[t] > 0  BY <2>1, <3>1, <3>2 DEF Less, Larger
    <3>4. life[t] > 0  BY <3>1, <3>3 DEF MarginSuffices
    <3> QED  BY <3>1, <3>2, <3>3, <3>4 DEF Less, Larger
  <2>2. ASSUME NEW c \in Caller, at'[c] = "call", ~ user'[c]
        PROVE  bearer'[c] + waited'[c] > CallTimeout
    <3>1. bearer[c] \in Nat /\ waited[c] \in Nat  OBVIOUS
    <3>2. at[c] = "call" /\ ~ user[c] /\ waited[c] < CallTimeout  BY <1>8, <2>2 DEF Elapse, InTime
    <3>3. bearer'[c] = Less(bearer[c]) /\ waited'[c] = waited[c] + 1  BY <1>8, <3>2 DEF Elapse
    <3>4. bearer[c] > 0  BY <3>1, <3>2
    <3> QED  BY <3>1, <3>2, <3>3, <3>4 DEF Less, Larger
  <2> QED  BY <2>1, <2>2
<1> QED  BY NextCases, <1>1, <1>2, <1>3, <1>4, <1>5, <1>6, <1>7, <1>8

\* What the cache keeps, with any tokens: a step preserves it.
LEMMA CacheStep ==
  ASSUME CacheInv, [Next]_vars
  PROVE  CacheInv'
<1>1. CASE Next
  BY <1>1, TypeStep, RequestsStep, SnapshotsStep, AnswerStep DEF CacheInv
<1>2. CASE UNCHANGED vars
  BY <1>2 DEF vars, cacheVars, tokenVars, callVars, CacheInv, TypeOK, RequestsOK, SnapshotsOK, AnswerIsRecent
<1> QED  BY <1>1, <1>2

\* What every call answers was true at most a TTL and a call ago, and is about
\* its own tenant (treeFor, costCentersFor, assetTypesFor), whatever the tokens.
THEOREM AnswerIsRecentHolds == Spec => []AnswerIsRecent
<1>1. Init => CacheInv  BY InvInit DEF ClientInv
<1>2. CacheInv /\ [Next]_vars => CacheInv'  BY CacheStep
<1>3. CacheInv => AnswerIsRecent  BY DEF CacheInv
<1> QED  BY <1>1, <1>2, <1>3, PTL DEF Spec

\* The cache and the tokens (ServiceTokens.Token), with lives of a minute or
\* more: the invariant of both.
THEOREM ClientInvHolds ==
  ASSUME MarginSuffices
  PROVE  Spec => []ClientInv
<1>1. Init => ClientInv  BY InvInit
<1>2. ClientInv /\ [Next]_vars => ClientInv'
  <2> SUFFICES ASSUME ClientInv, [Next]_vars
               PROVE  ClientInv'
    OBVIOUS
  <2>1. CacheInv'  BY CacheStep DEF ClientInv
  <2>2. CASE Next
    BY <2>1, <2>2, TokensStep DEF ClientInv, CacheInv
  <2>3. CASE UNCHANGED vars
    BY <2>1, <2>3 DEF ClientInv, TokensOK, vars, tokenVars, callVars
  <2> QED  BY <2>2, <2>3
<1> QED  BY <1>1, <1>2, PTL DEF Spec

\* No call is under way with a token that has run out (ServiceTokens.Token,
\* Outgoing), when the margin covers a mint and a call.
THEOREM TokenOutlivesCallHolds ==
  ASSUME MarginSuffices
  PROVE  Spec => []TokenOutlivesCall
<1>1. ClientInv => TokenOutlivesCall
  <2> SUFFICES ASSUME ClientInv, NEW c \in Caller, at[c] = "call", ~ user[c]
               PROVE  bearer[c] > 0
    BY DEF TokenOutlivesCall
  <2>1. bearer[c] \in Nat /\ waited[c] \in Nat /\ waited[c] <= CallTimeout
    BY DEF ClientInv, CacheInv, TypeOK, RequestsOK
  <2>2. bearer[c] + waited[c] > CallTimeout  BY DEF ClientInv, TokensOK
  <2> QED  BY <2>1, <2>2, ClientAssumption
<1> QED  BY <1>1, ClientInvHolds, PTL

-----------------------------------------------------------------------------
(* The answers of References. The theorems of the library on induction take *)
(* operators; these two take sets.                                         *)
\* A set of numbers with 0 and the successor of each of its own has them all.
LEMMA AllNumbers ==
  ASSUME NEW T \in SUBSET Nat, 0 \in T, \A n \in T : n + 1 \in T
  PROVE  T = Nat
<1> SUFFICES ASSUME Nat \ T # {} PROVE FALSE
  OBVIOUS
<1> DEFINE Before == OpToRel(<, Nat)
<1>0. IsWellFoundedOn(Before, Nat)
  BY NatLessThanWellFounded, Zenon
<1>5. \A m, n \in Nat : m < n => <<m, n>> \in Before
  BY Zenon DEF OpToRel
<1> HIDE DEF Before
<1>1. PICK n \in Nat \ T : \A m \in Nat \ T : ~ (<<m, n>> \in Before)
  BY <1>0, WFMin
<1>2. n - 1 \in Nat /\ n - 1 < n
  BY <1>1
<1>3. n - 1 \notin T
  BY <1>2
<1>4. <<n - 1, n>> \in Before
  BY <1>1, <1>2, <1>5
<1> QED
  BY <1>1, <1>2, <1>3, <1>4

\* A set of numbers that is not empty has a least one.
LEMMA LeastNumber ==
  ASSUME NEW T \in SUBSET Nat, T # {}
  PROVE  \E k \in T : \A j \in T : k <= j
<1> DEFINE Before == OpToRel(<, Nat)
<1>1. IsWellFoundedOn(Before, Nat)
  BY NatLessThanWellFounded, Zenon
<1>2. \A m, n \in Nat : m < n => <<m, n>> \in Before
  BY Zenon DEF OpToRel
<1> HIDE DEF Before
<1>3. PICK k \in T : \A j \in T : ~ (<<j, k>> \in Before)
  BY <1>1, WFMin
<1>4. \A j \in T : ~ (j < k) BY <1>2, <1>3
<1> QED BY <1>3, <1>4

-----------------------------------------------------------------------------
(* Trees. The nodes above one are the least set that has it and the parent  *)
(* of each of its own.                                                     *)
Closed(tree, ids) == \A id \in ids : tree[id].parent # 0 => tree[id].parent \in ids

Above(tree, id) ==
  {a \in DOMAIN tree : \A ids \in SUBSET DOMAIN tree : id \in ids /\ Closed(tree, ids) => a \in ids}

\* What a tree is, without the sets of records.
LEMMA Parents ==
  ASSUME NEW tree, IsTree(tree)
  PROVE  /\ DOMAIN tree \subseteq Ids /\ IsFiniteSet(DOMAIN tree) /\ 0 \notin DOMAIN tree
         /\ \A id \in DOMAIN tree :
              /\ tree[id].parent \in DOMAIN tree \cup {0}
              /\ tree[id].active \in BOOLEAN /\ tree[id].window = <<0, 0>>
         /\ \A ids \in SUBSET DOMAIN tree : ids # {} => \E id \in ids : tree[id].parent \notin ids
<1>1. DOMAIN tree \subseteq Ids /\ Ids \subseteq Nat \ {0} /\ IsFiniteSet(Ids)
  BY ReferencesAssumption DEF IsTree
<1>2. IsFiniteSet(DOMAIN tree) BY <1>1, FS_Subset
<1>3. ASSUME NEW id \in DOMAIN tree
      PROVE  /\ tree[id].parent \in DOMAIN tree \cup {0}
             /\ tree[id].active \in BOOLEAN /\ tree[id].window = <<0, 0>>
  BY DEF IsTree
<1> QED BY <1>1, <1>2, <1>3 DEF IsTree

\* Above a node there are itself and those above its parent.
LEMMA AboveRule ==
  ASSUME NEW tree, IsTree(tree), NEW id \in DOMAIN tree
  PROVE  /\ Above(tree, id) =
              {id} \cup IF tree[id].parent = 0 THEN {} ELSE Above(tree, tree[id].parent)
         /\ Above(tree, id) \subseteq DOMAIN tree /\ Closed(tree, Above(tree, id))
<1> DEFINE D == DOMAIN tree
           p == tree[id].parent
           rest == IF p = 0 THEN {} ELSE Above(tree, p)
<1>1. p \in D \cup {0} /\ \A n \in D : tree[n].parent \in D \cup {0} BY Parents
<1>2. ASSUME NEW n \in D PROVE n \in Above(tree, n) /\ Above(tree, n) \in SUBSET D /\ Closed(tree, Above(tree, n))
  <2>1. n \in Above(tree, n) /\ Above(tree, n) \in SUBSET D BY DEF Above
  <2>2. ASSUME NEW a \in Above(tree, n), tree[a].parent # 0,
               NEW ids \in SUBSET D, n \in ids, Closed(tree, ids)
        PROVE  tree[a].parent \in ids
    <3>1. a \in ids BY <2>2 DEF Above
    <3> QED BY <2>2, <3>1 DEF Closed
  <2>3. \A a \in Above(tree, n) : tree[a].parent # 0 => tree[a].parent \in D BY <1>1, <2>1
  <2>4. Closed(tree, Above(tree, n)) BY <2>2, <2>3 DEF Closed, Above
  <2> QED BY <2>1, <2>4
<1>3. {id} \cup rest \in SUBSET D BY <1>1, <1>2
<1>4. Closed(tree, {id} \cup rest)
  <2> SUFFICES ASSUME NEW a \in {id} \cup rest, tree[a].parent # 0
               PROVE  tree[a].parent \in {id} \cup rest
    BY DEF Closed
  <2>1. CASE a = id
    <3>1. p # 0 /\ p \in D BY <1>1, <2>1
    <3> QED BY <1>2, <2>1, <3>1
  <2>2. CASE a \in rest
    <3>1. p # 0 /\ p \in D /\ a \in Above(tree, p) BY <1>1, <2>2
    <3> QED BY <1>2, <3>1 DEF Closed
  <2> QED BY <2>1, <2>2
<1>5. Above(tree, id) \subseteq {id} \cup rest
  <2> HIDE DEF rest
  <2> QED BY <1>3, <1>4 DEF Above
<1>6. ASSUME p # 0 PROVE Above(tree, p) \subseteq Above(tree, id)
  <2>1. p \in Above(tree, id) BY <1>2, <1>6 DEF Closed
  <2> QED BY <1>2, <2>1 DEF Above
<1>7. {id} \cup rest \subseteq Above(tree, id) BY <1>2, <1>6
<1> QED BY <1>2, <1>5, <1>7

\* The recursion of Lineage has one solution.
LineageRule(up, tree) ==
  up = [n \in DOMAIN tree |->
          {n} \cup (IF tree[n].parent = 0 THEN {} ELSE up[tree[n].parent])]

\* Lineage is defined on a tree, and is what is above.
LEMMA LineageIsAbove ==
  ASSUME NEW tree, IsTree(tree), NEW id \in DOMAIN tree
  PROVE  Lineage(tree, id) = Above(tree, id)
<1> DEFINE D == DOMAIN tree
           f == [n \in D |-> Above(tree, n)]
           up == CHOOSE g : LineageRule(g, tree)
<1>1. ASSUME NEW n \in D
      PROVE  f[n] = {n} \cup (IF tree[n].parent = 0 THEN {} ELSE f[tree[n].parent])
  <2>1. tree[n].parent \in D \cup {0} BY Parents
  <2>2. f[n] = Above(tree, n) /\ (tree[n].parent # 0 => f[tree[n].parent] = Above(tree, tree[n].parent))
    BY <2>1
  <2> HIDE DEF f
  <2> QED BY <2>2, AboveRule
<1>2. f = [n \in D |-> f[n]] OBVIOUS
<1> HIDE DEF f
<1>3. f = [n \in D |-> {n} \cup (IF tree[n].parent = 0 THEN {} ELSE f[tree[n].parent])]
  BY <1>1, <1>2
<1>4. LineageRule(f, tree) BY <1>3, Zenon DEF LineageRule
<1>5. LineageRule(up, tree) BY <1>4, Zenon
<1>6. Lineage(tree, id) = up[id] BY Zenon DEF Lineage, LineageRule
<1> HIDE DEF up
<1>7. \A n \in D : up[n] = {n} \cup (IF tree[n].parent = 0 THEN {} ELSE up[tree[n].parent])
  BY <1>5 DEF LineageRule
<1> DEFINE wrong == {n \in D : up[n] # f[n]}
<1>8. wrong = {}
  <2> SUFFICES ASSUME wrong # {} PROVE FALSE OBVIOUS
  <2>1. wrong \in SUBSET D OBVIOUS
  <2> HIDE DEF wrong
  <2>2. PICK n \in wrong : tree[n].parent \notin wrong BY <2>1, Parents
  <2>3. n \in D /\ tree[n].parent \in D \cup {0} BY <2>1, Parents
  <2>4. tree[n].parent # 0 => up[tree[n].parent] = f[tree[n].parent] BY <2>2, <2>3 DEF wrong
  <2>5. up[n] = f[n]
    <3> DEFINE p == tree[n].parent
    <3>1. f[n] = {n} \cup (IF p = 0 THEN {} ELSE f[p]) BY <1>1, <2>3
    <3>2. up[n] = {n} \cup (IF p = 0 THEN {} ELSE up[p]) BY <1>7, <2>3
    <3>3. CASE p = 0 BY <3>1, <3>2, <3>3
    <3>4. CASE p # 0 BY <2>4, <3>1, <3>2, <3>4
    <3> QED BY <3>3, <3>4
  <2> QED BY <2>2, <2>5 DEF wrong
<1>9. up[id] = f[id] BY <1>8
<1>10. f[id] = Above(tree, id) BY DEF f
<1> QED BY <1>6, <1>9, <1>10

-----------------------------------------------------------------------------
(* Walks. What a walk has seen after so many steps exists for any number.   *)
Iterated(f, S, next, first, N) ==
  f \in [0 .. N -> S] /\ f[0] = first /\ \A k \in 1 .. N : f[k] = next[f[k - 1]]

\* Any number of steps of next can be written down.
LEMMA Iterates ==
  ASSUME NEW S, NEW next \in [S -> S], NEW first \in S, NEW N \in Nat
  PROVE  \E f : Iterated(f, S, next, first, N)
<1> DEFINE Is(f, n) == /\ f \in [0 .. n -> S] /\ f[0] = first
                       /\ \A k \in 1 .. n : f[k] = next[f[k - 1]]
           Has(n) == \E f : Is(f, n)
           T == {n \in Nat : Has(n)}
<1>1. Has(0)
  <2>1. Is([k \in 0 .. 0 |-> first], 0) OBVIOUS
  <2> QED BY <2>1
<1>2. ASSUME NEW n \in Nat, Has(n) PROVE Has(n + 1)
  <2>1. PICK f : Is(f, n) BY <1>2
  <2> DEFINE g == [k \in 0 .. n + 1 |-> IF k = n + 1 THEN next[f[n]] ELSE f[k]]
  <2>2. g[n + 1] = next[f[n]] /\ \A k \in 0 .. n : g[k] = f[k] OBVIOUS
  <2>3. f[n] \in S /\ next[f[n]] \in S BY <2>1
  <2>4. g \in [0 .. n + 1 -> S] BY <2>1, <2>3
  <2> HIDE DEF g
  <2>5. g[0] = first BY <2>1, <2>2
  <2>6. ASSUME NEW k \in 1 .. n + 1 PROVE g[k] = next[g[k - 1]]
    <3>1. CASE k = n + 1
      <4>1. k - 1 = n /\ n \in 0 .. n BY <3>1
      <4> QED BY <2>2, <3>1, <4>1
    <3>2. CASE k # n + 1
      <4>1. k \in 1 .. n /\ k \in 0 .. n /\ k - 1 \in 0 .. n BY <3>2
      <4> QED BY <2>1, <2>2, <4>1
    <3> QED BY <3>1, <3>2
  <2>7. Is(g, n + 1) BY <2>4, <2>5, <2>6
  <2> QED BY <2>7
<1> HIDE DEF Has
<1>3. 0 \in T /\ \A n \in T : n + 1 \in T BY <1>1, <1>2
<1>4. T = Nat BY <1>3, AllNumbers
<1>5. Has(N) BY <1>4
<1> QED BY <1>5 DEF Has, Iterated

Steps(tree) == Cardinality(DOMAIN tree) + 1

ChainRule(up, tree, id) ==
  up = [k \in 0 .. Steps(tree) |->
          IF k = 0 THEN id
          ELSE IF up[k - 1] \in DOMAIN tree THEN tree[up[k - 1]].parent ELSE up[k - 1]]

\* Size is the number of nodes of the snapshot.
LEMMA WalksSize == ASSUME NEW tree PROVE Walks(tree)!Size = Cardinality(DOMAIN tree)
BY Zenon DEF Walks!Size, Walks!Known, Walks!Cardinality, Cardinality

\* Chain is defined, and follows the parents (Path, Ancestors and validate).
LEMMA ChainGoesUp ==
  ASSUME NEW tree, IsTree(tree), NEW id \in Ids
  PROVE  LET c == Walks(tree)!Chain(id)
         IN /\ c \in [0 .. Steps(tree) -> DOMAIN tree \cup {0, id}] /\ c[0] = id
            /\ Steps(tree) \in Nat
            /\ \A k \in 1 .. Steps(tree) :
                 c[k] = IF c[k - 1] \in DOMAIN tree THEN tree[c[k - 1]].parent ELSE c[k - 1]
<1> DEFINE D == DOMAIN tree
           S == D \cup {0, id}
           next == [n \in S |-> IF n \in D THEN tree[n].parent ELSE n]
           c == CHOOSE up : ChainRule(up, tree, id)
           N == Steps(tree)
<1>1. N \in Nat BY Parents, FS_CardinalityType DEF Steps
<1>2. next \in [S -> S] BY Parents
<1>3. \A n \in S : next[n] = IF n \in D THEN tree[n].parent ELSE n OBVIOUS
<1> HIDE DEF next, N
<1>4a. PICK f : Iterated(f, S, next, id, N)
  <2>1. id \in S OBVIOUS
  <2> HIDE DEF S
  <2> QED BY <1>1, <1>2, <2>1, Iterates
<1>4. f \in [0 .. N -> S] /\ f[0] = id /\ \A k \in 1 .. N : f[k] = next[f[k - 1]]
  BY <1>4a DEF Iterated
<1>5. ASSUME NEW k \in 0 .. N
      PROVE  f[k] = IF k = 0 THEN id ELSE IF f[k - 1] \in D THEN tree[f[k - 1]].parent ELSE f[k - 1]
  <2>1. CASE k = 0 BY <1>4, <2>1
  <2>2. CASE k # 0
    <3>1. k \in 1 .. N /\ k - 1 \in 0 .. N BY <1>1, <2>2
    <3>2. f[k] = next[f[k - 1]] /\ f[k - 1] \in S BY <1>4, <3>1
    <3> QED BY <1>3, <2>2, <3>2
  <2> QED BY <2>1, <2>2
<1>6. f = [k \in 0 .. N |-> f[k]] BY <1>4
<1>7. f = [k \in 0 .. N |-> IF k = 0 THEN id
                            ELSE IF f[k - 1] \in D THEN tree[f[k - 1]].parent ELSE f[k - 1]]
  BY <1>5, <1>6
<1>8. ChainRule(f, tree, id) BY <1>7, Zenon DEF ChainRule, N
<1>9. ChainRule(c, tree, id) BY <1>8, Zenon
<1>10. Walks(tree)!Chain(id) = c
  BY WalksSize, Zenon DEF Walks!Chain, Walks!Known, ChainRule, Steps
<1> HIDE DEF c
<1>11. c = [k \in 0 .. N |-> IF k = 0 THEN id
                             ELSE IF c[k - 1] \in D THEN tree[c[k - 1]].parent ELSE c[k - 1]]
  BY <1>9, Zenon DEF ChainRule, N
<1>12. \A k \in 0 .. N :
         c[k] = IF k = 0 THEN id ELSE IF c[k - 1] \in D THEN tree[c[k - 1]].parent ELSE c[k - 1]
  BY <1>11
<1>13. c[0] = id BY <1>1, <1>12
<1>14. ASSUME NEW k \in 1 .. N
       PROVE  c[k] = IF c[k - 1] \in D THEN tree[c[k - 1]].parent ELSE c[k - 1]
  BY <1>1, <1>12
<1> DEFINE T == {k \in Nat : k <= N => c[k] \in S}
<1>15. 0 \in T BY <1>13
<1>16. ASSUME NEW k \in T PROVE k + 1 \in T
  <2> SUFFICES ASSUME k + 1 <= N PROVE c[k + 1] \in S OBVIOUS
  <2>1. c[k] \in S /\ k + 1 \in 1 .. N /\ (k + 1) - 1 = k BY <1>1
  <2>2. c[k + 1] = IF c[k] \in D THEN tree[c[k]].parent ELSE c[k] BY <1>14, <2>1
  <2> QED BY <2>1, <2>2, Parents
<1>17. T = Nat BY <1>15, <1>16, AllNumbers
<1>18. \A k \in 0 .. N : c[k] \in S BY <1>1, <1>17
<1>19. c \in [0 .. N -> S] BY <1>11, <1>18
<1> QED BY <1>1, <1>10, <1>13, <1>14, <1>19 DEF N

\* A chain of parents in a tree meets nobody twice, and so is over before the
\* steps are: no walk has the answer Endless or Broken.
LEMMA ChainEnds ==
  ASSUME NEW tree, IsTree(tree), NEW id \in DOMAIN tree
  PROVE  LET c == Walks(tree)!Chain(id)
             N == Steps(tree)
         IN c[N - 1] = 0 /\ c[N] = 0 /\ N - 1 \in Nat /\ N \in Nat
<1> DEFINE D == DOMAIN tree
           c == Walks(tree)!Chain(id)
           N == Steps(tree)
           V(k) == {c[j] : j \in 0 .. k}
           T == {k \in Nat : k <= N - 1 /\ c[k] # 0 =>
                   V(k) \subseteq D /\ IsFiniteSet(V(k)) /\ Cardinality(V(k)) = k + 1}
<1>1. /\ IsFiniteSet(D) /\ 0 \notin D /\ \A n \in D : tree[n].parent \in D \cup {0}
      /\ \A ids \in SUBSET D : ids # {} => \E n \in ids : tree[n].parent \notin ids
  BY Parents
<1>2. id \in Ids BY Parents
<1>3. /\ c \in [0 .. N -> D \cup {0, id}] /\ c[0] = id /\ N \in Nat
      /\ \A k \in 1 .. N : c[k] = IF c[k - 1] \in D THEN tree[c[k - 1]].parent ELSE c[k - 1]
  BY <1>2, ChainGoesUp
<1>4. Cardinality(D) \in Nat /\ N = Cardinality(D) + 1 BY <1>1, FS_CardinalityType DEF Steps
<1> HIDE DEF c, N
<1>5. \A k \in 0 .. N : c[k] # 0 => c[k] \in D BY <1>3
<1>6. ASSUME NEW k \in Nat, k + 1 <= N
      PROVE  c[k + 1] = IF c[k] \in D THEN tree[c[k]].parent ELSE c[k]
  <2>1. k + 1 \in 1 .. N /\ (k + 1) - 1 = k BY <1>3, <1>6
  <2> QED BY <1>3, <2>1
<1>7. 0 \in T
  <2>1. V(0) = {id} BY <1>3
  <2>2. IsFiniteSet({id}) /\ Cardinality({id}) = 1 BY FS_Singleton
  <2> QED BY <2>1, <2>2
<1>8. ASSUME NEW k \in T PROVE k + 1 \in T
  <2> SUFFICES ASSUME k + 1 <= N - 1, c[k + 1] # 0
               PROVE  /\ V(k + 1) \subseteq D /\ IsFiniteSet(V(k + 1))
                      /\ Cardinality(V(k + 1)) = (k + 1) + 1
    BY DEF T
  <2>1. k \in Nat /\ k + 1 <= N /\ k <= N - 1 /\ k \in 0 .. N /\ k + 1 \in 0 .. N BY <1>3
  <2>2. c[k] # 0 /\ c[k] \in D
    <3>1. c[k] = 0 => c[k + 1] = 0 BY <1>1, <1>6, <2>1
    <3> QED BY <1>5, <2>1, <3>1
  <2>3. V(k) \subseteq D /\ IsFiniteSet(V(k)) /\ Cardinality(V(k)) = k + 1 BY <2>1, <2>2
  <2>4. c[k + 1] \in D BY <1>5, <2>1
  <2>5. c[k + 1] \notin V(k)
    <3> SUFFICES ASSUME c[k + 1] \in V(k) PROVE FALSE OBVIOUS
    <3>1. PICK i \in 0 .. k : c[k + 1] = c[i] OBVIOUS
    <3> DEFINE ids == {c[j] : j \in i .. k}
    <3>2. i .. k \subseteq 0 .. k /\ i \in i .. k BY <2>1
    <3>3. ids \in SUBSET D /\ ids # {} BY <2>3, <3>2
    <3>4. ASSUME NEW j \in i .. k PROVE tree[c[j]].parent \in ids
      <4>1. j \in Nat /\ j + 1 <= N /\ j \in 0 .. k BY <1>3, <2>1, <3>1
      <4>2. c[j] \in D BY <3>3
      <4>3. tree[c[j]].parent = c[j + 1] BY <1>6, <4>1, <4>2
      <4>4. CASE j = k BY <3>1, <3>2, <4>3, <4>4
      <4>5. CASE j # k
        <5>1. j + 1 \in i .. k BY <2>1, <4>5
        <5> QED BY <4>3, <5>1
      <4> QED BY <4>4, <4>5
    <3>5. \A n \in ids : tree[n].parent \in ids BY <3>4
    <3> HIDE DEF ids
    <3> QED BY <1>1, <3>3, <3>5
  <2>6. V(k + 1) = V(k) \cup {c[k + 1]}
    <3>1. 0 .. k + 1 = (0 .. k) \cup {k + 1} BY <2>1
    <3> QED BY <3>1
  <2> HIDE DEF V
  <2>7. IsFiniteSet(V(k + 1)) /\ Cardinality(V(k + 1)) = Cardinality(V(k)) + 1
    BY <2>3, <2>5, <2>6, FS_AddElement
  <2> QED BY <2>3, <2>4, <2>6, <2>7
<1>9. T = Nat BY <1>7, <1>8, AllNumbers
<1>10. N - 1 \in Nat /\ N - 1 \in 0 .. N BY <1>3, <1>4
<1>11. c[N - 1] = 0
  <2> SUFFICES ASSUME c[N - 1] # 0 PROVE FALSE OBVIOUS
  <2>1. V(N - 1) \subseteq D /\ IsFiniteSet(V(N - 1)) /\ Cardinality(V(N - 1)) = (N - 1) + 1
    BY <1>9, <1>10
  <2> HIDE DEF V
  <2>2. Cardinality(V(N - 1)) <= Cardinality(D) BY <1>1, <2>1, FS_Subset
  <2> QED BY <1>3, <1>4, <2>1, <2>2
<1>12. c[N] = 0
  <2>1. (N - 1) + 1 = N BY <1>3
  <2>2. c[(N - 1) + 1] = IF c[N - 1] \in D THEN tree[c[N - 1]].parent ELSE c[N - 1]
    BY <1>3, <1>6, <1>10, <2>1
  <2> QED BY <1>1, <1>11, <2>1, <2>2
<1> QED BY <1>3, <1>10, <1>11, <1>12 DEF c, N

\* The chain of a node has all that is above it, and no more.
LEMMA ChainIsAbove ==
  ASSUME NEW tree, IsTree(tree), NEW id \in DOMAIN tree
  PROVE  LET c == Walks(tree)!Chain(id)
         IN Above(tree, id) = {c[k] : k \in 0 .. Steps(tree)} \ {0}
<1> DEFINE D == DOMAIN tree
           c == Walks(tree)!Chain(id)
           N == Steps(tree)
           V == {c[k] : k \in 0 .. N} \ {0}
<1>1. 0 \notin D /\ id \in Ids /\ \A n \in D : tree[n].parent \in D \cup {0} BY Parents
<1>2. /\ c \in [0 .. N -> D \cup {0, id}] /\ c[0] = id
      /\ \A k \in 1 .. N : c[k] = IF c[k - 1] \in D THEN tree[c[k - 1]].parent ELSE c[k - 1]
  BY <1>1, ChainGoesUp
<1>3. c[N] = 0 /\ N \in Nat BY ChainEnds
<1> HIDE DEF c, N
<1>4. ASSUME NEW k \in Nat, k + 1 <= N
      PROVE  c[k + 1] = IF c[k] \in D THEN tree[c[k]].parent ELSE c[k]
  <2>1. k + 1 \in 1 .. N /\ (k + 1) - 1 = k BY <1>3, <1>4
  <2> QED BY <1>2, <2>1
<1>5. V \in SUBSET D /\ id \in V
  <2>1. 0 \in 0 .. N BY <1>3
  <2> QED BY <1>1, <1>2, <2>1
<1>6. Closed(tree, V)
  <2> SUFFICES ASSUME NEW k \in 0 .. N, c[k] # 0, tree[c[k]].parent # 0
               PROVE  tree[c[k]].parent \in V
    BY DEF Closed
  <2>1. k + 1 <= N /\ k \in Nat /\ k + 1 \in 0 .. N BY <1>3
  <2>2. c[k] \in D BY <1>2
  <2>3. c[k + 1] = tree[c[k]].parent BY <1>4, <2>1, <2>2
  <2> QED BY <2>1, <2>3
<1>7. Above(tree, id) \subseteq V
  <2> HIDE DEF V
  <2> QED BY <1>5, <1>6 DEF Above
<1> DEFINE T == {k \in Nat : k <= N /\ c[k] # 0 => c[k] \in Above(tree, id)}
<1>8. id \in Above(tree, id) /\ Closed(tree, Above(tree, id)) /\ Above(tree, id) \subseteq D
  BY AboveRule
<1>9. 0 \in T BY <1>2, <1>8
<1>10. ASSUME NEW k \in T PROVE k + 1 \in T
  <2> SUFFICES ASSUME k + 1 <= N, c[k + 1] # 0 PROVE c[k + 1] \in Above(tree, id) OBVIOUS
  <2>1. k \in Nat /\ k <= N BY <1>3
  <2>2. c[k + 1] = IF c[k] \in D THEN tree[c[k]].parent ELSE c[k] BY <1>4, <2>1
  <2>3. c[k] # 0 BY <1>1, <2>2
  <2>4. c[k] \in Above(tree, id) BY <2>1, <2>3
  <2> QED BY <1>8, <2>2, <2>4 DEF Closed
<1>11. T = Nat BY <1>9, <1>10, AllNumbers
<1>12. V \subseteq Above(tree, id) BY <1>3, <1>11
<1> QED BY <1>7, <1>12 DEF c, N

\* The chain of a node goes on as the one of its parent.
LEMMA ChainShifts ==
  ASSUME NEW tree, IsTree(tree), NEW id \in DOMAIN tree, tree[id].parent # 0,
         NEW k \in Nat, k + 1 <= Steps(tree)
  PROVE  Walks(tree)!Chain(id)[k + 1] = Walks(tree)!Chain(tree[id].parent)[k]
<1> DEFINE D == DOMAIN tree
           p == tree[id].parent
           c == Walks(tree)!Chain(id)
           d == Walks(tree)!Chain(p)
           N == Steps(tree)
<1>1. p \in D /\ D \subseteq Ids /\ id \in Ids BY Parents
<1>2. /\ c[0] = id /\ N \in Nat
      /\ \A j \in 1 .. N : c[j] = IF c[j - 1] \in D THEN tree[c[j - 1]].parent ELSE c[j - 1]
  BY <1>1, ChainGoesUp
<1>3. /\ d[0] = p
      /\ \A j \in 1 .. N : d[j] = IF d[j - 1] \in D THEN tree[d[j - 1]].parent ELSE d[j - 1]
  <2> HIDE DEF p
  <2> QED BY <1>1, ChainGoesUp
<1> HIDE DEF c, d, N
<1>4. ASSUME NEW j \in Nat, j + 1 <= N
      PROVE  /\ c[j + 1] = IF c[j] \in D THEN tree[c[j]].parent ELSE c[j]
             /\ d[j + 1] = IF d[j] \in D THEN tree[d[j]].parent ELSE d[j]
  <2>1. j + 1 \in 1 .. N /\ (j + 1) - 1 = j BY <1>2, <1>4
  <2> QED BY <1>2, <1>3, <2>1
<1> DEFINE T == {j \in Nat : j + 1 <= N => c[j + 1] = d[j]}
<1>5. 0 \in T BY <1>2, <1>3, <1>4
<1>6. ASSUME NEW j \in T PROVE j + 1 \in T
  <2> SUFFICES ASSUME (j + 1) + 1 <= N PROVE c[(j + 1) + 1] = d[j + 1] OBVIOUS
  <2>1. j + 1 <= N /\ j \in Nat BY <1>2
  <2>2. c[j + 1] = d[j] BY <2>1
  <2> QED BY <1>4, <2>1, <2>2
<1>7. T = Nat BY <1>5, <1>6, AllNumbers
<1>8. k + 1 <= N BY DEF N
<1> QED BY <1>7, <1>8 DEF c, d

LayerRule(layer, tree, root) ==
  layer = [k \in 0 .. Cardinality(DOMAIN tree) |->
             IF k = 0 THEN {root}
             ELSE UNION {Walks(tree)!Children(id) : id \in layer[k - 1]}]

\* Layers is defined, and follows the children (Subtree's queue).
LEMMA LayersGoDown ==
  ASSUME NEW tree, IsTree(tree), NEW root \in DOMAIN tree
  PROVE  LET layer == Walks(tree)!Layers(root)
         IN /\ layer[0] = {root}
            /\ \A k \in 1 .. Cardinality(DOMAIN tree) :
                 layer[k] = UNION {Walks(tree)!Children(id) : id \in layer[k - 1]}
<1> DEFINE D == DOMAIN tree
           S == SUBSET D
           Down(ids) == UNION {Walks(tree)!Children(id) : id \in ids}
           next == [ids \in S |-> Down(ids)]
           l == CHOOSE layer : LayerRule(layer, tree, root)
           N == Cardinality(D)
<1>1. N \in Nat BY Parents, FS_CardinalityType
<1>2. \A ids \in S : Down(ids) \in S BY DEF Walks!Children, Walks!Known
<1> HIDE DEF Down
<1>3. next \in [S -> S] /\ \A ids \in S : next[ids] = Down(ids) BY <1>2
<1> HIDE DEF next, N
<1>4. PICK f : Iterated(f, S, next, {root}, N)
  <2>1. {root} \in S OBVIOUS
  <2> HIDE DEF S
  <2> QED BY <1>1, <1>3, <2>1, Iterates
<1>5. f \in [0 .. N -> S] /\ f[0] = {root} /\ \A k \in 1 .. N : f[k] = next[f[k - 1]]
  BY <1>4 DEF Iterated
<1>6. ASSUME NEW k \in 0 .. N
      PROVE  f[k] = IF k = 0 THEN {root} ELSE Down(f[k - 1])
  <2>1. CASE k = 0 BY <1>5, <2>1
  <2>2. CASE k # 0
    <3>1. k \in 1 .. N /\ k - 1 \in 0 .. N BY <1>1, <2>2
    <3>2. f[k] = next[f[k - 1]] /\ f[k - 1] \in S BY <1>5, <3>1
    <3> QED BY <1>3, <2>2, <3>2
  <2> QED BY <2>1, <2>2
<1>7. f = [k \in 0 .. N |-> f[k]] BY <1>5
<1>8. f = [k \in 0 .. N |-> IF k = 0 THEN {root} ELSE Down(f[k - 1])] BY <1>6, <1>7
<1>9. LayerRule(f, tree, root) BY <1>8, Zenon DEF LayerRule, N, Down
<1>10. LayerRule(l, tree, root) BY <1>9, Zenon
<1>11. Walks(tree)!Layers(root) = l
  BY WalksSize, Zenon DEF Walks!Layers, LayerRule
<1> HIDE DEF l
<1>12. l = [k \in 0 .. N |-> IF k = 0 THEN {root} ELSE Down(l[k - 1])]
  BY <1>10, Zenon DEF LayerRule, N, Down
<1>13. \A k \in 0 .. N : l[k] = IF k = 0 THEN {root} ELSE Down(l[k - 1]) BY <1>12
<1>14. l[0] = {root} /\ \A k \in 1 .. N : l[k] = Down(l[k - 1]) BY <1>1, <1>13
<1> QED BY <1>11, <1>14 DEF Down, N

\* A layer has the nodes from which that many steps lead up to the root.
LEMMA LayersAreChains ==
  ASSUME NEW tree, IsTree(tree), NEW root \in DOMAIN tree,
         NEW k \in 0 .. Cardinality(DOMAIN tree)
  PROVE  Walks(tree)!Layers(root)[k] = {id \in DOMAIN tree : Walks(tree)!Chain(id)[k] = root}
<1> DEFINE D == DOMAIN tree
           l == Walks(tree)!Layers(root)
           C(id) == Walks(tree)!Chain(id)
           N == Cardinality(D)
           From(j) == {id \in D : C(id)[j] = root}
           T == {j \in Nat : j <= N => l[j] = From(j)}
<1>1. /\ D \subseteq Ids /\ 0 \notin D /\ \A n \in D : tree[n].parent \in D \cup {0}
      /\ N \in Nat
  BY Parents, FS_CardinalityType
<1>2. Steps(tree) = N + 1 BY DEF Steps
<1>3. l[0] = {root} /\ \A j \in 1 .. N : l[j] = UNION {Walks(tree)!Children(id) : id \in l[j - 1]}
  BY LayersGoDown
<1>4. ASSUME NEW id \in D
      PROVE  C(id)[0] = id
  BY <1>1, ChainGoesUp
<1>5. ASSUME NEW id \in D, NEW j \in Nat, j + 1 <= N, tree[id].parent # 0
      PROVE  C(id)[j + 1] = C(tree[id].parent)[j]
  <2>1. j + 1 <= Steps(tree) BY <1>1, <1>2, <1>5
  <2> QED BY <1>5, <2>1, ChainShifts
<1>6. ASSUME NEW id \in D, NEW j \in Nat, j + 1 <= N, tree[id].parent = 0
      PROVE  C(id)[j + 1] = 0
  <2> DEFINE c == C(id)
             U == {i \in Nat : i + 1 <= N => c[i + 1] = 0}
  <2>1. /\ c[0] = id
        /\ \A i \in 1 .. N + 1 : c[i] = IF c[i - 1] \in D THEN tree[c[i - 1]].parent ELSE c[i - 1]
    BY <1>1, <1>2, ChainGoesUp
  <2> HIDE DEF c
  <2>2. 0 \in U
    <3>1. N >= 1 => 1 \in 1 .. N + 1 BY <1>1
    <3> QED BY <1>1, <1>6, <2>1, <3>1
  <2>3. ASSUME NEW i \in U PROVE i + 1 \in U
    <3> SUFFICES ASSUME (i + 1) + 1 <= N PROVE c[(i + 1) + 1] = 0 OBVIOUS
    <3>1. i + 1 <= N /\ (i + 1) + 1 \in 1 .. N + 1 /\ ((i + 1) + 1) - 1 = i + 1 BY <1>1
    <3>2. c[i + 1] = 0 BY <3>1
    <3> QED BY <1>1, <2>1, <3>1, <3>2
  <2>4. U = Nat BY <2>2, <2>3, AllNumbers
  <2> QED BY <1>6, <2>4 DEF c
<1> HIDE DEF l, C, N
<1>7. 0 \in T
  <2>1. From(0) = {root} BY <1>4
  <2> QED BY <1>3, <2>1
<1>8. ASSUME NEW j \in T PROVE j + 1 \in T
  <2> SUFFICES ASSUME j + 1 <= N PROVE l[j + 1] = From(j + 1) OBVIOUS
  <2>1. j \in Nat /\ j <= N /\ j + 1 \in 1 .. N /\ (j + 1) - 1 = j BY <1>1
  <2>2. l[j] = From(j) BY <2>1
  <2>3. l[j + 1] = UNION {Walks(tree)!Children(id) : id \in From(j)}
    <3> HIDE DEF From
    <3> QED BY <1>3, <2>1, <2>2
  <2>4. l[j + 1] = {id \in D : tree[id].parent \in From(j)}
    BY <2>3 DEF Walks!Children, Walks!Known
  <2>5. ASSUME NEW id \in D PROVE tree[id].parent \in From(j) <=> C(id)[j + 1] = root
    <3>1. CASE tree[id].parent = 0
      <4>1. C(id)[j + 1] = 0 BY <1>6, <2>1, <3>1
      <4> QED BY <1>1, <3>1, <4>1
    <3>2. CASE tree[id].parent # 0
      <4>1. C(id)[j + 1] = C(tree[id].parent)[j] BY <1>5, <2>1, <3>2
      <4>2. tree[id].parent \in D BY <1>1, <3>2
      <4> QED BY <4>1, <4>2
    <3> QED BY <3>1, <3>2
  <2> QED BY <2>4, <2>5
<1>9. T = Nat BY <1>7, <1>8, AllNumbers
<1>10. k \in Nat /\ k <= N BY <1>1 DEF N
<1>11. l[k] = From(k) BY <1>9, <1>10
<1> QED BY <1>11 DEF l, C

-----------------------------------------------------------------------------
(* What is said of a snapshot that is a tree is what core-divisions would   *)
(* say of it.                                                              *)
\* The descendants are those that the root is above.
LEMMA ListedAbove ==
  ASSUME NEW tree, IsTree(tree), NEW root
  PROVE  ListDescendants(tree, root) = {id \in DOMAIN tree : root \in Above(tree, id)}
<1>1. \A id \in DOMAIN tree : Lineage(tree, id) = Above(tree, id) BY LineageIsAbove
<1> QED BY <1>1 DEF ListDescendants

\* Subtree ends, and returns the descendants.
LEMMA SubtreeIsListed ==
  ASSUME NEW tree, IsTree(tree), NEW root
  PROVE  Walks(tree)!Subtree(root) =
           IF root \in DOMAIN tree THEN ListDescendants(tree, root) ELSE NotFound
<1> DEFINE D == DOMAIN tree
           l == Walks(tree)!Layers(root)
           C(id) == Walks(tree)!Chain(id)
           N == Cardinality(D)
<1>1. CASE root \notin D BY <1>1 DEF Walks!Subtree, Walks!Known
<1>2. CASE root \in D
  <2>1. N \in Nat /\ 0 \notin D /\ N + 1 = Steps(tree)
    BY Parents, FS_CardinalityType DEF Steps
  <2>2. \A k \in 0 .. N : l[k] = {id \in D : C(id)[k] = root} BY <1>2, LayersAreChains
  <2>3. \A id \in D : Above(tree, id) = {C(id)[k] : k \in 0 .. N + 1} \ {0}
    BY <2>1, ChainIsAbove
  <2>4. \A id \in D : C(id)[N] = 0 /\ C(id)[N + 1] = 0
    <3>1. N = Steps(tree) - 1 BY <2>1
    <3> QED BY <2>1, <3>1, ChainEnds
  <2>5. Walks(tree)!Subtree(root) = IF l[N] # {} THEN Endless ELSE UNION {l[k] : k \in 0 .. N}
    BY <1>2, WalksSize DEF Walks!Subtree, Walks!Known
  <2> HIDE DEF l, C, N
  <2>6. l[N] = {}
    <3>1. N \in 0 .. N BY <2>1
    <3> QED BY <1>2, <2>1, <2>2, <2>4, <3>1
  <2>7. ASSUME NEW id \in D
        PROVE  root \in Above(tree, id) <=> \E k \in 0 .. N : C(id)[k] = root
    <3>1. root # 0 BY <1>2, <2>1
    <3>2. \A k \in 0 .. N : k \in 0 .. N + 1 BY <2>1
    <3>3. \A k \in 0 .. N + 1 : k \in 0 .. N \/ k = N + 1 BY <2>1
    <3> QED BY <2>3, <2>4, <3>1, <3>2, <3>3
  <2>8. UNION {l[k] : k \in 0 .. N} = {id \in D : root \in Above(tree, id)}
    BY <2>2, <2>7
  <2> QED BY <1>2, <2>5, <2>6, <2>8, ListedAbove
<1> QED BY <1>1, <1>2

\* CheckCoherence answers whether the division is a descendant of the anchor.
LEMMA CoversIsListed ==
  ASSUME NEW tree, IsTree(tree), NEW division, NEW anchor
  PROVE  Walks(tree)!CheckCoherence(division, anchor) =
           IF anchor \notin DOMAIN tree THEN NotFound
           ELSE division \in ListDescendants(tree, anchor)
<1>1. Walks(tree)!Subtree(anchor) =
        IF anchor \in DOMAIN tree THEN ListDescendants(tree, anchor) ELSE NotFound
  BY SubtreeIsListed
<1>2. ListDescendants(tree, anchor) \in SUBSET Ids BY Parents, ListedAbove
<1>3. ListDescendants(tree, anchor) \notin {NotFound, Endless}
  BY <1>2, ReferencesAssumption
<1> QED BY <1>1, <1>3 DEF Walks!CheckCoherence

\* Validate accepts a division when it and all above it are active.
LEMMA ValidIsTrue ==
  ASSUME NEW tree, IsTree(tree), NEW id \in Ids
  PROVE  (Walks(tree)!Validate(id, 1) = "valid") <=> ValidateRefs(tree, id)
<1> DEFINE D == DOMAIN tree
           c == Walks(tree)!Chain(id)
           N == Steps(tree)
           walked == {k \in DOMAIN c : c[k] # 0}
           bad == \E k \in walked : Walks(tree)!Rejects(c[k], 1)
<1>1. DOMAIN c = 0 .. N /\ c[0] = id /\ N \in Nat /\ id # 0
  BY ChainGoesUp, ReferencesAssumption
<1>2. Walks(tree)!Validate(id, 1) =
        IF bad THEN "invalid" ELSE IF walked = DOMAIN c THEN Endless ELSE "valid"
  BY DEF Walks!Validate
<1>3. \A n \in D : Walks(tree)!Rejects(n, 1) <=> ~ tree[n].active
  BY Parents DEF Walks!Rejects, Walks!Closed, Walks!Known
<1>4. CASE id \notin D
  <2>1. Walks(tree)!Rejects(id, 1) BY <1>4 DEF Walks!Rejects, Walks!Known
  <2>2. 0 \in walked BY <1>1
  <2> HIDE DEF c
  <2>3. bad BY <1>1, <2>1, <2>2
  <2> HIDE DEF bad, walked
  <2> QED BY <1>2, <1>4, <2>3 DEF ValidateRefs
<1>5. CASE id \in D
  <2>1. Above(tree, id) = {c[k] : k \in 0 .. N} \ {0} /\ Above(tree, id) \subseteq D
    BY <1>5, ChainIsAbove, AboveRule
  <2>2. c[N] = 0 BY <1>5, ChainEnds
  <2>3. Lineage(tree, id) = Above(tree, id) BY <1>5, LineageIsAbove
  <2> HIDE DEF c, N
  <2>4. walked # DOMAIN c BY <1>1, <2>2
  <2>5. bad <=> \E a \in Above(tree, id) : Walks(tree)!Rejects(a, 1) BY <1>1, <2>1
  <2> HIDE DEF bad, walked
  <2>6. (Walks(tree)!Validate(id, 1) = "valid") <=> ~ bad BY <1>2, <2>4
  <2>7. ValidateRefs(tree, id) <=> \A a \in Above(tree, id) : tree[a].active
    BY <1>5, <2>3 DEF ValidateRefs
  <2> QED BY <1>3, <2>1, <2>5, <2>6, <2>7
<1> QED BY <1>4, <1>5

\* Ancestors returns the path from the root.
LEMMA PathIsTrue ==
  ASSUME NEW tree, IsTree(tree), NEW id \in Ids
  PROVE  LET path == Walks(tree)!Ancestors(id)
         IN IF id \in DOMAIN tree THEN path \notin {NotFound, Broken} /\ IsPath(tree, id, path)
            ELSE path = NotFound
<1> DEFINE D == DOMAIN tree
           c == Walks(tree)!Chain(id)
           N == Steps(tree)
           path == Walks(tree)!Ancestors(id)
           roots == {k \in 1 .. N : c[k] = 0}
           top == CHOOSE k \in roots : \A j \in roots : k <= j
<1>1. CASE id \notin D BY <1>1 DEF Walks!Ancestors, Walks!Known
<1>2. CASE id \in D
  <2>1. /\ D \subseteq Ids /\ IsFiniteSet(D) /\ 0 \notin D
        /\ Cardinality(D) \in Nat /\ Cardinality(D) <= Cardinality(Ids) /\ Cardinality(Ids) \in Nat
    BY Parents, FS_CardinalityType, FS_Subset, ReferencesAssumption
  <2>2. /\ c \in [0 .. N -> D \cup {0, id}] /\ c[0] = id /\ N \in Nat
        /\ \A k \in 1 .. N : c[k] = IF c[k - 1] \in D THEN tree[c[k - 1]].parent ELSE c[k - 1]
    BY ChainGoesUp
  <2>3. N = Cardinality(D) + 1 BY DEF Steps
  <2>4. c[N - 1] = 0 BY <1>2, ChainEnds
  <2>5. Walks(tree)!StepBound = N BY WalksSize, Zenon DEF Walks!StepBound, Steps
  <2>6. path = IF roots = {} THEN Broken ELSE [i \in 1 .. top |-> c[top - i]]
    BY <1>2, <2>5 DEF Walks!Ancestors, Walks!Known
  <2> HIDE DEF c, N, path
  <2>7. N - 1 \in roots
    <3>1. N - 1 # 0 BY <1>2, <2>1, <2>2, <2>4
    <3> QED BY <2>2, <2>1, <2>3, <2>4, <3>1
  <2>8. roots \in SUBSET Nat /\ roots # {} BY <2>2, <2>7
  <2> HIDE DEF roots
  <2>9. \E k \in roots : \A j \in roots : k <= j BY <2>8, LeastNumber
  <2>10. top \in roots /\ \A j \in roots : top <= j BY <2>9
  <2> HIDE DEF top
  <2>11. top \in 1 .. N /\ c[top] = 0 /\ top <= N - 1 BY <2>7, <2>10 DEF roots
  <2>12. ASSUME NEW k \in 0 .. top - 1 PROVE c[k] \in D
    <3>1. k \in 0 .. N BY <2>2, <2>11
    <3>2. c[k] # 0
      <4>1. CASE k = 0 BY <1>2, <2>1, <2>2, <4>1
      <4>2. CASE k # 0
        <5>1. k \in 1 .. N /\ ~ (top <= k) BY <2>2, <2>11, <4>2
        <5> QED BY <2>10, <5>1 DEF roots
      <4> QED BY <4>1, <4>2
    <3> QED BY <1>2, <2>2, <3>1, <3>2
  <2>13. path = [i \in 1 .. top |-> c[top - i]] BY <2>6, <2>8
  <2>14. \A i \in 1 .. top : top - i \in 0 .. top - 1 BY <2>11
  <2>15. \A i \in 1 .. top : path[i] = c[top - i] /\ path[i] \in D BY <2>12, <2>13, <2>14
  <2>16. path \in [1 .. top -> Ids] /\ top \in 0 .. Cardinality(Ids)
    BY <2>1, <2>3, <2>2, <2>11, <2>13, <2>15
  <2>17. path \notin {NotFound, Broken} BY <2>16, ReferencesAssumption
  <2>18. Len(path) = top /\ DOMAIN path = 1 .. top BY <2>11, <2>13
  <2>19. ASSUME NEW i \in 1 .. top
         PROVE  tree[path[i]].parent = c[top - i + 1]
    <3>1. top - i + 1 \in 1 .. N /\ (top - i + 1) - 1 = top - i BY <2>2, <2>11
    <3> QED BY <2>2, <2>15, <3>1
  <2>20. path[top] = id /\ tree[path[1]].parent = 0
    <3>1. 1 \in 1 .. top /\ top \in 1 .. top /\ top - top = 0 /\ top - 1 + 1 = top BY <2>11
    <3>2. path[top] = c[top - top] /\ tree[path[1]].parent = c[top - 1 + 1] BY <2>15, <2>19, <3>1
    <3> QED BY <2>2, <2>11, <3>1, <3>2
  <2>21. ASSUME NEW i \in 2 .. top PROVE tree[path[i]].parent = path[i - 1]
    <3>1. i \in 1 .. top /\ i - 1 \in 1 .. top /\ top - (i - 1) = top - i + 1 BY <2>11
    <3>2. tree[path[i]].parent = c[top - i + 1] /\ path[i - 1] = c[top - (i - 1)]
      BY <2>15, <2>19, <3>1
    <3> QED BY <3>1, <3>2
  <2>22. IsPath(tree, id, path) BY <2>15, <2>18, <2>20, <2>21 DEF IsPath
  <2> QED BY <1>2, <2>17, <2>22 DEF path
<1> QED BY <1>1, <1>2

-----------------------------------------------------------------------------
(* What is answered from what the client holds, or fetches.                *)
\* A fetch gets the catalog as it is, inactive types included.
LEMMA FetchedWhole ==
  ASSUME NEW c \in Catalogs, IsCatalog(c, store[c])
  PROVE  Fetch(c) = store[c]
<1>1. CASE c = "org" BY <1>1 DEF Fetch, GetTree
<1>2. CASE c = "centers" BY <1>2 DEF Fetch, GetCostCenterTree
<1>3. CASE c = "types"
  <2>1. store["types"] \in [DOMAIN store["types"] -> BOOLEAN] BY <1>3 DEF IsCatalog
  <2>2. Fetch("types") = [type \in DOMAIN store["types"] |-> store["types"][type]]
    BY DEF Fetch, ListAssetTypes
  <2> QED BY <1>3, <2>1, <2>2
<1> QED BY <1>1, <1>2, <1>3 DEF Catalogs

\* What a call reads is a catalog of less than a TTL and a call ago (treeFor,
\* costCentersFor, assetTypesFor).
LEMMA ContentWasThere ==
  ASSUME ReferencesInv, NEW c \in Catalogs, held[c] # NoShot
  PROVE  Content(c) \in Recent(c, 0) /\ IsCatalog(c, Content(c))
<1>1. SnapshotTTL \in Nat /\ MaxWait \in Nat BY ReferencesAssumption
<1>2. /\ IsCatalog(c, store[c])
      /\ \A p \in past[c] : p.gone \in 0 .. Memory /\ IsCatalog(c, p.content)
  BY DEF ReferencesInv, CatalogsOK
<1>3. Content(c) = held[c].content BY DEF Content
<1>4. held[c].age \in 0 .. SnapshotTTL - 1 /\ Had(c, held[c].content, held[c].age + MaxWait)
  BY DEF ReferencesInv, HeldOK
<1>5. CASE Content(c) = store[c] BY <1>2, <1>5 DEF Recent
<1>6. ASSUME NEW p \in past[c], p.content = Content(c), p.gone <= held[c].age + MaxWait
      PROVE  Content(c) \in Recent(c, 0) /\ IsCatalog(c, Content(c))
  <2>1. p.gone < SnapshotTTL + MaxWait + 0 BY <1>1, <1>2, <1>4, <1>6 DEF Memory
  <2> QED BY <1>2, <1>6, <2>1 DEF Recent
<1> QED BY <1>3, <1>4, <1>5, <1>6 DEF Had

\* The invariant gives the property.
LEMMA InvMeansTrue ==
  ASSUME ReferencesInv
  PROVE  ReferencesWereTrue
<1> DEFINE org == Content("org")
           centers == Content("centers")
           types == Content("types")
<1>1. held["org"] # NoShot => org \in Recent("org", 0) /\ IsTree(org)
  BY ContentWasThere DEF Catalogs, IsCatalog
<1>2. held["centers"] # NoShot => centers \in Recent("centers", 0) BY ContentWasThere DEF Catalogs
<1>3. held["types"] # NoShot => types \in Recent("types", 0) /\ types \in [DOMAIN types -> BOOLEAN]
  BY ContentWasThere DEF Catalogs, IsCatalog
<1> HIDE DEF org, centers, types
<1>4. DivisionsAreTrue
  <2> SUFFICES ASSUME held["org"] # NoShot PROVE DivisionsAreTrue BY DEF DivisionsAreTrue
  <2>1. ASSUME NEW id \in Ids
        PROVE  \E tree \in Recent("org", 0) : ValidateDivision(id) = ValidateRefs(tree, id)
    <3>1. ValidateDivision(id) <=> ValidateRefs(org, id)
      BY <1>1, ValidIsTrue DEF ValidateDivision, org
    <3>2. ValidateDivision(id) = ValidateRefs(org, id)
      BY <3>1 DEF ValidateDivision, ValidateRefs
    <3> QED BY <1>1, <3>2
  <2>2. ASSUME NEW id \in Ids
        PROVE  \E tree \in Recent("org", 0) :
                 Subtree(id) = IF id \in DOMAIN tree THEN ListDescendants(tree, id) ELSE NotFound
    BY <1>1, SubtreeIsListed DEF Subtree, org
  <2>3. ASSUME NEW id \in Ids
        PROVE  \E tree \in Recent("org", 0) :
                 IF id \in DOMAIN tree
                 THEN PathTo(id) \notin {NotFound, Broken} /\ IsPath(tree, id, PathTo(id))
                 ELSE PathTo(id) = NotFound
    BY <1>1, PathIsTrue DEF PathTo, org
  <2> QED BY <2>1, <2>2, <2>3 DEF DivisionsAreTrue
<1>5. TypesAreTrue
  <2> SUFFICES ASSUME held["types"] # NoShot PROVE TypesAreTrue BY DEF TypesAreTrue
  <2>1. ListTypes = DOMAIN types BY DEF ListTypes, types
  <2>2. ASSUME NEW type \in Types
        PROVE  /\ GetType(type) = (type \in DOMAIN types)
               /\ ValidateType(type) = (type \in DOMAIN types /\ types[type])
    BY <2>1, Zenon DEF GetType, ValidateType, types
  <2> QED BY <1>3, <2>1, <2>2 DEF TypesAreTrue
<1>6. CoherenceIsTrue
  <2>1. \A center \in Centers :
          Anchor(center) = IF center \in DOMAIN centers THEN centers[center] ELSE NotFound
    BY DEF Anchor, centers
  <2>2. ASSUME task # NoTask, held["org"] # NoShot
        PROVE  \E tree \in Recent("org", 0), cs \in Recent("centers", task.waited) :
                 /\ task.center \in DOMAIN cs
                 /\ Covers(task.division, task.anchor) =
                      IF cs[task.center] \notin DOMAIN tree THEN NotFound
                      ELSE task.division \in ListDescendants(tree, cs[task.center])
    <3>1. PICK cs \in Recent("centers", task.waited) :
            task.center \in DOMAIN cs /\ task.anchor = cs[task.center]
      BY <2>2 DEF ReferencesInv, TaskOK
    <3>2. Covers(task.division, task.anchor) =
            IF task.anchor \notin DOMAIN org THEN NotFound
            ELSE task.division \in ListDescendants(org, task.anchor)
      BY <1>1, <2>2, CoversIsListed DEF Covers, org
    <3> QED BY <1>1, <2>2, <3>1, <3>2
  <2> QED BY <1>2, <2>1, <2>2 DEF CoherenceIsTrue
<1> QED BY <1>4, <1>5, <1>6 DEF ReferencesWereTrue

-----------------------------------------------------------------------------
(* A change of the divisions leaves them a tree.                           *)
\* A new division hangs below one there is.
LEMMA CreateKeepsTree ==
  ASSUME NEW tree, IsTree(tree), NEW parent \in DOMAIN tree, NEW id \in Ids \ DOMAIN tree
  PROVE  IsTree(Added(tree, id, Division(parent, TRUE)))
<1> DEFINE D == DOMAIN tree
           new == Added(tree, id, Division(parent, TRUE))
<1>1. /\ D \subseteq Ids /\ 0 \notin D /\ Ids \subseteq Nat \ {0}
      /\ \A n \in D : /\ tree[n].parent \in D \cup {0}
                      /\ tree[n].active \in BOOLEAN /\ tree[n].window = <<0, 0>>
      /\ \A ids \in SUBSET D : ids # {} => \E n \in ids : tree[n].parent \notin ids
  BY Parents, ReferencesAssumption
<1>2. /\ DOMAIN new = D \cup {id} /\ new = [n \in D \cup {id} |-> new[n]]
      /\ \A n \in D : new[n] = tree[n]
      /\ new[id] = Division(parent, TRUE)
  BY DEF Added
<1> HIDE DEF new
<1>3. new[id].parent = parent /\ new[id].active = TRUE /\ new[id].window = <<0, 0>>
  BY <1>2 DEF Division
<1>4. ASSUME NEW n \in D \cup {id}
      PROVE  new[n] \in [parent : (D \cup {id}) \cup {0}, active : BOOLEAN, window : {<<0, 0>>}]
  <2>1. CASE n = id
    <3>1. Division(parent, TRUE) \in
            [parent : (D \cup {id}) \cup {0}, active : BOOLEAN, window : {<<0, 0>>}]
      BY DEF Division
    <3> QED BY <1>2, <2>1, <3>1
  <2>2. CASE n \in D
    <3>1. tree[n] \in [parent : D \cup {0}, active : BOOLEAN, window : {<<0, 0>>}]
      BY <2>2 DEF IsTree
    <3> QED BY <1>2, <2>2, <3>1
  <2> QED BY <2>1, <2>2
<1>5. ASSUME NEW ids \in SUBSET (D \cup {id}), ids # {}
      PROVE  \E n \in ids : new[n].parent \notin ids
  <2>1. CASE ids \cap D = {} BY <1>3, <1>5, <2>1
  <2>2. CASE ids \cap D # {}
    <3>1. PICK n \in ids \cap D : tree[n].parent \notin ids \cap D BY <1>1, <2>2
    <3>2. tree[n].parent # id BY <1>1, <3>1
    <3>3. tree[n].parent \notin ids BY <1>1, <1>5, <3>1, <3>2
    <3> QED BY <1>2, <3>1, <3>3
  <2> QED BY <2>1, <2>2
<1>6. DOMAIN new \subseteq Ids BY <1>1, <1>2
<1>7. new \in [DOMAIN new -> [parent : DOMAIN new \cup {0}, active : BOOLEAN, window : {<<0, 0>>}]]
  BY <1>2, <1>4
<1>8. \A ids \in SUBSET DOMAIN new : ids # {} => \E n \in ids : new[n].parent \notin ids
  BY <1>2, <1>5
<1>9. IsTree(new) BY <1>6, <1>7, <1>8 DEF IsTree
<1> QED BY <1>9 DEF new

\* A move below none of its own descendants makes no cycle.
LEMMA MoveKeepsTree ==
  ASSUME NEW tree, IsTree(tree), NEW id \in DOMAIN tree, NEW parent \in DOMAIN tree,
         parent \notin ListDescendants(tree, id)
  PROVE  IsTree([tree EXCEPT ![id].parent = parent])
<1> DEFINE D == DOMAIN tree
           new == [tree EXCEPT ![id].parent = parent]
<1>1. /\ D \subseteq Ids /\ 0 \notin D /\ \A n \in D : tree[n].parent \in D \cup {0}
      /\ \A ids \in SUBSET D : ids # {} => \E n \in ids : tree[n].parent \notin ids
  BY Parents
<1>2. tree \in [D -> [parent : D \cup {0}, active : BOOLEAN, window : {<<0, 0>>}]] BY DEF IsTree
<1>3. new \in [D -> [parent : D \cup {0}, active : BOOLEAN, window : {<<0, 0>>}]] BY <1>2
<1>4. new[id].parent = parent /\ \A n \in D : n # id => new[n].parent = tree[n].parent BY <1>2
<1>5. DOMAIN new = D BY <1>3
<1> HIDE DEF new
<1>6. /\ id \notin Above(tree, parent) /\ parent \in Above(tree, parent)
      /\ Closed(tree, Above(tree, parent))
  BY ListedAbove, AboveRule
<1>7. ASSUME NEW ids \in SUBSET D, ids # {}
      PROVE  \E n \in ids : new[n].parent \notin ids
  <2>1. CASE id \notin ids
    <3>1. PICK n \in ids : tree[n].parent \notin ids BY <1>1, <1>7
    <3> QED BY <1>4, <2>1, <3>1
  <2>2. CASE id \in ids /\ parent \notin ids BY <1>4, <2>2
  <2>3. CASE parent \in ids
    <3> DEFINE up == ids \cap Above(tree, parent)
    <3>1. up \in SUBSET D /\ up # {} /\ id \notin up BY <1>6, <2>3
    <3> HIDE DEF up
    <3>2. PICK n \in up : tree[n].parent \notin up BY <1>1, <3>1
    <3>3. n \in ids /\ n \in D /\ n \in Above(tree, parent) /\ n # id BY <3>1, <3>2 DEF up
    <3>4. tree[n].parent \notin ids
      <4> SUFFICES ASSUME tree[n].parent \in ids PROVE FALSE OBVIOUS
      <4>1. tree[n].parent # 0 BY <1>1
      <4>2. tree[n].parent \in Above(tree, parent) BY <1>6, <3>3, <4>1 DEF Closed
      <4> QED BY <3>2, <4>2 DEF up
    <3> QED BY <1>4, <3>3, <3>4
  <2> QED BY <2>1, <2>2, <2>3
<1>8. IsTree(new) BY <1>1, <1>3, <1>5, <1>7 DEF IsTree
<1> QED BY <1>8 DEF new

\* Switching a division moves nothing.
LEMMA SwitchKeepsTree ==
  ASSUME NEW tree, IsTree(tree), NEW id \in DOMAIN tree, NEW active \in BOOLEAN
  PROVE  IsTree([tree EXCEPT ![id].active = active])
<1> DEFINE D == DOMAIN tree
           new == [tree EXCEPT ![id].active = active]
<1>1. tree \in [D -> [parent : D \cup {0}, active : BOOLEAN, window : {<<0, 0>>}]] BY DEF IsTree
<1>2. new \in [D -> [parent : D \cup {0}, active : BOOLEAN, window : {<<0, 0>>}]] BY <1>1
<1>3. DOMAIN new = D /\ \A n \in D : new[n].parent = tree[n].parent BY <1>1
<1> HIDE DEF new
<1>4. IsTree(new) BY <1>2, <1>3 DEF IsTree
<1> QED BY <1>4 DEF new

\* The least of the nodes that are among ids, or whose bridge is, gives one
\* of ids that has its parent elsewhere (InsertLevel).
LEMMA SplitKeepsTree ==
  ASSUME NEW tree, IsTree(tree), NEW split \in SUBSET DOMAIN tree,
         NEW bridge \in [split -> Ids \ DOMAIN tree],
         \A p, q \in split : bridge[p] = bridge[q] => p = q
  PROVE  IsTree(Split(tree, split, bridge))
<1> DEFINE D == DOMAIN tree
           B == {bridge[p] : p \in split}
           over(b) == CHOOSE p \in split : bridge[p] = b
           new == Split(tree, split, bridge)
           Node == [parent : (D \cup B) \cup {0}, active : BOOLEAN, window : {<<0, 0>>}]
<1>1. /\ D \subseteq Ids /\ 0 \notin D /\ Ids \subseteq Nat \ {0}
      /\ \A n \in D : /\ tree[n].parent \in D \cup {0}
                      /\ tree[n].active \in BOOLEAN /\ tree[n].window = <<0, 0>>
      /\ \A ids \in SUBSET D : ids # {} => \E n \in ids : tree[n].parent \notin ids
  BY Parents, ReferencesAssumption
<1>2. B \subseteq Ids /\ 0 \notin B /\ B \cap D = {} BY <1>1
<1>3. ASSUME NEW p \in split PROVE over(bridge[p]) = p
  <2>1. \E q \in split : bridge[q] = bridge[p] OBVIOUS
  <2>2. over(bridge[p]) \in split /\ bridge[over(bridge[p])] = bridge[p] BY <2>1
  <2> HIDE DEF over
  <2> QED BY <2>2
<1>4. new = [id \in D \cup B |->
               IF id \in B THEN Division(over(id), TRUE)
               ELSE IF tree[id].parent \in split THEN [tree[id] EXCEPT !.parent = bridge[@]]
               ELSE tree[id]]
  BY DEF Split
<1> HIDE DEF new, over
<1>5. DOMAIN new = D \cup B BY <1>4
<1>6. ASSUME NEW p \in split
      PROVE  bridge[p] \in B /\ new[bridge[p]] \in Node /\ new[bridge[p]].parent = p
  <2>1. new[bridge[p]] = Division(p, TRUE) BY <1>3, <1>4
  <2> QED BY <2>1 DEF Division
<1>7. ASSUME NEW n \in D
      PROVE  /\ new[n] \in Node
             /\ new[n].parent =
                  IF tree[n].parent \in split THEN bridge[tree[n].parent] ELSE tree[n].parent
  <2>1. tree[n] \in [parent : D \cup {0}, active : BOOLEAN, window : {<<0, 0>>}] BY DEF IsTree
  <2>2. n \notin B BY <1>2
  <2>3. CASE tree[n].parent \in split
    <3>1. new[n] = [tree[n] EXCEPT !.parent = bridge[@]] BY <1>4, <2>2, <2>3
    <3>2. bridge[tree[n].parent] \in B BY <2>3
    <3> HIDE DEF B
    <3> QED BY <2>1, <2>3, <3>1, <3>2
  <2>4. CASE tree[n].parent \notin split
    <3>1. new[n] = tree[n] BY <1>4, <2>2, <2>4
    <3> HIDE DEF B
    <3> QED BY <2>1, <2>4, <3>1
  <2> QED BY <2>3, <2>4
<1>8. new \in [D \cup B -> Node]
  <2>1. ASSUME NEW n \in D \cup B PROVE new[n] \in Node
    <3>1. n \in D \/ \E p \in split : n = bridge[p] OBVIOUS
    <3> HIDE DEF Node
    <3> QED BY <1>6, <1>7, <3>1
  <2>2. new = [n \in D \cup B |-> new[n]] BY <1>4
  <2> HIDE DEF Node
  <2> QED BY <2>1, <2>2
<1>9. ASSUME NEW ids \in SUBSET (D \cup B), ids # {}
      PROVE  \E n \in ids : new[n].parent \notin ids
  <2> DEFINE low == {n \in D : n \in ids \/ (n \in split /\ bridge[n] \in ids)}
  <2>1. low \in SUBSET D /\ low # {}
    <3>1. PICK n \in ids : TRUE BY <1>9
    <3>2. n \in D \/ \E p \in split : n = bridge[p] BY <3>1
    <3> QED BY <3>1, <3>2
  <2>2. \A n \in D : n \in low <=> n \in ids \/ (n \in split /\ bridge[n] \in ids) OBVIOUS
  <2> HIDE DEF low
  <2>3. PICK n \in low : tree[n].parent \notin low BY <1>1, <2>1
  <2>4. n \in D BY <2>1
  <2>5. CASE n \in ids
    <3>1. tree[n].parent \in split => bridge[tree[n].parent] \notin ids BY <2>2, <2>3
    <3>2. 0 \notin ids BY <1>1, <1>2
    <3>3. tree[n].parent \notin ids BY <1>1, <2>2, <2>3, <2>4, <3>2
    <3> QED BY <1>7, <2>4, <2>5, <3>1, <3>3
  <2>6. CASE n \notin ids
    <3>1. n \in split /\ bridge[n] \in ids BY <2>2, <2>4, <2>6
    <3> QED BY <1>6, <2>6, <3>1
  <2> QED BY <2>5, <2>6
<1>10. DOMAIN new \subseteq Ids BY <1>1, <1>2, <1>5
<1>11. IsTree(new)
  <2> HIDE DEF B
  <2> QED BY <1>5, <1>8, <1>9, <1>10 DEF IsTree
<1> QED BY <1>11 DEF new

-----------------------------------------------------------------------------
(* ReferencesInv is inductive.                                             *)
\* What a catalog was is remembered for as long as a snapshot of it may be
\* served.
LEMMA WriteKeepsInv ==
  ASSUME ReferencesInv, NEW c \in Catalogs, NEW content, IsCatalog(c, content), Write(c, content)
  PROVE  ReferencesInv'
<1> DEFINE old == [content |-> store[c], gone |-> 0]
<1>1. DOMAIN store = Catalogs /\ DOMAIN past = Catalogs /\ DOMAIN held = Catalogs
  BY DEF ReferencesInv
<1>2. /\ DOMAIN store' = Catalogs /\ DOMAIN past' = Catalogs
      /\ held' = held /\ asked' = asked /\ task' = task
      /\ store'[c] = content /\ \A d \in Catalogs : d # c => store'[d] = store[d]
      /\ past'[c] = past[c] \cup {old} /\ \A d \in Catalogs : d # c => past'[d] = past[d]
  BY <1>1 DEF Write
<1>3. SnapshotTTL \in Nat \ {0} /\ MaxWait \in Nat BY ReferencesAssumption
<1>4. old.gone = 0 /\ old.content = store[c] /\ old \in [content : {old.content}, gone : 0 .. Memory]
  BY <1>3 DEF Memory
<1> HIDE DEF old
<1>5. CatalogsOK'
  <2> SUFFICES ASSUME NEW d \in Catalogs
               PROVE  /\ IsCatalog(d, store'[d])
                      /\ \A p \in past'[d] :
                           /\ p \in [content : {p.content}, gone : 0 .. Memory]
                           /\ IsCatalog(d, p.content)
    BY DEF CatalogsOK, IsCatalog
  <2>1. /\ IsCatalog(d, store[d])
        /\ \A p \in past[d] :
             /\ p \in [content : {p.content}, gone : 0 .. Memory]
             /\ IsCatalog(d, p.content)
    BY DEF ReferencesInv, CatalogsOK
  <2>2. CASE d = c BY <1>2, <1>4, <2>1, <2>2
  <2>3. CASE d # c BY <1>2, <2>1, <2>3
  <2> QED BY <2>2, <2>3
<1>6. ASSUME NEW d \in Catalogs, NEW was, NEW ago \in Nat, Had(d, was, ago)
      PROVE  Had(d, was, ago)'
  <2>1. past[d] \subseteq past'[d] BY <1>2
  <2>2. CASE was = store[d]
    <3>1. CASE d = c
      <4>1. old \in past'[d] /\ old.content = was /\ old.gone <= ago BY <1>2, <1>4, <1>6, <2>2, <3>1
      <4> QED BY <4>1 DEF Had
    <3>2. CASE d # c BY <1>2, <2>2, <3>2 DEF Had
    <3> QED BY <3>1, <3>2
  <2>3. CASE \E p \in past[d] : p.content = was /\ p.gone <= ago BY <2>1, <2>3 DEF Had
  <2> QED BY <1>6, <2>2, <2>3 DEF Had
<1>7. HeldOK'
  <2> SUFFICES ASSUME NEW d \in Catalogs, held[d] # NoShot
               PROVE  /\ held[d] \in [content : {held[d].content}, age : 0 .. SnapshotTTL - 1]
                      /\ Had(d, held[d].content, held[d].age + MaxWait)'
    BY <1>2 DEF HeldOK
  <2>1. /\ held[d] \in [content : {held[d].content}, age : 0 .. SnapshotTTL - 1]
        /\ Had(d, held[d].content, held[d].age + MaxWait)
    BY DEF ReferencesInv, HeldOK
  <2>2. held[d].age + MaxWait \in Nat BY <1>3, <2>1
  <2>3. ASSUME NEW was, NEW ago \in Nat, was = held[d].content, ago = held[d].age + MaxWait
        PROVE  Had(d, held[d].content, held[d].age + MaxWait)'
    <3>1. Had(d, was, ago)' BY <1>6, <2>1, <2>3
    <3> QED BY <1>2, <2>3, <3>1
  <2> QED BY <2>1, <2>2, <2>3
<1>9. AskedOK'
  <2> SUFFICES ASSUME NEW a \in Askers, asked[a] # NoShot
               PROVE  /\ asked[a] \in [catalog : Catalogs, content : {asked[a].content}, waited : 0 .. MaxWait]
                      /\ asked[a].content # NoShot => Had(asked[a].catalog, asked[a].content, asked[a].waited)'
    BY <1>2 DEF AskedOK, ReferencesInv
  <2>1. /\ asked[a] \in [catalog : Catalogs, content : {asked[a].content}, waited : 0 .. MaxWait]
        /\ asked[a].content # NoShot => Had(asked[a].catalog, asked[a].content, asked[a].waited)
    BY DEF ReferencesInv, AskedOK
  <2>2. asked[a].waited \in Nat /\ asked[a].catalog \in Catalogs BY <1>3, <2>1
  <2>3. ASSUME NEW d \in Catalogs, NEW was, NEW ago \in Nat, asked[a].content # NoShot,
               d = asked[a].catalog, was = asked[a].content, ago = asked[a].waited
        PROVE  Had(asked[a].catalog, asked[a].content, asked[a].waited)'
    <3>1. Had(d, was, ago)' BY <1>6, <2>1, <2>3
    <3> QED BY <1>2, <2>3, <3>1
  <2> QED BY <2>1, <2>2, <2>3
<1>8. TaskOK'
  <2> SUFFICES ASSUME task # NoTask
               PROVE  /\ task \in [division : Ids, center : Centers, anchor : {task.anchor},
                                  waited : 0 .. MaxWait]
                      /\ \E centers \in Recent("centers", task.waited)' :
                           task.center \in DOMAIN centers /\ task.anchor = centers[task.center]
    BY <1>2 DEF TaskOK, Recent
  <2>1. /\ task \in [division : Ids, center : Centers, anchor : {task.anchor},
                    waited : 0 .. MaxWait]
        /\ \E centers \in Recent("centers", task.waited) :
             task.center \in DOMAIN centers /\ task.anchor = centers[task.center]
    BY DEF ReferencesInv, TaskOK
  <2>2. Recent("centers", task.waited) \subseteq Recent("centers", task.waited)'
    <3> DEFINE g == "centers"
    <3>1. g \in Catalogs BY DEF Catalogs
    <3>2. CASE g = c
      <4>1. /\ old \in past'[g] /\ old.gone < SnapshotTTL + MaxWait + task.waited /\ old.content = store[g]
            /\ past[g] \subseteq past'[g]
        BY <1>2, <1>3, <1>4, <2>1, <3>2
      <4> QED BY <1>2, <4>1 DEF Recent
    <3>3. CASE g # c BY <1>2, <3>1, <3>3 DEF Recent
    <3> QED BY <3>2, <3>3
  <2> QED BY <2>1, <2>2
<1> QED BY <1>1, <1>2, <1>5, <1>7, <1>8, <1>9 DEF ReferencesInv

\* Every change of a catalog keeps the invariant.
LEMMA EditKeepsInv ==
  ASSUME ReferencesInv, Edit
  PROVE  ReferencesInv'
<1> DEFINE org == store["org"]
           centers == store["centers"]
           types == store["types"]
<1>1. /\ IsTree(org) /\ DOMAIN org \subseteq Ids
      /\ centers \in [DOMAIN centers -> Ids] /\ types \in [DOMAIN types -> BOOLEAN]
  BY DEF ReferencesInv, CatalogsOK, Catalogs, IsCatalog, IsTree
<1>2. "org" \in Catalogs /\ "centers" \in Catalogs /\ "types" \in Catalogs BY DEF Catalogs
<1> HIDE DEF org, centers, types
<1>3. ASSUME NEW new, IsTree(new), Write("org", new) PROVE ReferencesInv'
  BY <1>2, <1>3, WriteKeepsInv DEF IsCatalog
<1>4. ASSUME NEW new, NEW keys, new \in [keys -> Ids], Write("centers", new) PROVE ReferencesInv'
  BY <1>2, <1>4, WriteKeepsInv DEF IsCatalog
<1>5. ASSUME NEW new, NEW keys, new \in [keys -> BOOLEAN], Write("types", new) PROVE ReferencesInv'
  BY <1>2, <1>5, WriteKeepsInv DEF IsCatalog
<1>6. ASSUME NEW id \in DOMAIN org, CreateDivision(id) PROVE ReferencesInv'
  BY <1>1, <1>3, <1>6, CreateKeepsTree DEF CreateDivision, Fresh, org
<1>7. ASSUME NEW id \in DOMAIN org, NEW parent \in DOMAIN org, MoveDivision(id, parent)
      PROVE  ReferencesInv'
  BY <1>1, <1>3, <1>7, MoveKeepsTree DEF MoveDivision, org
<1>8. ASSUME NEW id \in DOMAIN org, NEW active \in BOOLEAN, SetDivisionActive(id, active)
      PROVE  ReferencesInv'
  BY <1>1, <1>3, <1>8, SwitchKeepsTree DEF SetDivisionActive, org
<1>9. ASSUME NEW level, InsertLevel(level) PROVE ReferencesInv'
  <2> DEFINE split == {org[id].parent : id \in DOMAIN org} \cap
                      {id \in DOMAIN org : Level(org, id) = level}
  <2>1. PICK bridge \in [split -> Ids \ DOMAIN org] :
          /\ \A p, q \in split : bridge[p] = bridge[q] => p = q
          /\ Write("org", Split(org, split, bridge))
    BY <1>9 DEF InsertLevel, Fresh, org
  <2>2. split \in SUBSET DOMAIN org OBVIOUS
  <2> HIDE DEF split
  <2>3. IsTree(Split(org, split, bridge)) BY <1>1, <2>1, <2>2, SplitKeepsTree
  <2> QED BY <1>3, <2>1, <2>3
<1>10. ASSUME NEW center \in Centers, NEW anchor \in DOMAIN org, CreateCostCenter(center, anchor)
       PROVE  ReferencesInv'
  <2>1. Added(centers, center, anchor) \in [DOMAIN centers \cup {center} -> Ids]
    BY <1>1 DEF Added
  <2> QED BY <1>4, <1>10, <2>1 DEF CreateCostCenter, centers
<1>11. ASSUME NEW center \in Centers, NEW anchor \in DOMAIN org, UpdateCostCenter(center, anchor)
       PROVE  ReferencesInv'
  <2>1. [centers EXCEPT ![center] = anchor] \in [DOMAIN centers -> Ids] BY <1>1
  <2> QED BY <1>4, <1>11, <2>1 DEF UpdateCostCenter, centers
<1>12. ASSUME NEW type \in Types, CreateAssetType(type) PROVE ReferencesInv'
  <2>1. Added(types, type, TRUE) \in [DOMAIN types \cup {type} -> BOOLEAN] BY <1>1 DEF Added
  <2> QED BY <1>5, <1>12, <2>1 DEF CreateAssetType, types
<1>13. ASSUME NEW type \in DOMAIN types, NEW active \in BOOLEAN, SetAssetTypeActive(type, active)
       PROVE  ReferencesInv'
  <2>1. [types EXCEPT ![type] = active] \in [DOMAIN types -> BOOLEAN] BY <1>1
  <2> QED BY <1>5, <1>13, <2>1 DEF SetAssetTypeActive, types
<1> QED
  BY <1>6, <1>7, <1>8, <1>9, <1>10, <1>11, <1>12, <1>13 DEF Edit, org, types

\* A step of a fetch keeps the invariant: what is read is what there is, and
\* what lands was there since its call began.
LEMMA FetchKeepsInv ==
  ASSUME ReferencesInv, NEW a \in Askers,
         \/ \E c \in Catalogs : FetchBegins(a, c)
         \/ FetchReads(a) \/ FetchLands(a) \/ FetchFails(a)
  PROVE  ReferencesInv'
<1>1. UNCHANGED <<store, past, task>> BY DEF FetchBegins, FetchReads, FetchLands, FetchFails
<1>2. SnapshotTTL \in Nat \ {0} /\ MaxWait \in Nat BY ReferencesAssumption
<1>3. /\ DOMAIN held = Catalogs /\ DOMAIN asked = Askers
      /\ \A b \in Askers : asked[b] # NoShot =>
           /\ asked[b] \in [catalog : Catalogs, content : {asked[b].content}, waited : 0 .. MaxWait]
           /\ asked[b].content # NoShot => Had(asked[b].catalog, asked[b].content, asked[b].waited)
  BY DEF ReferencesInv, AskedOK
<1>4. DOMAIN store' = Catalogs /\ DOMAIN past' = Catalogs /\ CatalogsOK' /\ TaskOK'
  BY <1>1 DEF ReferencesInv, CatalogsOK, IsCatalog, TaskOK, Recent
<1>5. \A c \in Catalogs : \A was, ago : Had(c, was, ago)' = Had(c, was, ago) BY <1>1 DEF Had
<1>6. AskedOK'
  <2>1. DOMAIN asked' = Askers /\ \A b \in Askers : b # a => asked'[b] = asked[b]
    BY <1>3 DEF FetchBegins, FetchReads, FetchLands, FetchFails
  <2>2. ASSUME asked'[a] # NoShot
        PROVE  /\ asked'[a] \in [catalog : Catalogs, content : {asked'[a].content}, waited : 0 .. MaxWait]
               /\ asked'[a].content # NoShot => Had(asked'[a].catalog, asked'[a].content, asked'[a].waited)
    <3>1. CASE \E c \in Catalogs : FetchBegins(a, c)
      <4>1. PICK c \in Catalogs : asked'[a] = [catalog |-> c, content |-> NoShot, waited |-> 0]
        BY <1>3, <3>1 DEF FetchBegins
      <4> QED BY <1>2, <4>1
    <3>2. CASE FetchReads(a)
      <4> DEFINE c == asked[a].catalog
                 new == Fetch(c)
      <4>1. asked[a] # NoShot /\ asked' = [asked EXCEPT ![a].content = new] BY <3>2 DEF FetchReads
      <4>2. new = store[c] /\ c \in Catalogs
        BY <1>3, <4>1, FetchedWhole DEF ReferencesInv, CatalogsOK
      <4> HIDE DEF new, c
      <4>3. asked'[a] = [asked[a] EXCEPT !.content = new] BY <1>3, <4>1
      <4>4. /\ asked'[a].catalog = c /\ asked'[a].content = new /\ asked'[a].waited = asked[a].waited
            /\ asked'[a] \in [catalog : Catalogs, content : {asked'[a].content}, waited : 0 .. MaxWait]
        BY <1>3, <4>1, <4>3 DEF c
      <4> QED BY <4>2, <4>4 DEF Had
    <3>3. CASE FetchLands(a) \/ FetchFails(a)
      BY <1>3, <2>2, <3>3 DEF FetchLands, FetchFails
    <3> QED BY <3>1, <3>2, <3>3
  <2>3. ASSUME NEW b \in Askers, asked'[b] # NoShot
        PROVE  /\ asked'[b] \in [catalog : Catalogs, content : {asked'[b].content}, waited : 0 .. MaxWait]
               /\ asked'[b].content # NoShot => Had(asked'[b].catalog, asked'[b].content, asked'[b].waited)
    BY <1>3, <2>1, <2>2, <2>3
  <2> QED BY <1>1, <2>1, <2>3 DEF AskedOK, Had
<1>7. DOMAIN held' = Catalogs /\ HeldOK'
  <2>1. CASE held' = held BY <1>1, <1>3, <2>1 DEF ReferencesInv, HeldOK, Had
  <2>2. CASE FetchLands(a)
    <3> DEFINE c == asked[a].catalog
               new == asked[a].content
               ago == asked[a].waited
    <3>1. /\ asked[a] # NoShot /\ new # NoShot
          /\ held' = [held EXCEPT ![c] = [content |-> new, age |-> 0]]
      BY <2>2 DEF FetchLands
    <3>2. c \in Catalogs /\ ago \in 0 .. MaxWait /\ Had(c, new, ago) BY <1>3, <3>1
    <3> HIDE DEF c, new, ago
    <3>3. /\ DOMAIN held' = Catalogs /\ held'[c] = [content |-> new, age |-> 0]
          /\ \A d \in Catalogs : d # c => held'[d] = held[d]
      BY <1>3, <3>1, <3>2
    <3>4. Had(c, new, 0 + MaxWait)
      <4>1. CASE new = store[c] BY <4>1 DEF Had
      <4>2. ASSUME NEW p \in past[c], p.content = new, p.gone <= ago PROVE Had(c, new, 0 + MaxWait)
        <5>1. p.gone \in 0 .. Memory BY <3>2 DEF ReferencesInv, CatalogsOK
        <5>2. p.gone <= 0 + MaxWait BY <1>2, <3>2, <4>2, <5>1 DEF Memory
        <5> QED BY <4>2, <5>2 DEF Had
      <4> QED BY <3>2, <4>1, <4>2 DEF Had
    <3>5. ASSUME NEW d \in Catalogs, held'[d] # NoShot
          PROVE  /\ held'[d] \in [content : {held'[d].content}, age : 0 .. SnapshotTTL - 1]
                 /\ Had(d, held'[d].content, held'[d].age + MaxWait)
      <4>1. CASE d = c BY <1>2, <3>3, <3>4, <4>1
      <4>2. CASE d # c BY <3>3, <3>5, <4>2 DEF ReferencesInv, HeldOK
      <4> QED BY <4>1, <4>2
    <3> QED BY <1>1, <3>3, <3>5 DEF HeldOK, Had
  <2> QED BY <2>1, <2>2 DEF FetchBegins, FetchReads, FetchFails
<1> QED BY <1>4, <1>6, <1>7 DEF ReferencesInv

\* A part of a check of coherence keeps the invariant.
LEMMA CheckKeepsInv ==
  ASSUME ReferencesInv,
         \/ \E division \in Ids, center \in Centers : BeginCheck(division, center)
         \/ EndCheck \/ FailCheck
  PROVE  ReferencesInv'
<1>1. UNCHANGED <<store, past, held, asked>> BY DEF BeginCheck, EndCheck, FailCheck
<1>2. /\ DOMAIN store' = Catalogs /\ DOMAIN past' = Catalogs /\ DOMAIN held' = Catalogs
      /\ CatalogsOK' /\ HeldOK' /\ AskedOK'
  BY <1>1 DEF ReferencesInv, CatalogsOK, IsCatalog, HeldOK, AskedOK, Had
<1>3. TaskOK'
  <2>1. ASSUME NEW division \in Ids, NEW center \in Centers, BeginCheck(division, center)
        PROVE  TaskOK'
    <3> DEFINE centers == Content("centers")
    <3>1. centers \in Recent("centers", 0) BY <2>1, ContentWasThere DEF Catalogs, BeginCheck
    <3>2. /\ Anchor(center) # NotFound
          /\ task' = [division |-> division, center |-> center, anchor |-> Anchor(center), waited |-> 0]
      BY <2>1 DEF BeginCheck
    <3>3. center \in DOMAIN centers /\ Anchor(center) = centers[center] BY <3>2 DEF Anchor
    <3> HIDE DEF centers
    <3>4. task'.center = center /\ task'.anchor = centers[center] /\ task'.waited = 0
      BY <3>2, <3>3
    <3>5. Recent("centers", 0)' = Recent("centers", 0) BY <1>1 DEF Recent
    <3>6. 0 \in 0 .. MaxWait BY ReferencesAssumption
    <3>7. \E cs \in Recent("centers", task.waited)' :
            task'.center \in DOMAIN cs /\ task'.anchor = cs[task'.center]
      BY <3>1, <3>3, <3>4, <3>5 DEF Recent
    <3>8. task' \in [division : Ids, center : Centers, anchor : {task'.anchor}, waited : 0 .. MaxWait]
      BY <3>2, <3>6
    <3> QED BY <3>4, <3>7, <3>8 DEF TaskOK, Recent
  <2>2. ASSUME EndCheck \/ FailCheck PROVE TaskOK' BY <2>2 DEF EndCheck, FailCheck, TaskOK
  <2> QED BY <2>1, <2>2
<1> QED BY <1>2, <1>3 DEF ReferencesInv

\* Snapshots, checks and what is remembered grow old together.
LEMMA PassKeepsInv ==
  ASSUME ReferencesInv, Pass
  PROVE  ReferencesInv'
<1> DEFINE Later(p) == [p EXCEPT !.gone = @ + 1]
<1>1. SnapshotTTL \in Nat \ {0} /\ MaxWait \in Nat BY ReferencesAssumption
<1>2. store' = store /\ DOMAIN store = Catalogs /\ DOMAIN past = Catalogs /\ DOMAIN held = Catalogs
  BY DEF Pass, ReferencesInv
<1>3. /\ DOMAIN past' = Catalogs
      /\ \A c \in Catalogs :
           past'[c] = {Later(p) : p \in {q \in past[c] : q.gone < Memory}}
  BY <1>2 DEF Pass
<1>4. /\ DOMAIN held' = Catalogs
      /\ \A c \in Catalogs :
           held'[c] = IF held[c] # NoShot /\ held[c].age + 1 < SnapshotTTL
                      THEN [held[c] EXCEPT !.age = @ + 1] ELSE NoShot
  BY <1>2 DEF Pass
<1>5. ASSUME NEW c \in Catalogs, NEW p \in past[c]
      PROVE  /\ p \in [content : {p.content}, gone : 0 .. Memory]
             /\ IsCatalog(c, p.content)
  BY DEF ReferencesInv, CatalogsOK
<1>6. ASSUME NEW c \in Catalogs, NEW p \in past[c]
      PROVE  Later(p).content = p.content /\ Later(p).gone = p.gone + 1
  BY <1>5
<1>7. ASSUME NEW c \in Catalogs, NEW p \in past[c], p.gone < Memory
      PROVE  \E q \in past'[c] : q.content = p.content /\ q.gone = p.gone + 1
  BY <1>3, <1>6, <1>7
<1>8. CatalogsOK'
  <2>1. ASSUME NEW c \in Catalogs PROVE IsCatalog(c, store[c])'
    BY <1>2 DEF ReferencesInv, CatalogsOK, IsCatalog
  <2>2. ASSUME NEW c \in Catalogs, NEW q \in past'[c]
        PROVE  /\ q \in [content : {q.content}, gone : 0 .. Memory]
               /\ IsCatalog(c, q.content)
    <3>1. PICK p \in past[c] : q = Later(p) /\ p.gone < Memory BY <1>3, <2>2
    <3>2. p \in [content : {p.content}, gone : 0 .. Memory] /\ IsCatalog(c, p.content)
      BY <1>5
    <3>3. p.gone + 1 \in 0 .. Memory BY <1>1, <3>1, <3>2 DEF Memory
    <3>4. q.content = p.content /\ q.gone = p.gone + 1 BY <1>6, <3>1
    <3>5. q \in [content : {p.content}, gone : 0 .. Memory] BY <3>1, <3>2, <3>3
    <3> QED BY <3>2, <3>4, <3>5
  <2> QED BY <2>1, <2>2 DEF CatalogsOK, IsCatalog
<1>9. ASSUME NEW c \in Catalogs, NEW was, NEW ago \in Nat, Had(c, was, ago), ago < Memory
      PROVE  Had(c, was, ago + 1)'
  <2>1. CASE was = store[c] BY <1>2, <2>1 DEF Had
  <2>2. ASSUME NEW p \in past[c], p.content = was, p.gone <= ago PROVE Had(c, was, ago + 1)'
    <3>1. p.gone \in 0 .. Memory BY <1>5
    <3>2. p.gone < Memory BY <1>1, <1>9, <2>2, <3>1 DEF Memory
    <3>3. PICK q \in past'[c] : q.content = p.content /\ q.gone = p.gone + 1 BY <1>7, <3>2
    <3>4. q.gone <= ago + 1 BY <1>1, <2>2, <3>1, <3>3 DEF Memory
    <3> QED BY <2>2, <3>3, <3>4 DEF Had
  <2> QED BY <1>9, <2>1, <2>2 DEF Had
<1>10. HeldOK'
  <2>1. ASSUME NEW c \in Catalogs, held'[c] # NoShot
        PROVE  /\ held'[c] \in [content : {held'[c].content}, age : 0 .. SnapshotTTL - 1]
               /\ Had(c, held[c].content, held[c].age + MaxWait)'
    <3> DEFINE was == held[c].content
               ago == held[c].age + MaxWait
    <3>1. held[c] # NoShot /\ held[c].age + 1 < SnapshotTTL /\ held'[c] = [held[c] EXCEPT !.age = @ + 1]
      BY <1>4, <2>1
    <3>2. held[c] \in [content : {was}, age : 0 .. SnapshotTTL - 1] /\ Had(c, was, ago)
      BY <3>1 DEF ReferencesInv, HeldOK
    <3>3. ago \in Nat /\ ago < Memory BY <1>1, <3>1, <3>2 DEF Memory
    <3>4. held'[c].content = was /\ held'[c].age + MaxWait = ago + 1 BY <1>1, <3>1, <3>2
    <3>5. held'[c] \in [content : {held'[c].content}, age : 0 .. SnapshotTTL - 1]
      BY <1>1, <3>1, <3>2
    <3> HIDE DEF was, ago
    <3>6. PICK content, n : content = was /\ n = ago OBVIOUS
    <3>7. Had(c, content, n + 1)' BY <1>9, <3>2, <3>3, <3>6
    <3> QED BY <3>4, <3>5, <3>6, <3>7 DEF Had
  <2> QED BY <2>1 DEF HeldOK, Had
<1>11. AskedOK'
  <2>1. DOMAIN asked = Askers /\ DOMAIN asked' = Askers BY DEF ReferencesInv, AskedOK, Pass
  <2>2. ASSUME NEW a \in Askers, asked'[a] # NoShot
        PROVE  /\ asked'[a] \in [catalog : Catalogs, content : {asked'[a].content}, waited : 0 .. MaxWait]
               /\ asked'[a].content # NoShot => Had(asked[a].catalog, asked[a].content, asked[a].waited)'
    <3> DEFINE c == asked[a].catalog
               was == asked[a].content
               ago == asked[a].waited
    <3>1. asked[a] # NoShot /\ asked'[a] = [asked[a] EXCEPT !.waited = @ + 1] /\ ago < MaxWait
      BY <2>2 DEF Pass, Older
    <3>2. /\ asked[a] \in [catalog : Catalogs, content : {was}, waited : 0 .. MaxWait]
          /\ was # NoShot => Had(c, was, ago)
      BY <3>1 DEF ReferencesInv, AskedOK
    <3>3. c \in Catalogs /\ ago \in Nat /\ ago < Memory BY <1>1, <3>1, <3>2 DEF Memory
    <3>4. asked'[a].catalog = c /\ asked'[a].content = was /\ asked'[a].waited = ago + 1
      BY <3>1, <3>2
    <3>5. asked'[a] \in [catalog : Catalogs, content : {asked'[a].content}, waited : 0 .. MaxWait]
      BY <1>1, <3>1, <3>2
    <3> HIDE DEF was, ago, c
    <3>6. PICK d, content, n : d = c /\ content = was /\ n = ago OBVIOUS
    <3>7. was # NoShot => Had(d, content, n + 1)' BY <1>9, <3>2, <3>3, <3>6
    <3> QED BY <3>4, <3>5, <3>6, <3>7 DEF Had
  <2> QED BY <2>1, <2>2 DEF AskedOK, Had
<1>12. TaskOK'
  <2>1. CASE task = NoTask BY <2>1 DEF Pass, TaskOK
  <2>2. CASE task # NoTask
    <3>1. task' = [task EXCEPT !.waited = @ + 1] /\ task.waited < MaxWait BY <2>2 DEF Pass
    <3>2. task \in [division : Ids, center : Centers, anchor : {task.anchor}, waited : 0 .. MaxWait]
      BY <2>2 DEF ReferencesInv, TaskOK
    <3>3. PICK centers \in Recent("centers", task.waited) :
            task.center \in DOMAIN centers /\ task.anchor = centers[task.center]
      BY <2>2 DEF ReferencesInv, TaskOK
    <3>4. /\ task'.center = task.center /\ task'.anchor = task.anchor
          /\ task'.waited = task.waited + 1
          /\ task' \in [division : Ids, center : Centers, anchor : {task'.anchor}, waited : 0 .. MaxWait]
      BY <1>1, <3>1, <3>2
    <3>5. centers \in Recent("centers", task.waited)'
      <4>1. "centers" \in Catalogs BY DEF Catalogs
      <4>2. CASE centers = store["centers"] BY <1>2, <4>2 DEF Recent
      <4>3. ASSUME NEW p \in past["centers"], p.gone < SnapshotTTL + MaxWait + task.waited, centers = p.content
            PROVE  centers \in Recent("centers", task.waited)'
        <5>1. p.gone \in Nat BY <1>1, <1>5, <4>1 DEF Memory
        <5>2. p.gone < Memory BY <1>1, <3>1, <3>2, <4>3, <5>1 DEF Memory
        <5>3. PICK q \in past'["centers"] : q.content = p.content /\ q.gone = p.gone + 1
          BY <1>7, <4>1, <5>2
        <5>4. q.gone < SnapshotTTL + MaxWait + task'.waited BY <1>1, <3>2, <3>4, <4>3, <5>1, <5>3
        <5> QED BY <4>3, <5>3, <5>4 DEF Recent
      <4> QED BY <3>3, <4>2, <4>3 DEF Recent
    <3> QED BY <3>3, <3>4, <3>5 DEF TaskOK, Recent
  <2> QED BY <2>1, <2>2
<1> QED BY <1>2, <1>3, <1>4, <1>8, <1>10, <1>11, <1>12 DEF ReferencesInv

\* At first there are two divisions, and nothing is held.
LEMMA ReferencesInvInit ==
  ASSUME ReferencesInit
  PROVE  ReferencesInv
<1> DEFINE org == store["org"]
<1>1. /\ DOMAIN store = Catalogs /\ org = [id \in {1, 2} |-> Division(id - 1, TRUE)]
      /\ store["centers"] = << >> /\ store["types"] = << >>
  BY DEF ReferencesInit, Catalogs
<1>2. /\ DOMAIN past = Catalogs /\ DOMAIN held = Catalogs /\ task = NoTask
      /\ \A c \in Catalogs : past[c] = {} /\ held[c] = NoShot
      /\ DOMAIN asked = Askers /\ \A a \in Askers : asked[a] = NoShot
  BY DEF ReferencesInit
<1>3. IsTree(org)
  <2>1. {1, 2} \subseteq Ids BY ReferencesAssumption
  <2>2. /\ DOMAIN org = {1, 2} /\ org[1].parent = 0 /\ org[2].parent = 1
        /\ org \in [{1, 2} -> [parent : {0, 1, 2}, active : BOOLEAN, window : {<<0, 0>>}]]
    BY <1>1 DEF Division
  <2> HIDE DEF org
  <2>3. ASSUME NEW ids \in SUBSET {1, 2}, ids # {} PROVE \E id \in ids : org[id].parent \notin ids
    <3>1. CASE 1 \in ids BY <2>2, <3>1
    <3>2. CASE 1 \notin ids BY <2>2, <2>3, <3>2
    <3> QED BY <3>1, <3>2
  <2>4. DOMAIN org \cup {0} = {0, 1, 2} BY <2>2
  <2> QED BY <2>1, <2>2, <2>3, <2>4 DEF IsTree
<1>4. \A c \in Catalogs : IsCatalog(c, store[c])
  <2>1. << >> \in [DOMAIN << >> -> Ids] /\ << >> \in [DOMAIN << >> -> BOOLEAN] OBVIOUS
  <2> QED BY <1>1, <1>3, <2>1 DEF IsCatalog, Catalogs
<1> QED BY <1>1, <1>2, <1>4 DEF ReferencesInv, CatalogsOK, AskedOK, HeldOK, TaskOK

\* Whatever the catalogs become, however many fetches overlap and however long
\* they and a check take up to their timeout, what the client says of a
\* division, a cost centre or an asset type was so at core-divisions within the
\* lifetime of a snapshot and a call (Validate, Subtree, Path,
\* CheckCoherence, ValidateType).
THEOREM ReferencesTrue == ReferencesSpec => []ReferencesWereTrue
<1>1. ReferencesInv /\ [ReferencesNext]_referencesVars => ReferencesInv'
  <2> SUFFICES ASSUME ReferencesInv, [ReferencesNext]_referencesVars PROVE ReferencesInv' OBVIOUS
  <2>1. CASE Edit BY <2>1, EditKeepsInv
  <2>2. CASE Pass BY <2>2, PassKeepsInv
  <2>3. CASE UNCHANGED referencesVars
    <3>1. CatalogsOK' BY <2>3 DEF referencesVars, ReferencesInv, CatalogsOK, IsCatalog
    <3>2. HeldOK' /\ AskedOK' /\ TaskOK'
      BY <2>3 DEF referencesVars, ReferencesInv, HeldOK, AskedOK, TaskOK, Had, Recent
    <3> QED BY <2>3, <3>1, <3>2 DEF referencesVars, ReferencesInv
  <2>4. CASE \/ EndCheck \/ FailCheck
             \/ \E division \in Ids, center \in Centers : BeginCheck(division, center)
    BY <2>4, CheckKeepsInv
  <2>5. ASSUME NEW a \in Askers,
               \/ \E c \in Catalogs : FetchBegins(a, c)
               \/ FetchReads(a) \/ FetchLands(a) \/ FetchFails(a)
        PROVE  ReferencesInv'
    BY <2>5, FetchKeepsInv
  <2> QED BY <2>1, <2>2, <2>3, <2>4, <2>5 DEF ReferencesNext
<1> QED BY <1>1, ReferencesInvInit, InvMeansTrue, PTL DEF ReferencesSpec
=============================================================================
