-------------------------- MODULE Isolation_proofs --------------------------
(* Who gets in, and what is then reached.                                   *)
(*                                                                         *)
(* Access: for any issuer, TTL, deadlines, gates, catalogs and callers,    *)
(* what the gate lets through is what its policy says, the assistant only  *)
(* reads, and a token passes by a key no older than the cache allows. The  *)
(* invariant is AccessInv; KeysOK carries the last of the three: a key in  *)
(* a fetched set ages with the fetch, one in the cache with the cache.     *)
(*                                                                         *)
(* Stores: for any number of callers, keys, contents and links, what a Get *)
(* of either store finds and where a key or a link leads. A key CheckKey   *)
(* lets through is its own path (CleanPath), by induction on its segments. *)
EXTENDS Access, Stores, WellFoundedInduction, SequenceTheorems, TLAPS

-----------------------------------------------------------------------------
(* Access.                                                                  *)

\* What is kept of nobody is of its type.
LEMMA Nothing ==
  /\ NoToken \in Kid
  /\ NoClaims \in AnyClaims
  /\ NothingAsked \in Gates \X Action
PROOF
<1>1. \E k \in Kid : TRUE
  BY AccessAssumption
<1>2. \E p \in AnyClaims : TRUE
  BY AccessAssumption DEF AnyClaims
<1>3. \E x \in Gates \X Action : TRUE
  <2>1. PICK g \in Gates, a \in Action : TRUE
    BY AccessAssumption
  <2>2. <<g, a>> \in Gates \X Action
    OBVIOUS
  <2> QED BY <2>2
<1> QED BY <1>1, <1>2, <1>3 DEF NoToken, NoClaims, NothingAsked

\* A principal a call may claim to be is made of claims.
LEMMA ClaimsAreClaims == AnyClaims \subseteq Claims
PROOF BY AccessAssumption DEF AnyClaims

\* What the gate decides by itself (Gate.require): only a machine passes it
\* unasked, and the PDP is asked about no machine.
LEMMA GateDecides ==
  ASSUME NEW g \in Gates, NEW p \in Claims, NEW a \in Action
  PROVE  /\ Require(g, p, a) = "allow" => MachineMay(p, g, a)
         /\ Require(g, p, a) = "ask" => PdpMay(p, g, a)
         /\ Require(g, p, a) # "deny" => (p.via => IsRead(g, a))
PROOF
<1>1. p.principal_type \in {"", "user", "service", "agent", "unheard"}
  BY DEF Claims
<1>2. Machine(p) <=> PrincipalType(p) = "service"
  BY <1>1 DEF Machine, PrincipalType
<1>3. PrincipalType(p) = "user" => p.principal_type \in {"", "user"}
  BY <1>1 DEF PrincipalType
<1>4. PrincipalType(p) = "agent" <=> p.principal_type = "agent"
  BY <1>1 DEF PrincipalType
<1> QED
  BY <1>1, <1>2, <1>3, <1>4
  DEF Require, RequireService, RequireAgent, RequirePerson, MachineMay, PdpMay

\* What counts as a read changes nothing (capabilities.IsRead).
LEMMA ReadsAreHarmless ==
  ASSUME NEW g \in Gates, NEW a \in Action, IsRead(g, a)
  PROVE  a \in Harmless
PROOF BY GateAssumption DEF IsRead

---------------------------------------------------------------------------
(* One lemma per part of the invariant.                                    *)

\* The part of TypeOK that is about calls.
CallsTyped ==
  /\ at \in [Call -> {"idle", "verify", "fetch", "gate", "pdp", "allowed"}]
  /\ token \in [Call -> Kid]
  /\ left \in [Call -> 0 .. Deadline]
  /\ claims \in [Call -> AnyClaims]
  /\ asks \in [Call -> Gates \X Action]
  /\ said \in [Call -> BOOLEAN]

\* A refusal keeps it.
LEMMA RefuseTyped ==
  ASSUME TypeOK, NEW c \in Call, Refuse(c)
  PROVE  CallsTyped'
PROOF
<1>1. 0 \in 0 .. Deadline
  BY AccessAssumption
<1>2. /\ at' \in [Call -> {"idle", "verify", "fetch", "gate", "pdp", "allowed"}]
      /\ token' \in [Call -> Kid]
  BY Nothing DEF TypeOK, Refuse, Forgets, Goes
<1>3. left' \in [Call -> 0 .. Deadline] /\ said' \in [Call -> BOOLEAN]
  BY <1>1 DEF TypeOK, Refuse, Forgets
<1>4. claims' \in [Call -> AnyClaims] /\ asks' \in [Call -> Gates \X Action]
  BY Nothing DEF TypeOK, Refuse, Forgets
<1> QED BY <1>2, <1>3, <1>4 DEF CallsTyped

\* Every step keeps the types.
LEMMA TypeStep ==
  ASSUME TypeOK, [Next]_vars
  PROVE  TypeOK'
PROOF
<1> USE AccessAssumption, Nothing DEF TypeOK
<1>1. CASE \E k \in Kid : Rotate(k)
  BY <1>1 DEF Rotate, cacheVars, gateVars, Long
<1>2. CASE \E c \in Call : \E k \in Kid : Arrive(c, k)
  BY <1>2 DEF Arrive, Goes, issuerVars, cacheVars, gateVars
<1>3. ASSUME NEW c \in Call, KeysHit(c) \/ FetchOK(c) \/ FetchFails(c) PROVE TypeOK'
  <2>1. PICK keys : Verdict(c, keys)
    BY <1>3 DEF KeysHit, FetchOK, FetchFails
  <2>2. /\ set' \subseteq Kid /\ age' \in 0 .. TTL /\ mu' \in Call \cup {Nobody}
        /\ reply' \in [keys : SUBSET Kid, ready : BOOLEAN]
    <3>1. CASE KeysHit(c)
      BY <3>1 DEF KeysHit, cacheVars
    <3>2. CASE FetchOK(c)
      BY <3>2 DEF FetchOK, NoReply
    <3>3. CASE FetchFails(c)
      BY <3>3 DEF FetchFails, NoReply
    <3> QED BY <1>3, <3>1, <3>2, <3>3
  <2>3. published' \subseteq Kid /\ gone' \in [Kid -> 0 .. Long]
    BY <2>1 DEF Verdict, issuerVars
  <2>4. CASE ~ Refuse(c)
    <3>1. \A p \in Principals[c] : p \in AnyClaims
      BY DEF AnyClaims
    <3>2. claims' \in [Call -> AnyClaims]
      BY <2>1, <2>4, <3>1 DEF Verdict
    <3>3. at' \in [Call -> {"idle", "verify", "fetch", "gate", "pdp", "allowed"}]
      BY <2>1, <2>4 DEF Verdict, Goes
    <3>4. token' \in [Call -> Kid] /\ UNCHANGED <<left, asks, said>>
      BY <2>1, <2>4, Nothing DEF Verdict
    <3> QED BY <2>2, <2>3, <3>2, <3>3, <3>4
  <2>5. CASE Refuse(c)
    BY <2>2, <2>3, <2>5, RefuseTyped DEF CallsTyped
  <2> QED BY <2>4, <2>5
<1>4. ASSUME NEW c \in Call, FetchStart(c) PROVE TypeOK'
  BY <1>4 DEF FetchStart, Goes, issuerVars, gateVars
<1>5. ASSUME NEW c \in Call, PdpAllows(c) PROVE TypeOK'
  BY <1>5 DEF PdpAllows, Goes, issuerVars, cacheVars
<1>6. ASSUME NEW c \in Call, PdpDenies(c) \/ Leave(c) PROVE TypeOK'
  BY <1>6, RefuseTyped DEF CallsTyped, PdpDenies, Leave, issuerVars, cacheVars
<1>10. ASSUME NEW c \in Call, NEW g \in Gates, NEW a \in Action, Decide(c, g, a) PROVE TypeOK'
  <2>1. CASE Refuse(c)
    BY <1>10, <2>1, RefuseTyped DEF CallsTyped, Decide, issuerVars, cacheVars
  <2>2. CASE ~ Refuse(c)
    <3>1. 0 \in 0 .. Deadline /\ Sooner(left[c], PdpTimeout) \in 0 .. Deadline
      BY DEF Sooner
    <3>2. left' \in [Call -> 0 .. Deadline]
      BY <1>10, <2>2, <3>1 DEF Decide
    <3>3. asks' \in [Call -> Gates \X Action]
      BY <1>10, <2>2 DEF Decide
    <3>4. \E place \in {"allowed", "pdp"} : Goes(c, place)
      BY <1>10, <2>2 DEF Decide
    <3>5. at' \in [Call -> {"idle", "verify", "fetch", "gate", "pdp", "allowed"}]
      BY <3>4 DEF Goes
    <3>6. UNCHANGED <<token, claims, said>> /\ UNCHANGED <<issuerVars, cacheVars>>
      BY <1>10, <2>2 DEF Decide
    <3> QED BY <3>2, <3>3, <3>5, <3>6 DEF issuerVars, cacheVars
  <2> QED BY <2>1, <2>2
<1>7. CASE Serve
  BY <1>7 DEF Serve, issuerVars, gateVars
<1>8. CASE Elapse
  BY <1>8 DEF Elapse, Sooner, Long, gateVars
<1>9. CASE UNCHANGED vars
  BY <1>9 DEF vars, issuerVars, cacheVars, gateVars
<1> QED BY <1>1, <1>2, <1>3, <1>4, <1>5, <1>6, <1>7, <1>8, <1>9, <1>10 DEF Next, Verify, Gated

\* Whatever a step does, it is one of these.
LEMMA Steps ==
  ASSUME [Next]_vars
  PROVE  \/ \E k \in Kid : Rotate(k)
         \/ \E c \in Call, k \in Kid : Arrive(c, k)
         \/ \E c \in Call : KeysHit(c) \/ FetchStart(c) \/ FetchOK(c) \/ FetchFails(c)
         \/ \E c \in Call : PdpAllows(c) \/ PdpDenies(c) \/ Leave(c)
         \/ \E c \in Call, g \in Gates, a \in Action : Decide(c, g, a)
         \/ Serve \/ Elapse \/ UNCHANGED vars
PROOF BY DEF Next, Verify, Gated

\* Every step keeps what is known of the age of the keys.
LEMMA KeysStep ==
  ASSUME TypeOK, KeysOK, [Next]_vars
  PROVE  KeysOK'
PROOF
<1> USE AccessAssumption DEF TypeOK
<1>1. ASSUME NEW k \in Kid, Rotate(k) PROVE KeysOK'
  BY <1>1 DEF KeysOK, Rotate, cacheVars
<1>2. ASSUME NEW c \in Call, NEW k \in Kid, Arrive(c, k) PROVE KeysOK'
  BY <1>2 DEF KeysOK, Arrive, Goes, issuerVars, cacheVars
<1>3. ASSUME NEW c \in Call, NEW keys, Verdict(c, keys)
      PROVE  /\ at' = [at EXCEPT ![c] = "gate"] \/ at' = [at EXCEPT ![c] = "idle"]
             /\ UNCHANGED issuerVars
             /\ \A d \in Call \ {c} : left'[d] = left[d]
  BY <1>3 DEF Verdict, Refuse, Forgets, Goes
<1>4. ASSUME NEW c \in Call, KeysHit(c) PROVE KeysOK'
  BY <1>3, <1>4 DEF KeysOK, KeysHit, issuerVars, cacheVars
<1>5. ASSUME NEW c \in Call, FetchStart(c) PROVE KeysOK'
  BY <1>5 DEF KeysOK, FetchStart, Goes, issuerVars
<1>6. ASSUME NEW c \in Call, FetchOK(c) PROVE KeysOK'
  <2>1. mu = c /\ \A k \in reply.keys : k \in Kid /\ gone[k] <= Deadline
    BY <1>6 DEF KeysOK, FetchOK
  <2> QED BY <1>3, <1>6, <2>1 DEF KeysOK, FetchOK, NoReply, issuerVars
<1>7. ASSUME NEW c \in Call, FetchFails(c) PROVE KeysOK'
  <2>1. /\ at' = [at EXCEPT ![c] = "gate"] \/ at' = [at EXCEPT ![c] = "idle"]
        /\ UNCHANGED issuerVars
    BY <1>3, <1>7 DEF FetchFails
  <2>2. mu = c /\ mu' = Nobody /\ ~ reply'.ready /\ UNCHANGED <<set, age>>
    BY <1>7 DEF KeysOK, FetchFails, NoReply
  <2>3. \A d \in Call : at'[d] # "fetch" /\ d # Nobody
    BY <2>1, <2>2 DEF KeysOK
  <2> QED BY <2>1, <2>2, <2>3 DEF KeysOK, issuerVars
<1>8. ASSUME NEW c \in Call, PdpAllows(c) \/ PdpDenies(c) \/ Leave(c) PROVE KeysOK'
  BY <1>8 DEF KeysOK, PdpAllows, PdpDenies, Leave, Refuse, Forgets, Goes, issuerVars, cacheVars
<1>9. ASSUME NEW c \in Call, NEW g \in Gates, NEW a \in Action, Decide(c, g, a) PROVE KeysOK'
  <2>1. /\ at[c] = "gate" /\ at'[c] # "fetch"
        /\ \A d \in Call \ {c} : at'[d] = at[d] /\ left'[d] = left[d]
        /\ UNCHANGED <<issuerVars, cacheVars>>
    BY <1>9 DEF Decide, Refuse, Forgets, Goes
  <2> QED BY <2>1 DEF KeysOK, issuerVars, cacheVars
<1>10. CASE Serve
  <2>1. mu \in Call /\ left[mu] \in 0 .. Deadline /\ \A k \in published : gone[k] = 0
    BY <1>10 DEF KeysOK, Serve
  <2>2. reply'.keys = published /\ reply'.ready /\ UNCHANGED <<published, gone, set, age, mu, at, left>>
    BY <1>10 DEF Serve, issuerVars
  <2> QED BY <2>1, <2>2 DEF KeysOK
<1>11. CASE Elapse
  <2>1. \A k \in Kid : gone'[k] \in Nat /\ gone'[k] <= gone[k] + 1 /\ (k \in published => gone'[k] = 0)
    BY <1>11 DEF Elapse, Sooner, Long
  <2>2. age' < TTL => age < TTL /\ age' = age + 1
    BY <1>11 DEF Elapse, Sooner
  <2>3. mu # Nobody => at[mu] = "fetch" /\ left'[mu] = left[mu] - 1
    BY <1>11 DEF KeysOK, Elapse, InTime
  <2>4. UNCHANGED <<published, set, mu, reply, at>>
    BY <1>11 DEF Elapse
  <2> QED BY <2>1, <2>2, <2>3, <2>4 DEF KeysOK
<1>12. CASE UNCHANGED vars
  BY <1>12 DEF KeysOK, vars, issuerVars, cacheVars
<1> QED BY <1>1, <1>2, <1>4, <1>5, <1>6, <1>7, <1>8, <1>9, <1>10, <1>11, <1>12, Steps

---------------------------------------------------------------------------
\* A step that leaves the rest of a call alone, or takes it where nothing has
\* been decided, keeps what was decided about it.
Settled(c) == at'[c] \in {"pdp", "allowed"} =>
                at'[c] = at[c] /\ claims'[c] = claims[c] /\ asks'[c] = asks[c] /\ said'[c] = said[c]

\* Only the gate and the PDP's answer settle anything.
LEMMA MostSettled ==
  ASSUME TypeOK, [Next]_vars, NEW c \in Call
  PROVE  \/ Settled(c)
         \/ \E g \in Gates, a \in Action : Decide(c, g, a)
         \/ PdpAllows(c)
PROOF
<1> USE DEF TypeOK
<1>1. CASE \E k \in Kid : Rotate(k)
  BY <1>1 DEF Settled, Rotate, gateVars
<1>2. CASE \E d \in Call, k \in Kid : Arrive(d, k)
  BY <1>2 DEF Settled, Arrive, Goes, gateVars
<1>3. ASSUME NEW d \in Call, KeysHit(d) \/ FetchOK(d) \/ FetchFails(d) PROVE Settled(c)
  <2>1. PICK keys : Verdict(d, keys)
    BY <1>3 DEF KeysHit, FetchOK, FetchFails
  <2> QED BY <2>1 DEF Settled, Verdict, Refuse, Forgets, Goes
<1>4. CASE \E d \in Call : FetchStart(d)
  BY <1>4 DEF Settled, FetchStart, Goes, gateVars
<1>5. CASE \E d \in Call : PdpDenies(d) \/ Leave(d)
  BY <1>5 DEF Settled, PdpDenies, Leave, Refuse, Forgets, Goes
<1>6. CASE \E d \in Call \ {c} : PdpAllows(d)
  BY <1>6 DEF Settled, PdpAllows, Goes
<1>7. CASE \E d \in Call \ {c}, g \in Gates, a \in Action : Decide(d, g, a)
  BY <1>7 DEF Settled, Decide, Refuse, Forgets, Goes
<1>8. CASE Serve \/ Elapse \/ UNCHANGED vars
  BY <1>8 DEF Settled, Serve, Elapse, vars, gateVars
<1> QED BY <1>1, <1>2, <1>3, <1>4, <1>5, <1>6, <1>7, <1>8, Steps

\* What Decide leaves of a call it does not refuse.
LEMMA Decided ==
  ASSUME TypeOK, NEW c \in Call, NEW g \in Gates, NEW a \in Action, Decide(c, g, a)
  PROVE  \/ at'[c] = "idle"
         \/ /\ at'[c] = IF Require(g, claims[c], a) = "allow" THEN "allowed" ELSE "pdp"
            /\ Require(g, claims[c], a) \in {"allow", "ask"}
            /\ claims'[c] = claims[c] /\ asks'[c] = <<g, a>> /\ said'[c] = said[c]
PROOF
<1>1. Require(g, claims[c], a) \in {"allow", "ask", "deny"}
  BY DEF Require, RequireService, RequireAgent, RequirePerson
<1> QED BY <1>1 DEF TypeOK, Decide, Refuse, Goes

\* Every step keeps the policy.
LEMMA PolicyStep ==
  ASSUME TypeOK, PolicyDecides, [Next]_vars
  PROVE  PolicyDecides'
PROOF
<1> SUFFICES ASSUME NEW c \in Call
             PROVE  /\ at'[c] = "pdp" => PdpMay(claims'[c], asks'[c][1], asks'[c][2])
                    /\ at'[c] = "allowed" =>
                         \/ MachineMay(claims'[c], asks'[c][1], asks'[c][2])
                         \/ PdpMay(claims'[c], asks'[c][1], asks'[c][2]) /\ said'[c]
  BY DEF PolicyDecides
<1>1. claims[c] \in Claims
  BY ClaimsAreClaims DEF TypeOK
<1>2. CASE Settled(c)
  BY <1>2 DEF PolicyDecides, Settled
<1>3. ASSUME NEW g \in Gates, NEW a \in Action, Decide(c, g, a)
      PROVE  /\ at'[c] = "pdp" => PdpMay(claims'[c], asks'[c][1], asks'[c][2])
             /\ at'[c] = "allowed" => MachineMay(claims'[c], asks'[c][1], asks'[c][2])
  BY <1>1, <1>3, GateDecides, Decided
<1>4. CASE PdpAllows(c)
  <2>1. at[c] = "pdp" /\ at'[c] = "allowed" /\ said'[c] /\ claims'[c] = claims[c] /\ asks'[c] = asks[c]
    BY <1>4 DEF TypeOK, PdpAllows, Goes
  <2> QED BY <2>1 DEF PolicyDecides
<1> QED BY <1>2, <1>3, <1>4, MostSettled

\* Every step keeps the assistant reading.
LEMMA AssistantStep ==
  ASSUME TypeOK, AssistantOnlyReads, [Next]_vars
  PROVE  AssistantOnlyReads'
PROOF
<1> SUFFICES ASSUME NEW c \in Call, at'[c] \in {"pdp", "allowed"}, claims'[c].via
             PROVE  asks'[c][2] \in Harmless
  BY DEF AssistantOnlyReads
<1>1. claims[c] \in Claims
  BY ClaimsAreClaims DEF TypeOK
<1>2. CASE Settled(c)
  BY <1>2 DEF AssistantOnlyReads, Settled
<1>3. ASSUME NEW g \in Gates, NEW a \in Action, Decide(c, g, a)
      PROVE  asks'[c][2] \in Harmless
  BY <1>1, <1>3, GateDecides, Decided, ReadsAreHarmless
<1>4. CASE PdpAllows(c)
  BY <1>4 DEF AssistantOnlyReads, TypeOK, PdpAllows
<1> QED BY <1>2, <1>3, <1>4, MostSettled

---------------------------------------------------------------------------
(* The theorems.                                                           *)

\* The invariant: the types, the age of the keys (Verifier.keySet), the policy
\* of the gate and the rule about the assistant (Gate.require).
THEOREM AccessInvHolds == Spec => []AccessInv
PROOF
<1>1. Init => AccessInv
  <2> SUFFICES ASSUME Init PROVE AccessInv
    OBVIOUS
  <2> USE AccessAssumption, Nothing DEF Init
  <2>1. TypeOK
    BY DEF TypeOK, NoReply, Long
  <2>2. KeysOK
    BY DEF KeysOK, NoReply
  <2>3. PolicyDecides /\ AssistantOnlyReads
    BY DEF PolicyDecides, AssistantOnlyReads
  <2> QED BY <2>1, <2>2, <2>3 DEF AccessInv
<1>2. AccessInv /\ [Next]_vars => AccessInv'
  BY TypeStep, KeysStep, PolicyStep, AssistantStep DEF AccessInv
<1> QED BY <1>1, <1>2, PTL DEF Spec

\* What the gate lets through is what its policy says (Gate.Require).
THEOREM PolicyDecidesHolds == Spec => []PolicyDecides
PROOF
<1>1. AccessInv => PolicyDecides
  BY DEF AccessInv
<1> QED BY <1>1, AccessInvHolds, PTL

\* The assistant only reads (Gate.require, capabilities.IsRead).
THEOREM AssistantOnlyReadsHolds == Spec => []AssistantOnlyReads
PROOF
<1>1. AccessInv => AssistantOnlyReads
  BY DEF AccessInv
<1> QED BY <1>1, AccessInvHolds, PTL

\* A token passes by a key the issuer published a TTL and a fetch ago at most,
\* or by the set that a failed fetch falls back on (Verifier.keySet).
THEOREM OnlyFreshKeysHolds == Spec => OnlyFreshKeys
PROOF
<1> DEFINE Fresh(c) == \/ gone[token[c]] < TTL + Deadline
                       \/ at[c] = "fetch" /\ age' = age /\ token[c] \in set
<1>1. ASSUME AccessInv, Next, NEW c \in Call, at[c] # "gate", at'[c] = "gate"
      PROVE  Fresh(c)
  <2> TypeOK /\ KeysOK
    BY <1>1 DEF AccessInv
  <2> USE AccessAssumption DEF TypeOK
  <2>1. KeysHit(c) \/ FetchOK(c) \/ FetchFails(c)
    <3>1. ASSUME NEW d \in Call \ {c}, KeysHit(d) \/ FetchOK(d) \/ FetchFails(d) PROVE FALSE
      <4>1. PICK keys : Verdict(d, keys)
        BY <3>1 DEF KeysHit, FetchOK, FetchFails
      <4> QED BY <1>1, <4>1 DEF Verdict, Refuse, Goes
    <3>2. ~ \E k \in Kid : Rotate(k)
      BY <1>1 DEF Rotate
    <3>3. ~ \E d \in Call, k \in Kid : Arrive(d, k)
      BY <1>1 DEF Arrive, Goes
    <3>4. ~ \E d \in Call : FetchStart(d) \/ PdpAllows(d) \/ PdpDenies(d) \/ Leave(d)
      BY <1>1 DEF FetchStart, PdpAllows, PdpDenies, Leave, Refuse, Goes
    <3>5. ~ \E d \in Call, g \in Gates, a \in Action : Decide(d, g, a)
      BY <1>1 DEF Decide, Refuse, Goes
    <3>6. ~ (Serve \/ Elapse \/ UNCHANGED vars)
      BY <1>1 DEF Serve, Elapse, vars
    <3> QED BY <1>1, <3>1, <3>2, <3>3, <3>4, <3>5, <3>6, Steps
  <2>2. ASSUME NEW keys, Verdict(c, keys) PROVE token[c] \in keys
    BY <1>1, <2>2 DEF Verdict, Refuse, Goes
  <2>3. CASE KeysHit(c)
    <3>1. age < TTL /\ token[c] \in set
      BY <2>2, <2>3 DEF KeysHit
    <3>2. gone[token[c]] <= age + Deadline /\ token[c] \in Kid
      BY <3>1 DEF KeysOK
    <3>3. gone[token[c]] \in Nat
      BY <3>2 DEF Long
    <3>4. age \in Nat /\ TTL \in Nat /\ Deadline \in Nat
      OBVIOUS
    <3> HIDE DEF TypeOK
    <3> QED BY <3>1, <3>2, <3>3, <3>4
  <2>4. CASE FetchOK(c)
    <3>1. token[c] \in reply.keys /\ reply.ready /\ at[c] = "fetch"
      BY <2>2, <2>4 DEF FetchOK
    <3>2. mu = c /\ token[c] \in Kid /\ left[c] \in Nat
      BY <3>1 DEF KeysOK
    <3>3. gone[token[c]] \in Nat
      BY <3>2 DEF Long
    <3>4. gone[token[c]] + left[c] <= Deadline
      BY <3>1, <3>2 DEF KeysOK
    <3> HIDE DEF TypeOK
    <3> QED BY <3>2, <3>3, <3>4
  <2>5. CASE FetchFails(c)
    <3>1. token[c] \in set
      BY <2>2, <2>5 DEF FetchFails
    <3> QED BY <2>5, <3>1 DEF FetchFails
  <2> QED BY <2>1, <2>3, <2>4, <2>5
<1>2. AccessInv /\ [Next]_vars =>
        [\A c \in Call : at[c] # "gate" /\ at'[c] = "gate" =>
           \/ gone[token[c]] < TTL + Deadline
           \/ at[c] = "fetch" /\ age' = age /\ token[c] \in set]_vars
  BY <1>1
<1> QED BY <1>2, AccessInvHolds, PTL DEF Spec, OnlyFreshKeys

-----------------------------------------------------------------------------
(* Stores.                                                                  *)

\* A set of numbers with 0 and the successor of each of its own is all of them.
LEMMA AllNumbers ==
  ASSUME NEW T \in SUBSET Nat, 0 \in T, \A n \in T : n + 1 \in T
  PROVE  T = Nat
<1> SUFFICES ASSUME Nat \ T # {} PROVE FALSE
  OBVIOUS
<1> DEFINE Less == OpToRel(<, Nat)
<1>0. IsWellFoundedOn(Less, Nat)
  BY NatLessThanWellFounded, Zenon
<1>5. \A m, n \in Nat : m < n => <<m, n>> \in Less
  BY Zenon DEF OpToRel
<1> HIDE DEF Less
<1>1. PICK n \in Nat \ T : \A m \in Nat \ T : ~ (<<m, n>> \in Less)
  BY <1>0, WFMin
<1>2. n - 1 \in Nat /\ n - 1 < n
  BY <1>1
<1>3. n - 1 \notin T
  BY <1>2
<1>4. <<n - 1, n>> \in Less
  BY <1>1, <1>2, <1>5
<1> QED
  BY <1>1, <1>2, <1>3, <1>4

\* A key of a tenant is a path of its own: nothing in it is joined away.
LEMMA CleanPath ==
  ASSUME NEW tenant, NEW key \in Seq(STRING), CheckKey(tenant, key)
  PROVE  Path(key) = key
<1> DEFINE Joined(f, n) ==
             IF n = 0 THEN << >>
             ELSE IF key[n] \in {"", "."} THEN f[n - 1]
             ELSE IF key[n] # ".." THEN Append(f[n - 1], key[n])
             ELSE IF f[n - 1] = << >> THEN << >> ELSE Front(f[n - 1])
           Rule(f) == f = [n \in 0 .. Len(key) |-> Joined(f, n)]
           joined == CHOOSE f : Rule(f)
           cut == [n \in 0 .. Len(key) |-> SubSeq(key, 1, n)]
<1>1. \A n \in 1 .. Len(key) : key[n] \notin {"", ".", ".."}
  <2>1. DOMAIN key = 1 .. Len(key)
    OBVIOUS
  <2> QED
    BY <2>1 DEF CheckKey
<1>2. ASSUME NEW f, NEW n \in 1 .. Len(key) PROVE Joined(f, n) = Append(f[n - 1], key[n])
  <2>1. n # 0
    OBVIOUS
  <2>2. key[n] \notin {"", "."} /\ key[n] # ".."
    BY <1>1, Zenon
  <2> QED
    BY <2>1, <2>2, Zenon
<1>3. \A f : Joined(f, 0) = << >>
  OBVIOUS
<1> HIDE DEF Joined
<1>4. Rule(cut)
  <2>1. cut[0] = Joined(cut, 0)
    BY <1>3
  <2>2. \A n \in 1 .. Len(key) : cut[n] = Append(cut[n - 1], key[n])
    OBVIOUS
  <2>3. \A n \in 0 .. Len(key) : cut[n] = Joined(cut, n)
    <3>1. ASSUME NEW n \in 1 .. Len(key) PROVE cut[n] = Joined(cut, n)
      BY <1>2, <2>2
    <3>2. \A n \in 0 .. Len(key) : n = 0 \/ n \in 1 .. Len(key)
      OBVIOUS
    <3> QED
      BY <2>1, <3>1, <3>2
  <2> QED
    BY <2>3
<1>5. Rule(joined)
  BY <1>4
<1> HIDE DEF joined, cut
<1> DEFINE T == {n \in Nat : n <= Len(key) => joined[n] = SubSeq(key, 1, n)}
<1>6. 0 \in T
  <2>1. joined[0] = Joined(joined, 0)
    BY <1>5
  <2>2. SubSeq(key, 1, 0) = << >>
    OBVIOUS
  <2> QED
    BY <1>3, <2>1, <2>2
<1>7. ASSUME NEW n \in T PROVE n + 1 \in T
  <2>1. CASE n + 1 <= Len(key)
    <3>1. joined[n + 1] = Append(joined[n], key[n + 1])
      BY <1>2, <1>5, <2>1
    <3>2. joined[n] = SubSeq(key, 1, n)
      BY <2>1
    <3>3. SubSeq(key, 1, n + 1) = Append(SubSeq(key, 1, n), key[n + 1])
      BY <2>1
    <3>4. joined[n + 1] = SubSeq(key, 1, n + 1)
      BY <3>1, <3>2, <3>3
    <3> QED
      BY <3>4
  <2>2. CASE ~ (n + 1 <= Len(key))
    BY <2>2
  <2> QED
    BY <2>1, <2>2
<1> HIDE DEF T
<1>8. T = Nat
  BY <1>6, <1>7, AllNumbers DEF T
<1>9. joined[Len(key)] = SubSeq(key, 1, Len(key))
  BY <1>8 DEF T
<1>10. Path(key) = joined[Len(key)]
  BY DEF Path, joined, Joined
<1> QED
  BY <1>9, <1>10

LEMMA OwnPath ==
  ASSUME NEW tenant, NEW key \in Keys, CheckKey(tenant, key)
  PROVE  Path(key) \in Paths /\ Head(Path(key)) = tenant
<1>1. key \in Seq(STRING)
  BY KeysAssumption
<1>2. Path(key) = key
  BY <1>1, CleanPath
<1> QED
  BY <1>2 DEF Paths, CheckKey

-----------------------------------------------------------------------------
(* The store on a disk.                                                      *)

\* A path's file and its sidecar are two, and no other path's.
LEMMA FilesTyped ==
  ASSUME DiskTypeOK
  PROVE  /\ data \in [Paths -> Contents \cup {Empty, Absent}]
         /\ sidecar \in [Paths -> Contents \cup {Empty, Absent}]
BY DEF DiskTypeOK, Files, data, sidecar

LEMMA DataWritten ==
  ASSUME DiskTypeOK, NEW path \in Paths, NEW bytes \in Contents \cup {Empty, Absent},
         file' = [file EXCEPT ![path] = bytes]
  PROVE  /\ data' = [data EXCEPT ![path] = bytes] /\ sidecar' = sidecar
         /\ file' \in [Files -> Contents \cup {Empty, Absent}]
<1>1. path \in Files /\ \A p \in Paths : SidecarOf(p) # path
  BY SidecarAssumption DEF Files
<1>2. file \in [Files -> Contents \cup {Empty, Absent}]
  BY DEF DiskTypeOK
<1> QED
  BY <1>1, <1>2 DEF Files, data, sidecar

LEMMA TypeWritten ==
  ASSUME DiskTypeOK, NEW path \in Paths, NEW bytes \in Contents \cup {Empty, Absent},
         file' = [file EXCEPT ![SidecarOf(path)] = bytes]
  PROVE  /\ sidecar' = [sidecar EXCEPT ![path] = bytes] /\ data' = data
         /\ file' \in [Files -> Contents \cup {Empty, Absent}]
<1>1. /\ SidecarOf(path) \in Files
      /\ \A p \in Paths : SidecarOf(path) # p /\ (SidecarOf(p) = SidecarOf(path) => p = path)
  BY SidecarAssumption DEF Files
<1>2. file \in [Files -> Contents \cup {Empty, Absent}]
  BY DEF DiskTypeOK
<1> QED
  BY <1>1, <1>2 DEF Files, data, sidecar

LEMMA FilesKept == ASSUME file' = file PROVE data' = data /\ sidecar' = sidecar
BY DEF data, sidecar

\* What the step of a call says of it.
LEMMA CallShape ==
  ASSUME DiskTypeOK, NEW w \in Workers, worker[w] # Idle
  PROVE  /\ worker[w].path \in Paths /\ worker[w].tenant \in Tenants
         /\ worker[w].alone \in BOOLEAN
         /\ worker[w].step \in PutSteps => worker[w].op = "put" /\ worker[w].bytes \in Contents
         /\ worker[w].step \in {"read", "readType"} =>
              worker[w].op = "get" /\ worker[w].bytes \in Contents \cup {Empty}
         /\ worker[w].step \in {"unlinkType", "unlink"} => worker[w].op = "delete"
         /\ worker[w].op = "put" => worker[w].step \in PutSteps
BY DEF DiskTypeOK, AnyCall, CallsOf, PutSteps

LEMMA DiskInvInit == DiskInit => DiskInv
<1> SUFFICES ASSUME DiskInit PROVE DiskInv
  OBVIOUS
<1>1. DiskTypeOK
  BY DEF DiskInit, DiskTypeOK
<1>2. SettledIsRead /\ OwnDirectory
  BY DEF DiskInit, SettledIsRead, OwnDirectory
<1>3. \A w \in Workers : NobodyElseWrites(w) /\ StillThere(w)
  BY DEF DiskInit, NobodyElseWrites, StillThere
<1>4. \A path \in Paths : OnDisk(path)
  BY DEF DiskInit, OnDisk, data, sidecar, Files
<1> QED
  BY <1>1, <1>2, <1>3, <1>4 DEF DiskInv

\* Other calls that run alone are about other paths than a writer's.
LEMMA AwayFromWriter ==
  ASSUME DiskInv, NEW w \in Workers, worker[w] # Idle, worker[w].op \in {"put", "delete"},
         NEW v \in Workers \ {w}, worker[v] # Idle, worker[v].alone
  PROVE  worker[v].path # worker[w].path
BY DEF DiskInv, NobodyElseWrites, Alone, Writes

\* A writer's step on its own files, to another step of the same call ...
LEMMA WriterMoves ==
  ASSUME DiskInv, NEW w \in Workers, NEW step,
         worker[w] # Idle, worker[w].op \in {"put", "delete"},
         worker' = [worker EXCEPT ![w].step = step],
         UNCHANGED <<settled, found>>, DiskTypeOK', StillThere(w)',
         \A q \in Paths \ {worker[w].path} : data'[q] = data[q] /\ sidecar'[q] = sidecar[q]
  PROVE  DiskInv'
<1>0. DiskTypeOK
  BY DEF DiskInv
<1>1. /\ \A v \in Workers \ {w} : worker'[v] = worker[v]
      /\ worker'[w] = [worker[w] EXCEPT !.step = step]
  BY <1>0 DEF DiskTypeOK
<1>2. /\ worker'[w] # Idle
      /\ worker'[w].op = worker[w].op /\ worker'[w].path = worker[w].path
      /\ worker'[w].tenant = worker[w].tenant /\ worker'[w].alone = worker[w].alone
  BY <1>0, <1>1 DEF DiskTypeOK, AnyCall, CallsOf, Idle
<1>3. \A v \in Workers : \A q : Writes(v, q)' <=> Writes(v, q)
  BY <1>1, <1>2 DEF Writes
<1>4. SettledIsRead'
  BY DEF DiskInv, SettledIsRead
<1>5. OwnDirectory'
  BY <1>1, <1>2 DEF DiskInv, OwnDirectory
<1>6. ASSUME NEW v \in Workers PROVE NobodyElseWrites(v)'
  <2>1. NobodyElseWrites(v)
    BY DEF DiskInv
  <2>2. /\ worker'[v] # Idle => worker[v] # Idle
        /\ worker'[v] # Idle => worker'[v].path = worker[v].path /\ worker'[v].alone = worker[v].alone
    BY <1>1, <1>2
  <2> QED
    BY <1>3, <2>1, <2>2 DEF NobodyElseWrites, Alone
<1>7. ASSUME NEW v \in Workers \ {w} PROVE StillThere(v)'
  <2>1. StillThere(v) /\ (worker[v] # Idle => worker[v].path \in Paths)
    BY <1>0, CallShape DEF DiskInv
  <2>2. worker[v] # Idle /\ worker[v].alone => worker[v].path # worker[w].path
    BY AwayFromWriter
  <2> QED
    BY <1>1, <2>1, <2>2 DEF StillThere
<1>8. ASSUME NEW q \in Paths PROVE OnDisk(q)'
  <2>1. CASE q = worker[w].path
    BY <1>2, <2>1 DEF OnDisk, Writes
  <2>2. CASE q # worker[w].path
    <3>1. OnDisk(q) /\ data'[q] = data[q] /\ sidecar'[q] = sidecar[q]
      BY <2>2 DEF DiskInv
    <3> QED
      BY <1>3, <3>1 DEF OnDisk
  <2> QED
    BY <2>1, <2>2
<1> QED
  BY <1>4, <1>5, <1>6, <1>7, <1>8 DEF DiskInv

\* ... and its last one, which leaves a mess or what it was about.
LEMMA WriterEnds ==
  ASSUME DiskInv, NEW w \in Workers, NEW path \in Paths,
         worker[w] # Idle, worker[w].op \in {"put", "delete"}, path = worker[w].path,
         worker' = [worker EXCEPT ![w] = Idle],
         found' = found, DiskTypeOK',
         \A q \in Paths \ {path} :
           data'[q] = data[q] /\ sidecar'[q] = sidecar[q] /\ settled'[q] = settled[q],
         \/ settled'[path] = Torn
         \/ settled'[path] = Absent /\ data'[path] = Absent /\ sidecar'[path] = Absent
         \/ \E b \in Contents : settled'[path] = Blob(b, b) /\ data'[path] = b /\ sidecar'[path] = b
  PROVE  DiskInv'
<1>0. DiskTypeOK
  BY DEF DiskInv
<1>1. worker'[w] = Idle /\ \A v \in Workers \ {w} : worker'[v] = worker[v]
  BY <1>0 DEF DiskTypeOK
<1>2. \A v \in Workers : \A q : Writes(v, q)' <=> v # w /\ Writes(v, q)
  BY <1>1 DEF Writes, Idle
<1>3. SettledIsRead'
  BY DEF DiskInv, SettledIsRead
<1>4. OwnDirectory'
  BY <1>1 DEF DiskInv, OwnDirectory
<1>5. ASSUME NEW v \in Workers PROVE NobodyElseWrites(v)' /\ StillThere(v)'
  <2>1. CASE v = w
    BY <1>1, <2>1 DEF NobodyElseWrites, StillThere
  <2>2. CASE v # w
    <3>1. NobodyElseWrites(v) /\ StillThere(v) /\ (worker[v] # Idle => worker[v].path \in Paths)
      BY <1>0, CallShape DEF DiskInv
    <3>2. worker[v] # Idle /\ worker[v].alone => worker[v].path # path
      BY <2>2, AwayFromWriter
    <3>3. NobodyElseWrites(v)'
      BY <1>1, <1>2, <2>2, <3>1 DEF NobodyElseWrites, Alone
    <3>4. StillThere(v)'
      BY <1>1, <2>2, <3>1, <3>2 DEF StillThere
    <3> QED
      BY <3>3, <3>4
  <2> QED
    BY <2>1, <2>2
<1>6. ASSUME NEW q \in Paths PROVE OnDisk(q)'
  <2>1. CASE q = path
    BY <2>1 DEF OnDisk
  <2>2. CASE q # path
    <3>1. \A v \in Workers : Writes(v, q)' <=> Writes(v, q)
      BY <1>2, <2>2 DEF Writes
    <3> QED
      BY <2>2, <3>1 DEF DiskInv, OnDisk
  <2> QED
    BY <2>1, <2>2
<1> QED
  BY <1>3, <1>4, <1>5, <1>6 DEF DiskInv

\* A call of the store comes with a key of its tenant.
LEMMA DiskCallKeepsInv ==
  ASSUME DiskInv, NEW w \in Workers, NEW op \in {"put", "get", "delete"}, NEW tenant \in Tenants,
         NEW key \in Keys, NEW bytes \in Contents, DiskCall(w, op, tenant, key, bytes)
  PROVE  DiskInv'
<1>0. DiskTypeOK
  BY DEF DiskInv
<1>1. PICK call : 
        /\ call \in AnyCall
        /\ call.path \in Paths /\ Head(call.path) = call.tenant
        /\ call.step \in {"truncate", "read", "unlinkType"}
        /\ call.alone <=> Alone(w, call.path)
        /\ Begin(w, call)
  <2> DEFINE first == CASE op = "put" -> "truncate" [] op = "get" -> "read" [] OTHER -> "unlinkType"
             call == CallOf(op, tenant, Path(key), first, bytes, w)
  <2>1. CheckKey(tenant, key) /\ Begin(w, call)
    BY DEF DiskCall
  <2>2. Path(key) \in Paths /\ Head(Path(key)) = tenant
    BY <2>1, OwnPath
  <2>3. /\ op = "put" => first = "truncate"
        /\ op = "get" => first = "read"
        /\ op = "delete" => first = "unlinkType"
    OBVIOUS
  <2>4. Alone(w, Path(key)) \in BOOLEAN
    BY DEF Alone
  <2> HIDE DEF first
  <2>5. call \in AnyCall
    BY <2>2, <2>3, <2>4 DEF AnyCall, CallsOf, CallOf, PutSteps
  <2>6. /\ call.path = Path(key) /\ call.tenant = tenant /\ call.step = first
        /\ call.alone = Alone(w, Path(key))
    BY DEF CallOf
  <2> QED
    BY <2>1, <2>2, <2>3, <2>5, <2>6
<1>2. call # Idle
  BY <1>1 DEF AnyCall, CallsOf, Idle
<1>3. UNCHANGED <<file, data, sidecar, settled, found>>
  BY FilesKept DEF DiskCall
<1>4. /\ worker[w] = Idle /\ worker'[w] = call
      /\ \A v \in Workers \ {w} : worker'[v] =
           IF worker[v] # Idle /\ worker[v].path = call.path /\ call.op # "get"
           THEN [worker[v] EXCEPT !.alone = FALSE] ELSE worker[v]
  BY <1>1 DEF Begin
<1>5. ASSUME NEW v \in Workers \ {w}
      PROVE  /\ worker'[v] = worker[v] \/ worker'[v] = [worker[v] EXCEPT !.alone = FALSE]
             /\ worker'[v] # Idle <=> worker[v] # Idle
             /\ worker[v] # Idle => /\ worker'[v].op = worker[v].op /\ worker'[v].path = worker[v].path
                                    /\ worker'[v].tenant = worker[v].tenant
                                    /\ worker'[v].step = worker[v].step
                                    /\ worker'[v].bytes = worker[v].bytes
                                    /\ worker'[v].alone => worker[v].alone
             /\ worker'[v] # Idle /\ worker'[v].alone /\ worker'[v].path = call.path => call.op = "get"
  <2>1. worker[v] # Idle => worker[v] \in AnyCall
    BY <1>0 DEF DiskTypeOK
  <2>2. worker'[v] = IF worker[v] # Idle /\ worker[v].path = call.path /\ call.op # "get"
           THEN [worker[v] EXCEPT !.alone = FALSE] ELSE worker[v]
    BY <1>4
  <2> QED
    BY <2>1, <2>2 DEF AnyCall, CallsOf, Idle
<1>6. DiskTypeOK'
  <2>1. ASSUME NEW v \in Workers \ {w}, worker[v] # Idle
        PROVE  [worker[v] EXCEPT !.alone = FALSE] \in AnyCall
    <3>1. PICK c \in AnyCall : c = worker[v]
      BY <1>0, <2>1 DEF DiskTypeOK
    <3>2. [c EXCEPT !.alone = FALSE] \in AnyCall
      BY DEF AnyCall, CallsOf
    <3> QED
      BY <3>1, <3>2
  <2>2. \A v \in Workers : worker'[v] \in {Idle} \cup AnyCall
    <3>1. \A v \in Workers : worker[v] = Idle \/ worker[v] \in AnyCall
      BY <1>0 DEF DiskTypeOK
    <3>2. ASSUME NEW v \in Workers \ {w} PROVE worker'[v] \in {Idle} \cup AnyCall
      <4>1. worker'[v] = IF worker[v] # Idle /\ worker[v].path = call.path /\ call.op # "get"
                          THEN [worker[v] EXCEPT !.alone = FALSE] ELSE worker[v]
        BY <1>4
      <4>2. CASE worker[v] # Idle /\ worker[v].path = call.path /\ call.op # "get"
        BY <2>1, <4>1, <4>2
      <4>3. CASE ~ (worker[v] # Idle /\ worker[v].path = call.path /\ call.op # "get")
        BY <3>1, <4>1, <4>3
      <4> QED
        BY <4>2, <4>3
    <3> QED
      BY <1>1, <1>4, <3>2
  <2>3. worker' = [v \in Workers |-> worker'[v]]
    BY <1>1 DEF Begin
  <2> QED
    BY <1>0, <1>3, <2>2, <2>3 DEF DiskTypeOK
<1>7. \A v \in Workers : \A q : Writes(v, q)' <=>
        Writes(v, q) \/ (v = w /\ call.op \in {"put", "delete"} /\ call.path = q)
  <2> TAKE v \in Workers
  <2> TAKE q
  <2>1. CASE v = w
    BY <1>4, <2>1 DEF Writes, Idle
  <2>2. CASE v # w /\ worker[v] # Idle
    BY <1>5, <2>2 DEF Writes
  <2>3. CASE v # w /\ worker[v] = Idle
    BY <1>5, <2>3 DEF Writes, Idle
  <2> QED
    BY <2>1, <2>2, <2>3
<1>8. SettledIsRead' /\ OwnDirectory'
  <2>1. SettledIsRead /\ OwnDirectory
    BY DEF DiskInv
  <2>2. ASSUME NEW v \in Workers, worker'[v] # Idle PROVE Head(worker'[v].path) = worker'[v].tenant
    <3>1. CASE v = w
      BY <1>1, <1>4, <3>1
    <3>2. CASE v # w
      BY <1>5, <2>1, <2>2, <3>2 DEF OwnDirectory
    <3> QED
      BY <3>1, <3>2
  <2> QED
    BY <1>3, <2>1, <2>2 DEF SettledIsRead, OwnDirectory
<1>9. ASSUME NEW v \in Workers PROVE NobodyElseWrites(v)'
  <2>1. CASE v = w
    BY <1>1, <1>4, <1>7, <2>1 DEF NobodyElseWrites, Alone
  <2>2. CASE v # w
    <3> SUFFICES ASSUME worker'[v] # Idle, worker'[v].alone, NEW u \in Workers \ {v}
                 PROVE  ~ Writes(u, worker[v].path)'
      BY DEF NobodyElseWrites, Alone
    <3>0. PICK q : q = worker[v].path /\ q = worker'[v].path /\ worker[v].alone /\ worker[v] # Idle
      BY <1>5, <2>2
    <3>1. ~ Writes(u, q)
      BY <2>2, <3>0 DEF DiskInv, NobodyElseWrites, Alone
    <3>2. ~ (call.op \in {"put", "delete"} /\ call.path = q)
      BY <1>5, <2>2, <3>0
    <3>3. ~ Writes(u, q)'
      BY <1>7, <3>1, <3>2
    <3> QED
      BY <3>0, <3>3
  <2> QED
    BY <2>1, <2>2
<1>10. ASSUME NEW v \in Workers PROVE StillThere(v)'
  <2>1. CASE v = w
    BY <1>1, <1>4, <2>1 DEF StillThere
  <2>2. CASE v # w
    BY <1>3, <1>5, <2>2 DEF DiskInv, StillThere
  <2> QED
    BY <2>1, <2>2
<1>11. ASSUME NEW q \in Paths PROVE OnDisk(q)'
  BY <1>3, <1>7 DEF DiskInv, OnDisk
<1> QED
  BY <1>6, <1>8, <1>9, <1>10, <1>11 DEF DiskInv

\* The steps of a Put ...
LEMMA PutKeepsInv ==
  ASSUME DiskInv, NEW w \in Workers,
         Truncate(w) \/ WriteData(w) \/ TruncateType(w) \/ WriteType(w) \/ PutFails(w)
  PROVE  DiskInv'
<1>0. /\ DiskTypeOK /\ StillThere(w)
      /\ data \in [Paths -> Contents \cup {Empty, Absent}] /\ sidecar \in [Paths -> Contents \cup {Empty, Absent}]
  BY FilesTyped DEF DiskInv
<1> USE DEF At, GoTo, Ends
<1>1. worker[w] # Idle /\ worker[w].op = "put"
      /\ worker[w].path \in Paths /\ worker[w].bytes \in Contents
  <2>1. worker[w] # Idle
    BY DEF Truncate, WriteData, TruncateType, WriteType, PutFails, Idle
  <2>2. worker[w].op = "put" \/ worker[w].step \in PutSteps
    BY DEF Truncate, WriteData, TruncateType, WriteType, PutFails, PutSteps
  <2> QED
    BY <1>0, <2>1, <2>2, CallShape
<1>2. worker[w] \in CallsOf("put", PutSteps, Contents)
  BY <1>0, <1>1 DEF DiskTypeOK, AnyCall, CallsOf
<1>3. ASSUME NEW step \in PutSteps
      PROVE  [worker EXCEPT ![w].step = step] \in [Workers -> {Idle}
               \cup AnyCall]
  <2>1. [worker[w] EXCEPT !.step = step] \in CallsOf("put", PutSteps, Contents)
    BY <1>2 DEF AnyCall, CallsOf
  <2> QED
    BY <1>0, <2>1 DEF DiskTypeOK, AnyCall
<1>4. CASE Truncate(w)
  <2>0. file' = [file EXCEPT ![worker[w].path] = Empty]
    BY <1>4 DEF Truncate
  <2>1. /\ data' = [data EXCEPT ![worker[w].path] = Empty] /\ file' \in [Files -> Contents \cup {Empty, Absent}]
        /\ worker' = [worker EXCEPT ![w].step = "write"]
        /\ UNCHANGED <<sidecar, settled, found>>
    BY <1>0, <1>1, <1>4, <2>0, DataWritten DEF Truncate
  <2>2. DiskTypeOK'
    BY <1>0, <1>3, <2>1 DEF DiskTypeOK, PutSteps
  <2>3. StillThere(w)'
    BY <1>0, <1>2, <2>1 DEF StillThere, AnyCall, CallsOf, DiskTypeOK
  <2> QED
    BY <1>0, <1>1, <2>1, <2>2, <2>3, WriterMoves DEF DiskTypeOK
<1>5. CASE WriteData(w)
  <2>0. file' = [file EXCEPT ![worker[w].path] = worker[w].bytes]
    BY <1>5 DEF WriteData
  <2>1. /\ data' = [data EXCEPT ![worker[w].path] = worker[w].bytes] /\ file' \in [Files -> Contents \cup {Empty, Absent}]
        /\ worker' = [worker EXCEPT ![w].step = "truncateType"]
        /\ UNCHANGED <<sidecar, settled, found>>
    BY <1>0, <1>1, <1>5, <2>0, DataWritten DEF WriteData
  <2>2. DiskTypeOK'
    BY <1>0, <1>1, <1>3, <2>1 DEF DiskTypeOK, PutSteps
  <2>3. StillThere(w)'
    BY <1>0, <1>1, <1>2, <2>1 DEF StillThere, AnyCall, CallsOf, DiskTypeOK
  <2> QED
    BY <1>0, <1>1, <2>1, <2>2, <2>3, WriterMoves DEF DiskTypeOK
<1>6. CASE TruncateType(w)
  <2>0. file' = [file EXCEPT ![SidecarOf(worker[w].path)] = Empty]
    BY <1>6 DEF TruncateType
  <2>1. /\ sidecar' = [sidecar EXCEPT ![worker[w].path] = Empty] /\ file' \in [Files -> Contents \cup {Empty, Absent}]
        /\ worker[w].step = "truncateType"
        /\ worker' = [worker EXCEPT ![w].step = "writeType"]
        /\ UNCHANGED <<data, settled, found>>
    BY <1>0, <1>1, <1>6, <2>0, TypeWritten DEF TruncateType
  <2>2. DiskTypeOK'
    BY <1>0, <1>1, <1>3, <2>1 DEF DiskTypeOK, PutSteps
  <2>3. StillThere(w)'
    BY <1>0, <1>1, <1>2, <2>1 DEF StillThere, AnyCall, CallsOf, DiskTypeOK
  <2> QED
    BY <1>0, <1>1, <2>1, <2>2, <2>3, WriterMoves DEF DiskTypeOK
<1>7. CASE WriteType(w)
  <2>1. PICK path \in Paths, b \in Contents : path = worker[w].path /\ b = worker[w].bytes
    BY <1>1
  <2>0. file' = [file EXCEPT ![SidecarOf(path)] = b]
    BY <1>7, <2>1 DEF WriteType
  <2>2. /\ sidecar' = [sidecar EXCEPT ![path] = b] /\ file' \in [Files -> Contents \cup {Empty, Absent}]
        /\ settled' = [settled EXCEPT ![path] = IF worker[w].alone THEN Blob(b, b) ELSE Torn]
        /\ worker' = [worker EXCEPT ![w] = Idle]
        /\ UNCHANGED <<data, found>>
        /\ worker[w].alone => data[path] = b
    BY <1>0, <1>1, <1>7, <2>0, <2>1, TypeWritten DEF WriteType, Settle, StillThere
  <2>3. DiskTypeOK'
    BY <1>0, <1>1, <2>2 DEF DiskTypeOK
  <2>4. sidecar'[path] = b /\ settled'[path] = IF worker[w].alone THEN Blob(b, b) ELSE Torn
    BY <1>0, <2>2 DEF DiskTypeOK
  <2>5. \A q \in Paths \ {path} : data'[q] = data[q] /\ sidecar'[q] = sidecar[q] /\ settled'[q] = settled[q]
    BY <1>0, <2>2 DEF DiskTypeOK
  <2>6. \/ settled'[path] = Torn
        \/ \E x \in Contents : settled'[path] = Blob(x, x) /\ data'[path] = x /\ sidecar'[path] = x
    BY <2>2, <2>4
  <2> QED
    BY <1>1, <2>1, <2>2, <2>3, <2>5, <2>6, WriterEnds
<1>8. CASE PutFails(w)
  <2>1. PICK path \in Paths : path = worker[w].path
    BY <1>1
  <2>2. /\ settled' = [settled EXCEPT ![path] = Torn]
        /\ worker' = [worker EXCEPT ![w] = Idle]
        /\ UNCHANGED <<file, data, sidecar, found>>
    BY <1>8, <2>1, FilesKept DEF PutFails
  <2>3. DiskTypeOK'
    BY <1>0, <2>2 DEF DiskTypeOK
  <2>4. settled'[path] = Torn /\ \A q \in Paths \ {path} : settled'[q] = settled[q]
    BY <1>0, <2>2 DEF DiskTypeOK
  <2> QED
    BY <1>1, <2>1, <2>2, <2>3, <2>4, WriterEnds
<1> QED
  BY <1>4, <1>5, <1>6, <1>7, <1>8

\* ... and of a Delete, which leaves what was promised or a mess.
LEMMA DeleteKeepsInv ==
  ASSUME DiskInv, NEW w \in Workers, UnlinkType(w) \/ Unlink(w)
  PROVE  DiskInv'
<1>0. /\ DiskTypeOK /\ StillThere(w)
      /\ data \in [Paths -> Contents \cup {Empty, Absent}] /\ sidecar \in [Paths -> Contents \cup {Empty, Absent}]
  BY FilesTyped DEF DiskInv
<1> USE DEF At, GoTo, Ends
<1>1. /\ worker[w] # Idle /\ worker[w].op = "delete" /\ worker[w].path \in Paths
      /\ worker[w].alone \in BOOLEAN
  BY <1>0, CallShape DEF UnlinkType, Unlink
<1>2. worker[w] \in CallsOf("delete", {"unlinkType", "unlink"}, Contents)
  BY <1>0, <1>1 DEF DiskTypeOK, AnyCall, CallsOf
<1>3. CASE UnlinkType(w)
  <2>0. file' = [file EXCEPT ![SidecarOf(worker[w].path)] = Absent]
    BY <1>3 DEF UnlinkType
  <2>1. /\ sidecar' = [sidecar EXCEPT ![worker[w].path] = Absent] /\ file' \in [Files -> Contents \cup {Empty, Absent}]
        /\ worker' = [worker EXCEPT ![w].step = "unlink"]
        /\ UNCHANGED <<data, settled, found>>
    BY <1>0, <1>1, <1>3, <2>0, TypeWritten DEF UnlinkType
  <2>2. [worker[w] EXCEPT !.step = "unlink"] \in CallsOf("delete", {"unlinkType", "unlink"}, Contents)
    BY <1>2 DEF AnyCall, CallsOf
  <2>3. DiskTypeOK'
    BY <1>0, <2>1, <2>2 DEF DiskTypeOK, AnyCall
  <2>4. StillThere(w)'
    BY <1>0, <1>1, <1>2, <2>1 DEF StillThere, AnyCall, CallsOf, DiskTypeOK
  <2> QED
    BY <1>0, <1>1, <2>1, <2>3, <2>4, WriterMoves DEF DiskTypeOK
<1>4. CASE Unlink(w)
  <2>1. PICK path \in Paths : path = worker[w].path
    BY <1>1
  <2>0. file' = [file EXCEPT ![path] = Absent]
    BY <1>4, <2>1 DEF Unlink
  <2>2. /\ data' = [data EXCEPT ![path] = Absent] /\ file' \in [Files -> Contents \cup {Empty, Absent}]
        /\ settled' = [settled EXCEPT ![path] = IF worker[w].alone THEN Absent ELSE Torn]
        /\ worker' = [worker EXCEPT ![w] = Idle]
        /\ UNCHANGED <<sidecar, found>>
        /\ worker[w].alone => sidecar[path] = Absent
    BY <1>0, <1>1, <1>4, <2>0, <2>1, DataWritten DEF Unlink, Settle, StillThere
  <2>3. DiskTypeOK'
    BY <1>0, <2>2 DEF DiskTypeOK
  <2>4. data'[path] = Absent /\ settled'[path] = IF worker[w].alone THEN Absent ELSE Torn
    BY <1>0, <2>2 DEF DiskTypeOK
  <2>5. \A q \in Paths \ {path} : data'[q] = data[q] /\ sidecar'[q] = sidecar[q] /\ settled'[q] = settled[q]
    BY <1>0, <2>2 DEF DiskTypeOK
  <2>6. \/ settled'[path] = Torn
        \/ settled'[path] = Absent /\ data'[path] = Absent /\ sidecar'[path] = Absent
    BY <2>2, <2>4
  <2> QED
    BY <1>1, <2>1, <2>2, <2>3, <2>5, <2>6, WriterEnds
<1> QED
  BY <1>3, <1>4

\* An answer of a Get is what is settled, if it was to be.
LEMMA AnswerKeepsInv ==
  ASSUME DiskInv, NEW w \in Workers, NEW got, worker[w] # Idle, worker[w].op = "get",
         worker' = [worker EXCEPT ![w] = Idle], UNCHANGED <<file, settled>>,
         found' = [tenant |-> worker[w].tenant, path |-> worker[w].path, got |-> got,
                   owed |-> IF worker[w].alone THEN settled[worker[w].path] ELSE Torn],
         worker[w].alone /\ settled[worker[w].path] # Torn => got = settled[worker[w].path]
  PROVE  DiskInv'
<1>0. DiskTypeOK /\ UNCHANGED <<data, sidecar>>
  BY FilesKept DEF DiskInv
<1>1. worker'[w] = Idle /\ \A v \in Workers \ {w} : worker'[v] = worker[v]
  BY <1>0 DEF DiskTypeOK
<1>2. \A v \in Workers : \A q : Writes(v, q)' <=> Writes(v, q)
  BY <1>1 DEF Writes, Idle
<1>3. DiskTypeOK'
  BY <1>0 DEF DiskTypeOK
<1>4. SettledIsRead'
  BY DEF SettledIsRead
<1>5. OwnDirectory'
  BY <1>1 DEF DiskInv, OwnDirectory
<1>6. ASSUME NEW v \in Workers PROVE NobodyElseWrites(v)' /\ StillThere(v)'
  <2>1. CASE v = w
    BY <1>1, <2>1 DEF NobodyElseWrites, StillThere
  <2>2. CASE v # w
    <3>1. NobodyElseWrites(v) /\ StillThere(v) /\ worker'[v] = worker[v]
      BY <1>1, <2>2 DEF DiskInv
    <3>2. NobodyElseWrites(v)'
      BY <1>2, <3>1 DEF NobodyElseWrites, Alone
    <3>3. StillThere(v)'
      BY <1>0, <3>1 DEF StillThere
    <3> QED
      BY <3>2, <3>3
  <2> QED
    BY <2>1, <2>2
<1>7. ASSUME NEW q \in Paths PROVE OnDisk(q)'
  BY <1>0, <1>2 DEF DiskInv, OnDisk
<1> QED
  BY <1>3, <1>4, <1>5, <1>6, <1>7 DEF DiskInv

\* The steps of a Get.
LEMMA GetKeepsInv ==
  ASSUME DiskInv, NEW w \in Workers, ReadData(w) \/ ReadType(w)
  PROVE  DiskInv'
<1>0. /\ DiskTypeOK /\ StillThere(w) /\ NobodyElseWrites(w)
      /\ data \in [Paths -> Contents \cup {Empty, Absent}] /\ sidecar \in [Paths -> Contents \cup {Empty, Absent}]
  BY FilesTyped DEF DiskInv
<1> USE DEF At, Ends
<1>1. /\ worker[w] # Idle /\ worker[w].op = "get" /\ worker[w].path \in Paths
      /\ worker[w].bytes \in Contents \cup {Empty}
  BY <1>0, CallShape DEF ReadData, ReadType
<1>2. PICK path \in Paths : path = worker[w].path
  BY <1>1
<1>3. worker[w].alone /\ settled[path] # Torn =>
        \/ settled[path] = Absent /\ data[path] = Absent /\ sidecar[path] = Absent
        \/ \E b \in Contents : settled[path] = Blob(b, b) /\ data[path] = b /\ sidecar[path] = b
  <2>1. worker[w].alone => \A v \in Workers : ~ Writes(v, path)
    BY <1>0, <1>1, <1>2 DEF NobodyElseWrites, Alone, Writes
  <2>2. OnDisk(path)
    BY DEF DiskInv
  <2> QED
    BY <2>1, <2>2 DEF OnDisk
<1>4. Absent \notin Contents \cup {Empty}
  BY DiskAssumption
<1>5. data[path] = file[path] /\ sidecar[path] = file[SidecarOf(path)]
  BY DEF data, sidecar
<1>6. CASE ReadData(w) /\ data[path] = Absent
  <2>1. worker[w].alone /\ settled[path] # Torn => Absent = settled[path]
    BY <1>3, <1>4, <1>6
  <2> QED
    BY <1>1, <1>2, <1>5, <1>6, <2>1, AnswerKeepsInv DEF ReadData
<1>7. CASE ReadData(w) /\ data[path] # Absent
  <2>1. /\ worker' = [worker EXCEPT ![w].step = "readType", ![w].bytes = data[path]]
        /\ UNCHANGED <<file, data, sidecar, settled, found>>
    BY <1>2, <1>5, <1>7, FilesKept DEF ReadData
  <2>2. PICK b \in Contents \cup {Empty} : b = data[path]
    BY <1>0, <1>7 DEF DiskTypeOK
  <2>3. PICK c \in CallsOf("get", {"read", "readType"}, Contents \cup {Empty}) : c = worker[w]
    <3>1. PICK c \in AnyCall : c = worker[w]
      BY <1>0, <1>1 DEF DiskTypeOK
    <3>2. c \in CallsOf("get", {"read", "readType"}, Contents \cup {Empty})
      BY <1>1, <3>1 DEF AnyCall, CallsOf
    <3> QED
      BY <3>1, <3>2
  <2>4. PICK call : call = [c EXCEPT !.step = "readType", !.bytes = b]
    OBVIOUS
  <2>5. /\ call \in CallsOf("get", {"read", "readType"}, Contents \cup {Empty})
        /\ call # Idle /\ call.op = "get" /\ call.path = path /\ call.alone = worker[w].alone
        /\ call.tenant = worker[w].tenant /\ call.step = "readType" /\ call.bytes = data[path]
    <3>1. /\ call \in CallsOf("get", {"read", "readType"}, Contents \cup {Empty})
          /\ call.op = "get" /\ call.path = c.path /\ call.alone = c.alone
          /\ call.tenant = c.tenant /\ call.step = "readType" /\ call.bytes = b
      BY <2>4 DEF CallsOf
    <3> QED
      BY <1>2, <2>2, <2>3, <3>1 DEF Idle
  <2>6. worker' = [worker EXCEPT ![w] = call]
    <3>1. worker \in [Workers -> {Idle} \cup AnyCall]
      BY <1>0 DEF DiskTypeOK
    <3>2. [worker EXCEPT ![w].step = "readType", ![w].bytes = b] =
            [worker EXCEPT ![w] = [worker[w] EXCEPT !.step = "readType", !.bytes = b]]
      BY <3>1
    <3> QED
      BY <2>1, <2>2, <2>3, <2>4, <3>2
  <2>7. worker'[w] = call /\ \A v \in Workers \ {w} : worker'[v] = worker[v]
    BY <1>0, <2>6 DEF DiskTypeOK
  <2>8. \A v \in Workers : \A q : Writes(v, q)' <=> Writes(v, q)
    BY <1>1, <2>5, <2>7 DEF Writes
  <2>9. DiskTypeOK'
    <3>1. call \in AnyCall
      BY <2>5 DEF AnyCall
    <3>2. worker' \in [Workers -> {Idle} \cup AnyCall]
      BY <1>0, <2>6, <3>1 DEF DiskTypeOK
    <3> QED
      BY <1>0, <2>1, <3>2 DEF DiskTypeOK
  <2>10. SettledIsRead' /\ OwnDirectory'
    <3>1. SettledIsRead'
      BY <2>1 DEF DiskInv, SettledIsRead
    <3>2. ASSUME NEW v \in Workers, worker'[v] # Idle PROVE Head(worker'[v].path) = worker'[v].tenant
      <4>1. Head(path) = worker[w].tenant
        BY <1>1, <1>2 DEF DiskInv, OwnDirectory
      <4>2. CASE v = w
        BY <2>5, <2>7, <4>1, <4>2
      <4>3. CASE v # w
        BY <2>7, <3>2, <4>3 DEF DiskInv, OwnDirectory
      <4> QED
        BY <4>2, <4>3
    <3> QED
      BY <2>1, <3>1, <3>2 DEF DiskInv, OwnDirectory
  <2>11. ASSUME NEW v \in Workers PROVE NobodyElseWrites(v)' /\ StillThere(v)'
    <3>1. CASE v = w
      <4>1. StillThere(v)'
        BY <2>1, <2>5, <2>7, <3>1 DEF StillThere
      <4>2. NobodyElseWrites(v)'
        BY <1>0, <1>1, <1>2, <2>5, <2>7, <2>8, <3>1 DEF NobodyElseWrites, Alone
      <4> QED
        BY <4>1, <4>2
    <3>2. CASE v # w
      <4>1. NobodyElseWrites(v) /\ StillThere(v) /\ worker'[v] = worker[v]
        BY <2>7, <3>2 DEF DiskInv
      <4>2. NobodyElseWrites(v)'
        BY <2>8, <4>1 DEF NobodyElseWrites, Alone
      <4>3. StillThere(v)'
        BY <2>1, <4>1 DEF StillThere
      <4> QED
        BY <4>2, <4>3
    <3> QED
      BY <3>1, <3>2
  <2>12. ASSUME NEW q \in Paths PROVE OnDisk(q)'
    BY <2>1, <2>8 DEF DiskInv, OnDisk
  <2> QED
    BY <2>9, <2>10, <2>11, <2>12 DEF DiskInv
<1>8. CASE ReadType(w)
  <2>1. PICK type : type = IF sidecar[path] = Absent THEN Empty ELSE sidecar[path]
    OBVIOUS
  <2>2. worker[w].alone => data[path] = worker[w].bytes
    BY <1>0, <1>1, <1>2, <1>8 DEF ReadType, StillThere
  <2>3. worker[w].alone /\ settled[path] # Torn => Blob(worker[w].bytes, type) = settled[path]
    BY <1>1, <1>3, <1>4, <2>1, <2>2
  <2> QED
    BY <1>1, <1>2, <1>5, <1>8, <2>1, <2>3, AnswerKeepsInv DEF ReadType
<1> QED
  BY <1>2, <1>6, <1>7, <1>8

\* A crash stops every call, and leaves a mess where one was writing.
LEMMA CrashKeepsInv == ASSUME DiskInv, DiskCrash PROVE DiskInv'
<1>0. DiskTypeOK
  BY DEF DiskInv
<1>1. /\ \A w \in Workers : worker'[w] = Idle
      /\ \A q \in Paths : settled'[q] = IF \E w \in Workers : Writes(w, q) THEN Torn ELSE settled[q]
      /\ UNCHANGED <<file, data, sidecar, found>>
  BY FilesKept DEF DiskCrash
<1>2. DiskTypeOK'
  BY <1>0 DEF DiskCrash, DiskTypeOK
<1>3. SettledIsRead' /\ OwnDirectory'
  BY <1>1 DEF DiskInv, SettledIsRead, OwnDirectory
<1>4. ASSUME NEW w \in Workers PROVE NobodyElseWrites(w)' /\ StillThere(w)'
  BY <1>1 DEF NobodyElseWrites, StillThere
<1>5. ASSUME NEW q \in Paths PROVE OnDisk(q)'
  BY <1>1 DEF DiskInv, OnDisk
<1> QED
  BY <1>2, <1>3, <1>4, <1>5 DEF DiskInv

LEMMA DiskInvNext == DiskInv /\ [DiskNext]_diskVars => DiskInv'
<1> SUFFICES ASSUME DiskInv, [DiskNext]_diskVars PROVE DiskInv'
  OBVIOUS
<1>1. CASE UNCHANGED diskVars
  BY <1>1, FilesKept DEF diskVars, DiskInv, DiskTypeOK, SettledIsRead, OwnDirectory, NobodyElseWrites,
              StillThere, OnDisk, Alone, Writes
<1>2. ASSUME NEW w \in Workers, NEW op \in {"put", "get", "delete"}, NEW tenant \in Tenants,
             NEW key \in Keys, NEW bytes \in Contents, DiskCall(w, op, tenant, key, bytes)
      PROVE  DiskInv'
  BY <1>2, DiskCallKeepsInv
<1>3. ASSUME NEW w \in Workers,
             Truncate(w) \/ WriteData(w) \/ TruncateType(w) \/ WriteType(w) \/ PutFails(w)
      PROVE  DiskInv'
  BY <1>3, PutKeepsInv
<1>4. ASSUME NEW w \in Workers, ReadData(w) \/ ReadType(w) PROVE DiskInv'
  BY <1>4, GetKeepsInv
<1>5. ASSUME NEW w \in Workers, UnlinkType(w) \/ Unlink(w) PROVE DiskInv'
  BY <1>5, DeleteKeepsInv
<1>6. CASE DiskCrash
  BY <1>6, CrashKeepsInv
<1> QED
  BY <1>1, <1>2, <1>3, <1>4, <1>5, <1>6 DEF DiskNext

-----------------------------------------------------------------------------
(* The store in a bucket.                                                    *)

\* What a request that is under way says of itself.
LEMMA RequestShape ==
  ASSUME NEW r \in AnyRequest
  PROVE  /\ r # Quiet /\ r.object \in Objects /\ r.core \in Cores /\ r.alone \in BOOLEAN
         /\ r.core = <<Head(r.object)>>
         /\ r.op \in {"put", "delete"} => r \in WritesAt({"sent", "landed"})
         /\ r.op = "get" => r \in RequestsOf("get", {"sent", "stat"}, Versions \cup {NoObject})
         /\ r.op \in {"put", "delete", "get"}
         /\ r.step = "landed" => r.op # "get"
         /\ r.step = "stat" => r.op = "get"
BY DEF AnyRequest, WritesAt, RequestsOf, Quiet

LEMMA PendingShape ==
  ASSUME ObjectTypeOK, NEW w \in Requesters
  PROVE  pending[w] = Quiet \/ pending[w] \in AnyRequest
BY DEF ObjectTypeOK

\* What a write leaves is a version of its own Core's.
LEMMA WrittenShape ==
  ASSUME NEW r \in WritesAt({"sent", "landed"})
  PROVE  /\ Written(r) \in Versions \cup {NoObject}
         /\ Written(r) # NoObject => Written(r).core = <<Head(r.object)>>
<1>1. CASE r.op = "put"
  <2>1. r.bytes \in Bytes /\ r.core \in Cores /\ r.core = <<Head(r.object)>>
    BY <1>1 DEF WritesAt, RequestsOf
  <2>2. Written(r) = Version(r.bytes, r.bytes, r.core)
    BY <1>1 DEF Written
  <2> QED
    BY <2>1, <2>2 DEF Versions, Version
<1>2. CASE r.op # "put"
  BY <1>2 DEF Written
<1> QED
  BY <1>1, <1>2

\* Where a key of a tenant is in the bucket.
LEMMA ObjectShape ==
  ASSUME NEW core \in Cores, NEW tenant, NEW key \in Keys, NewS3(core), CheckKey(tenant, key)
  PROVE  /\ Object(core, key) \in Objects
         /\ core = <<Head(Object(core, key))>>
         /\ Object(core, key)[2] = tenant
<1>1. core \in Seq(STRING) /\ key \in Seq(STRING) /\ Len(core) = 1
  BY ObjectAssumption, KeysAssumption DEF NewS3
<1>2. Len(key) >= 2 /\ key[1] = tenant
  <2>1. Len(key) >= 2 /\ Head(key) = tenant
    BY Zenon DEF CheckKey
  <2> QED
    BY <1>1, <2>1
<1>3. (core \o key)[1] = core[1] /\ (core \o key)[2] = key[1] /\ core \o key # << >>
  <2>1. Len(core) \in Nat /\ Len(key) \in Nat
    BY <1>1
  <2>2. /\ core \o key \in Seq(STRING) /\ Len(core \o key) = Len(core) + Len(key)
        /\ \A i \in 1 .. Len(core) + Len(key) :
             (core \o key)[i] = IF i <= Len(core) THEN core[i] ELSE key[i - Len(core)]
    BY <1>1, ConcatProperties
  <2>3. 1 \in 1 .. Len(core) + Len(key) /\ 2 \in 1 .. Len(core) + Len(key)
    BY <1>1, <1>2, <2>1
  <2> QED
    BY <1>1, <2>1, <2>2, <2>3
<1>4. core = <<core[1]>>
  BY <1>1
<1>5. Head(core \o key) = (core \o key)[1]
  BY <1>1, <1>3
<1> QED
  BY <1>2, <1>3, <1>4, <1>5 DEF Object, Objects

LEMMA ObjectInvInit == ObjectInit => ObjectInv
<1> SUFFICES ASSUME ObjectInit PROVE ObjectInv
  OBVIOUS
<1>1. ObjectTypeOK
  BY DEF ObjectInit, ObjectTypeOK
<1>2. AckedIsRead /\ OneUpload /\ LinksExpire /\ CoresApart /\ LateIsInDoubt
  BY DEF ObjectInit, AckedIsRead, OneUpload, LinksExpire, CoresApart, LateIsInDoubt
<1>3. \A w \in Requesters : OnItsOwn(w) /\ HasLanded(w)
  BY DEF ObjectInit, OnItsOwn, HasLanded
<1>4. \A object \in Objects : InBucket(object)
  BY DEF ObjectInit, InBucket
<1> QED
  BY <1>1, <1>2, <1>3, <1>4 DEF ObjectInv

\* Who runs alone has no write of another at its object.
LEMMA AwayFromOthers ==
  ASSUME ObjectInv, NEW w \in Requesters, pending[w] # Quiet, pending[w].alone,
         NEW v \in Requesters \ {w}, pending[v].op \in {"put", "delete"}
  PROVE  pending[v].object # pending[w].object
BY DEF ObjectInv, OnItsOwn, Undisturbed, Modifies

\* A request that ends leaves the others as they are ...
LEMMA FinishedIsGone ==
  ASSUME ObjectTypeOK, NEW w \in Requesters, Finished(w)
  PROVE  /\ pending' \in [Requesters -> {Quiet} \cup AnyRequest]
         /\ pending'[w] = Quiet /\ \A v \in Requesters \ {w} : pending'[v] = pending[v]
         /\ \A v \in Requesters : \A o : Modifies(pending[v], o)' <=> v # w /\ Modifies(pending[v], o)
BY DEF ObjectTypeOK, Finished, Modifies, Quiet

\* ... and what changes an object under them makes them unsure of it.
LEMMA DisturbedAreUnsure ==
  ASSUME ObjectTypeOK, NEW object,
         pending' = [v \in Requesters |->
           IF pending[v] # Quiet /\ pending[v].object = object
           THEN [pending[v] EXCEPT !.alone = FALSE] ELSE pending[v]]
  PROVE  /\ pending' \in [Requesters -> {Quiet} \cup AnyRequest]
         /\ \A v \in Requesters :
              /\ pending'[v] # Quiet <=> pending[v] # Quiet
              /\ pending'[v] # Quiet /\ pending'[v].alone =>
                   pending'[v] = pending[v] /\ pending[v].object # object
         /\ \A v \in Requesters : \A o : Modifies(pending[v], o)' <=> Modifies(pending[v], o)
<1>1. ASSUME NEW v \in Requesters
      PROVE  /\ pending'[v] \in {Quiet} \cup AnyRequest
             /\ pending'[v] # Quiet <=> pending[v] # Quiet
             /\ pending'[v] # Quiet /\ pending'[v].alone =>
                  pending'[v] = pending[v] /\ pending[v].object # object
             /\ pending'[v].op = pending[v].op
             /\ pending[v] # Quiet => pending'[v].object = pending[v].object
  <2>1. CASE pending[v] # Quiet /\ pending[v].object = object
    <3>1. PICK r \in AnyRequest : r = pending[v]
      BY <2>1, PendingShape
    <3>2. pending'[v] = [r EXCEPT !.alone = FALSE]
      BY <2>1, <3>1
    <3>3. [r EXCEPT !.alone = FALSE] \in AnyRequest
      BY DEF AnyRequest, WritesAt, RequestsOf
    <3>4. /\ [r EXCEPT !.alone = FALSE].alone = FALSE /\ [r EXCEPT !.alone = FALSE].op = r.op
          /\ [r EXCEPT !.alone = FALSE].object = r.object
      BY DEF AnyRequest, WritesAt, RequestsOf
    <3>5. [r EXCEPT !.alone = FALSE] # Quiet
      BY <3>3, RequestShape
    <3> QED
      BY <2>1, <3>1, <3>2, <3>3, <3>4, <3>5
  <2>2. CASE ~ (pending[v] # Quiet /\ pending[v].object = object)
    BY <2>2 DEF ObjectTypeOK
  <2> QED
    BY <2>1, <2>2
<1>2. pending' \in [Requesters -> {Quiet} \cup AnyRequest]
  BY <1>1
<1>3. ASSUME NEW v \in Requesters, NEW o
      PROVE  Modifies(pending[v], o)' <=> Modifies(pending[v], o)
  <2>1. CASE pending[v] = Quiet
    BY <1>1, <2>1 DEF Modifies, Quiet
  <2>2. CASE pending[v] # Quiet
    BY <1>1, <2>2 DEF Modifies
  <2> QED
    BY <2>1, <2>2
<1> QED
  BY <1>1, <1>2, <1>3

\* A request goes out: a write makes the others at its object unsure.
LEMMA SendKeepsInv ==
  ASSUME ObjectInv, NEW w \in Requesters, NEW core \in Cores, NEW tenant \in Tenants, NEW key \in Keys,
         NEW op, NEW bytes,
         \/ op = "put" /\ bytes \in Bytes
         \/ op \in {"get", "delete"} /\ bytes = NoObject,
         Send(w, core, op, tenant, key, bytes)
  PROVE  ObjectInv'
<1>0. ObjectTypeOK
  BY DEF ObjectInv
<1>1. PICK object \in Objects : object = Object(core, key) /\ core = <<Head(object)>>
  BY ObjectShape DEF Send
<1>2. PICK r : r = [op |-> op, core |-> core, object |-> object, bytes |-> bytes,
                    step |-> "sent", alone |-> Undisturbed(w, object)]
  OBVIOUS
<1>3. /\ r \in AnyRequest
      /\ r.op = op /\ r.object = object /\ r.step = "sent"
      /\ r.alone <=> Undisturbed(w, object)
  <2>1. Undisturbed(w, object) \in BOOLEAN
    BY DEF Undisturbed
  <2> QED
    BY <1>1, <1>2, <2>1 DEF AnyRequest, WritesAt, RequestsOf
<1>4. /\ pending[w] = Quiet
      /\ pending' = [v \in Requesters |->
           IF v = w THEN r
           ELSE IF pending[v] # Quiet /\ pending[v].object = object /\ op # "get"
                THEN [pending[v] EXCEPT !.alone = FALSE] ELSE pending[v]]
      /\ UNCHANGED <<bucket, late, promised, read, links, used, clock>>
  BY <1>1, <1>2 DEF Send
<1>5. ASSUME NEW v \in Requesters \ {w}
      PROVE  /\ pending'[v] \in {Quiet} \cup AnyRequest
             /\ pending'[v] # Quiet <=> pending[v] # Quiet
             /\ pending'[v] # Quiet /\ pending'[v].alone =>
                  pending'[v] = pending[v] /\ (op = "get" \/ pending[v].object # object)
             /\ pending'[v].op = pending[v].op
             /\ pending[v] # Quiet => pending'[v].object = pending[v].object
  <2>1. CASE pending[v] # Quiet /\ pending[v].object = object /\ op # "get"
    <3>1. PICK s \in AnyRequest : s = pending[v]
      BY <1>0, <2>1, PendingShape
    <3>2. pending'[v] = [s EXCEPT !.alone = FALSE]
      BY <1>4, <2>1, <3>1
    <3>3. [s EXCEPT !.alone = FALSE] \in AnyRequest
      BY DEF AnyRequest, WritesAt, RequestsOf
    <3>4. /\ [s EXCEPT !.alone = FALSE].alone = FALSE /\ [s EXCEPT !.alone = FALSE].op = s.op
          /\ [s EXCEPT !.alone = FALSE].object = s.object
      BY DEF AnyRequest, WritesAt, RequestsOf
    <3>5. [s EXCEPT !.alone = FALSE] # Quiet
      BY <3>3, RequestShape
    <3> QED
      BY <2>1, <3>1, <3>2, <3>3, <3>4, <3>5
  <2>2. CASE ~ (pending[v] # Quiet /\ pending[v].object = object /\ op # "get")
    BY <1>0, <1>4, <2>2 DEF ObjectTypeOK
  <2> QED
    BY <2>1, <2>2
<1>6. pending'[w] = r
  BY <1>4
<1>7. ASSUME NEW v \in Requesters, NEW o
      PROVE  Modifies(pending[v], o)' <=>
               Modifies(pending[v], o) \/ (v = w /\ op \in {"put", "delete"} /\ object = o)
  <2>1. CASE v = w
    BY <1>3, <1>4, <1>6, <2>1 DEF Modifies, Quiet
  <2>2. CASE v # w /\ pending[v] = Quiet
    BY <1>5, <2>2 DEF Modifies, Quiet
  <2>3. CASE v # w /\ pending[v] # Quiet
    BY <1>5, <2>3 DEF Modifies
  <2> QED
    BY <2>1, <2>2, <2>3
<1>8. ObjectTypeOK'
  <2>1. \A v \in Requesters : pending'[v] \in {Quiet} \cup AnyRequest
    BY <1>3, <1>5, <1>6
  <2>2. pending' \in [Requesters -> {Quiet} \cup AnyRequest]
    BY <1>4, <2>1
  <2> QED
    BY <1>0, <1>4, <2>2 DEF ObjectTypeOK
<1>9. AckedIsRead' /\ OneUpload' /\ LinksExpire' /\ CoresApart' /\ LateIsInDoubt'
  BY <1>4 DEF ObjectInv, AckedIsRead, OneUpload, LinksExpire, CoresApart, LateIsInDoubt
<1>10. ASSUME NEW v \in Requesters PROVE OnItsOwn(v)'
  <2>1. CASE v = w
    BY <1>3, <1>4, <1>6, <1>7, <2>1 DEF OnItsOwn, Undisturbed
  <2>2. CASE v # w
    <3> SUFFICES ASSUME pending'[v] # Quiet, pending'[v].alone
                 PROVE  Undisturbed(v, pending[v].object)'
      BY DEF OnItsOwn
    <3>1. PICK o : o = pending[v].object /\ o = pending'[v].object
      BY <1>5, <2>2
    <3>2. Undisturbed(v, o) /\ (op = "get" \/ object # o)
      BY <1>5, <2>2, <3>1 DEF ObjectInv, OnItsOwn
    <3>3. Undisturbed(v, o)'
      BY <1>4, <1>7, <3>2 DEF Undisturbed
    <3> QED
      BY <3>1, <3>3
  <2> QED
    BY <2>1, <2>2
<1>11. ASSUME NEW v \in Requesters PROVE HasLanded(v)'
  <2>1. CASE v = w
    BY <1>3, <1>6, <2>1 DEF HasLanded
  <2>2. CASE v # w
    BY <1>4, <1>5, <2>2 DEF ObjectInv, HasLanded
  <2> QED
    BY <2>1, <2>2
<1>12. ASSUME NEW o \in Objects PROVE InBucket(o)'
  BY <1>4, <1>7 DEF ObjectInv, InBucket
<1> QED
  BY <1>8, <1>9, <1>10, <1>11, <1>12 DEF ObjectInv

\* A write lands, of a request ...
LEMMA LandKeepsInv ==
  ASSUME ObjectInv, NEW w \in Requesters, Land(w)
  PROVE  ObjectInv'
<1>0. ObjectTypeOK
  BY DEF ObjectInv
<1>1. PICK r \in WritesAt({"sent", "landed"}) :
        r = pending[w] /\ r # Quiet /\ r.object \in Objects /\ r.op \in {"put", "delete"}
  BY <1>0, PendingShape, RequestShape DEF Land, Moves
<1>2. PICK object \in Objects : object = r.object
  BY <1>1
<1>3. PICK s : s = [r EXCEPT !.step = "landed"]
  OBVIOUS
<1>4. /\ s \in AnyRequest /\ s # Quiet
      /\ s.op = r.op /\ s.object = object /\ s.alone = r.alone /\ Written(s) = Written(r)
  <2>1. s \in AnyRequest
    BY <1>3 DEF AnyRequest, WritesAt, RequestsOf
  <2>2. s.op = r.op /\ s.object = object /\ s.alone = r.alone /\ s.bytes = r.bytes /\ s.core = r.core
    BY <1>2, <1>3 DEF WritesAt, RequestsOf
  <2> QED
    BY <2>1, <2>2, RequestShape DEF Written
<1>5. /\ pending' = [pending EXCEPT ![w] = s]
      /\ bucket' = [bucket EXCEPT ![object] = Written(r)]
      /\ UNCHANGED <<late, promised, read, links, used, clock>>
  BY <1>0, <1>1, <1>2, <1>3 DEF Land, Moves, ObjectTypeOK
<1>6. pending'[w] = s /\ \A v \in Requesters \ {w} : pending'[v] = pending[v]
  BY <1>0, <1>5 DEF ObjectTypeOK
<1>7. bucket'[object] = Written(r) /\ \A o \in Objects \ {object} : bucket'[o] = bucket[o]
  BY <1>0, <1>5 DEF ObjectTypeOK
<1>8. \A v \in Requesters : \A o : Modifies(pending[v], o)' <=> Modifies(pending[v], o)
  BY <1>1, <1>2, <1>4, <1>6 DEF Modifies
<1>9. Modifies(pending[w], object)
  BY <1>1, <1>2 DEF Modifies
<1>10. ObjectTypeOK'
  BY <1>0, <1>4, <1>5, WrittenShape DEF ObjectTypeOK
<1>11. CoresApart'
  BY <1>1, <1>2, <1>7, WrittenShape DEF ObjectInv, CoresApart
<1>12. AckedIsRead' /\ OneUpload' /\ LinksExpire' /\ LateIsInDoubt'
  BY <1>5 DEF ObjectInv, AckedIsRead, OneUpload, LinksExpire, LateIsInDoubt
<1>13. ASSUME NEW v \in Requesters PROVE OnItsOwn(v)' /\ HasLanded(v)'
  <2>0. OnItsOwn(v) /\ HasLanded(v)
    BY DEF ObjectInv
  <2>1. CASE v = w
    <3>1. OnItsOwn(v)'
      BY <1>1, <1>2, <1>4, <1>5, <1>6, <1>8, <2>0, <2>1 DEF OnItsOwn, Undisturbed
    <3>2. HasLanded(v)'
      BY <1>4, <1>6, <1>7, <2>1 DEF HasLanded
    <3> QED
      BY <3>1, <3>2
  <2>2. CASE v # w
    <3>1. OnItsOwn(v)'
      BY <1>5, <1>6, <1>8, <2>0, <2>2 DEF OnItsOwn, Undisturbed
    <3>2. pending[v] # Quiet /\ pending[v].alone => pending[v].object \in Objects \ {object}
      BY <1>0, <1>1, <1>2, <2>2, AwayFromOthers, PendingShape, RequestShape
    <3>3. HasLanded(v)'
      BY <1>6, <1>7, <2>0, <2>2, <3>2 DEF HasLanded
    <3> QED
      BY <3>1, <3>3
  <2> QED
    BY <2>1, <2>2
<1>14. ASSUME NEW o \in Objects PROVE InBucket(o)'
  <2>1. InBucket(o)
    BY DEF ObjectInv
  <2> QED
    BY <1>5, <1>7, <1>8, <1>9, <2>1 DEF InBucket
<1> QED
  BY <1>10, <1>11, <1>12, <1>13, <1>14 DEF ObjectInv

\* ... or by other means, with a link or late: whoever has the object is unsure.
LEMMA UploadKeepsInv ==
  ASSUME ObjectInv, NEW object \in Objects, NEW version \in Versions \cup {NoObject},
         version # NoObject => version.core = <<Head(object)>>,
         bucket' = [bucket EXCEPT ![object] = version],
         promised' = [promised EXCEPT ![object] = InDoubt],
         pending' = [v \in Requesters |->
           IF pending[v] # Quiet /\ pending[v].object = object
           THEN [pending[v] EXCEPT !.alone = FALSE] ELSE pending[v]],
         late' \subseteq late, UNCHANGED <<read, links, clock>>, LinksExpire'
  PROVE  ObjectInv'
<1>0. ObjectTypeOK
  BY DEF ObjectInv
<1>1. /\ pending' \in [Requesters -> {Quiet} \cup AnyRequest]
      /\ \A v \in Requesters :
           /\ pending'[v] # Quiet <=> pending[v] # Quiet
           /\ pending'[v] # Quiet /\ pending'[v].alone =>
                pending'[v] = pending[v] /\ pending[v].object # object
      /\ \A v \in Requesters : \A o : Modifies(pending[v], o)' <=> Modifies(pending[v], o)
  BY <1>0, DisturbedAreUnsure
<1>2. /\ bucket'[object] = version /\ promised'[object] = InDoubt
      /\ \A o \in Objects \ {object} : bucket'[o] = bucket[o] /\ promised'[o] = promised[o]
  BY <1>0 DEF ObjectTypeOK
<1>3. ObjectTypeOK'
  BY <1>0, <1>1 DEF ObjectTypeOK
<1>4. AckedIsRead' /\ OneUpload'
  BY DEF ObjectInv, AckedIsRead, OneUpload
<1>5. CoresApart'
  BY <1>2 DEF ObjectInv, CoresApart
<1>6. LateIsInDoubt'
  <2>1. \A r \in late : r.object \in Objects
    BY <1>0 DEF ObjectTypeOK, WritesAt, RequestsOf
  <2> QED
    BY <1>2, <2>1 DEF ObjectInv, LateIsInDoubt
<1>7. ASSUME NEW v \in Requesters PROVE OnItsOwn(v)' /\ HasLanded(v)'
  <2>1. OnItsOwn(v) /\ HasLanded(v)
    BY DEF ObjectInv
  <2>2. pending[v] # Quiet => pending[v].object \in Objects
    BY <1>0, PendingShape, RequestShape
  <2>3. OnItsOwn(v)'
    BY <1>1, <2>1 DEF OnItsOwn, Undisturbed
  <2>4. HasLanded(v)'
    BY <1>1, <1>2, <2>1, <2>2 DEF HasLanded
  <2> QED
    BY <2>3, <2>4
<1>8. ASSUME NEW o \in Objects PROVE InBucket(o)'
  <2>1. InBucket(o)
    BY DEF ObjectInv
  <2> QED
    BY <1>1, <1>2, <2>1 DEF InBucket
<1> QED
  BY <1>3, <1>4, <1>5, <1>6, <1>7, <1>8 DEF ObjectInv

\* An acknowledged write is promised if it ran alone.
LEMMA AckKeepsInv ==
  ASSUME ObjectInv, NEW w \in Requesters, Ack(w)
  PROVE  ObjectInv'
<1>0. ObjectTypeOK /\ OnItsOwn(w) /\ HasLanded(w)
  BY DEF ObjectInv
<1>1. PICK r \in WritesAt({"sent", "landed"}) :
        /\ r = pending[w] /\ r # Quiet /\ r.object \in Objects /\ r.op \in {"put", "delete"}
        /\ r.step = "landed"
  BY <1>0, PendingShape, RequestShape DEF Ack
<1>2. PICK object \in Objects : object = r.object
  BY <1>1
<1>3. /\ pending' \in [Requesters -> {Quiet} \cup AnyRequest]
      /\ pending'[w] = Quiet /\ \A v \in Requesters \ {w} : pending'[v] = pending[v]
      /\ \A v \in Requesters : \A o : Modifies(pending[v], o)' <=> v # w /\ Modifies(pending[v], o)
  BY <1>0, FinishedIsGone DEF Ack
<1>4. /\ promised' = [promised EXCEPT ![object] = IF r.alone THEN Written(r) ELSE InDoubt]
      /\ UNCHANGED <<bucket, late, read, links, used, clock>>
  BY <1>1, <1>2 DEF Ack
<1>5. /\ promised'[object] = IF r.alone THEN Written(r) ELSE InDoubt
      /\ \A o \in Objects \ {object} : promised'[o] = promised[o]
  BY <1>0, <1>4 DEF ObjectTypeOK
<1>6. r.alone => bucket[object] = Written(r) /\ \A s \in late : s.object # object
  BY <1>0, <1>1, <1>2 DEF HasLanded, OnItsOwn, Undisturbed
<1>7. ObjectTypeOK'
  BY <1>0, <1>3, <1>4, WrittenShape DEF ObjectTypeOK
<1>8. AckedIsRead' /\ OneUpload' /\ LinksExpire' /\ CoresApart'
  BY <1>4 DEF ObjectInv, AckedIsRead, OneUpload, LinksExpire, CoresApart
<1>9. LateIsInDoubt'
  <2>1. \A s \in late : s.object \in Objects /\ promised[s.object] = InDoubt
    BY <1>0 DEF ObjectInv, LateIsInDoubt, ObjectTypeOK, WritesAt, RequestsOf
  <2> QED
    BY <1>4, <1>5, <1>6, <2>1 DEF LateIsInDoubt
<1>10. ASSUME NEW v \in Requesters PROVE OnItsOwn(v)' /\ HasLanded(v)'
  <2>1. OnItsOwn(v) /\ HasLanded(v)
    BY DEF ObjectInv
  <2>2. OnItsOwn(v)'
    BY <1>3, <1>4, <2>1 DEF OnItsOwn, Undisturbed
  <2>3. HasLanded(v)'
    BY <1>3, <1>4, <2>1 DEF HasLanded
  <2> QED
    BY <2>2, <2>3
<1>11. ASSUME NEW o \in Objects PROVE InBucket(o)'
  <2>1. CASE o = object
    BY <1>4, <1>5, <1>6, <2>1 DEF InBucket
  <2>2. CASE o # object
    <3>1. InBucket(o) /\ ~ Modifies(pending[w], o)
      BY <1>1, <1>2, <2>2 DEF ObjectInv, Modifies
    <3> QED
      BY <1>3, <1>4, <1>5, <2>2, <3>1 DEF InBucket
  <2> QED
    BY <2>1, <2>2
<1> QED
  BY <1>7, <1>8, <1>9, <1>10, <1>11 DEF ObjectInv

\* A write that was given up on is in doubt, and may be late.
LEMMA GiveUpKeepsInv ==
  ASSUME ObjectInv, NEW w \in Requesters, GiveUp(w)
  PROVE  ObjectInv'
<1>0. ObjectTypeOK
  BY DEF ObjectInv
<1>1. PICK r \in AnyRequest : r = pending[w] /\ r # Quiet /\ r.object \in Objects
  BY <1>0, PendingShape, RequestShape DEF GiveUp
<1>2. PICK object \in Objects : object = r.object
  BY <1>1
<1>3. /\ pending' \in [Requesters -> {Quiet} \cup AnyRequest]
      /\ pending'[w] = Quiet /\ \A v \in Requesters \ {w} : pending'[v] = pending[v]
      /\ \A v \in Requesters : \A o : Modifies(pending[v], o)' <=> v # w /\ Modifies(pending[v], o)
  BY <1>0, FinishedIsGone DEF GiveUp
<1>4. /\ UNCHANGED <<bucket, read, links, used, clock>>
      /\ r.op = "get" => late' = late /\ promised' = promised
      /\ r.op # "get" => /\ late' = IF r.step = "sent" THEN late \cup {r} ELSE late
                         /\ promised' = [promised EXCEPT ![object] = InDoubt]
  BY <1>1, <1>2 DEF GiveUp
<1>5. /\ r.op # "get" => promised'[object] = InDoubt
      /\ \A o \in Objects : promised'[o] \in {promised[o], InDoubt}
  BY <1>0, <1>4 DEF ObjectTypeOK
<1>6. r.op # "get" /\ r.step = "sent" => r \in WritesAt({"sent"})
  BY DEF AnyRequest, WritesAt, RequestsOf
<1>7. ObjectTypeOK'
  <2>1. late' \subseteq WritesAt({"sent"})
    BY <1>0, <1>4, <1>6 DEF ObjectTypeOK
  <2>2. promised' \in [Objects -> Versions \cup {NoObject, InDoubt}]
    BY <1>0, <1>4 DEF ObjectTypeOK
  <2> QED
    BY <1>0, <1>3, <1>4, <2>1, <2>2 DEF ObjectTypeOK
<1>8. AckedIsRead' /\ OneUpload' /\ LinksExpire' /\ CoresApart'
  BY <1>4 DEF ObjectInv, AckedIsRead, OneUpload, LinksExpire, CoresApart
<1>9. LateIsInDoubt'
  <2>1. \A s \in late : s.object \in Objects /\ promised[s.object] = InDoubt
    BY <1>0 DEF ObjectInv, LateIsInDoubt, ObjectTypeOK, WritesAt, RequestsOf
  <2>2. \A s \in late : promised'[s.object] = InDoubt
    BY <1>5, <2>1
  <2>3. late' # late => late' = late \cup {r} /\ promised'[r.object] = InDoubt
    BY <1>2, <1>4, <1>5
  <2> QED
    BY <2>2, <2>3 DEF LateIsInDoubt
<1>10. ASSUME NEW v \in Requesters PROVE OnItsOwn(v)' /\ HasLanded(v)'
  <2>1. OnItsOwn(v) /\ HasLanded(v)
    BY DEF ObjectInv
  <2>2. CASE v = w
    BY <1>3, <2>2 DEF OnItsOwn, HasLanded
  <2>3. CASE v # w
    <3>1. r.op # "get" /\ pending[v] # Quiet /\ pending[v].alone => object # pending[v].object
      BY <1>1, <1>2, <2>3, AwayFromOthers, RequestShape
    <3>2. OnItsOwn(v)'
      BY <1>2, <1>3, <1>4, <2>1, <2>3, <3>1 DEF OnItsOwn, Undisturbed
    <3>3. HasLanded(v)'
      BY <1>3, <1>4, <2>1, <2>3 DEF HasLanded
    <3> QED
      BY <3>2, <3>3
  <2> QED
    BY <2>2, <2>3
<1>11. ASSUME NEW o \in Objects PROVE InBucket(o)'
  <2>1. InBucket(o)
    BY DEF ObjectInv
  <2>2. CASE r.op # "get" /\ o = object
    BY <1>5, <2>2 DEF InBucket
  <2>3. CASE ~ (r.op # "get" /\ o = object)
    <3>1. ~ Modifies(pending[w], o)
      BY <1>1, <1>2, <2>3 DEF Modifies
    <3> QED
      BY <1>3, <1>4, <1>5, <2>1, <3>1 DEF InBucket
  <2> QED
    BY <2>2, <2>3
<1> QED
  BY <1>7, <1>8, <1>9, <1>10, <1>11 DEF ObjectInv

\* What nobody waits for lands as an upload does, or never.
LEMMA StraggleKeepsInv ==
  ASSUME ObjectInv, NEW r \in late, Straggle(r)
  PROVE  ObjectInv'
<1>0. ObjectTypeOK
  BY DEF ObjectInv
<1>1. /\ r \in WritesAt({"sent", "landed"}) /\ r.object \in Objects
  BY <1>0 DEF ObjectTypeOK, WritesAt, RequestsOf
<1>2. late' \subseteq late /\ UNCHANGED <<read, links, used, clock>>
  BY DEF Straggle
<1>3. CASE UNCHANGED <<bucket, promised, pending>>
  <2>1. ObjectTypeOK'
    BY <1>0, <1>2, <1>3 DEF ObjectTypeOK
  <2>2. AckedIsRead' /\ OneUpload' /\ LinksExpire' /\ CoresApart' /\ LateIsInDoubt'
    BY <1>2, <1>3 DEF ObjectInv, AckedIsRead, OneUpload, LinksExpire, CoresApart, LateIsInDoubt
  <2>3. \A w \in Requesters : OnItsOwn(w)' /\ HasLanded(w)'
    BY <1>2, <1>3 DEF ObjectInv, OnItsOwn, HasLanded, Undisturbed
  <2>4. \A o \in Objects : InBucket(o)'
    BY <1>3 DEF ObjectInv, InBucket
  <2> QED
    BY <2>1, <2>2, <2>3, <2>4 DEF ObjectInv
<1>4. CASE ~ UNCHANGED <<bucket, promised, pending>>
  <2>1. /\ bucket' = [bucket EXCEPT ![r.object] = Written(r)]
        /\ promised' = [promised EXCEPT ![r.object] = InDoubt]
        /\ pending' = [w \in Requesters |->
             IF pending[w] # Quiet /\ pending[w].object = r.object
             THEN [pending[w] EXCEPT !.alone = FALSE] ELSE pending[w]]
    BY <1>4 DEF Straggle
  <2>2. LinksExpire'
    BY <1>2 DEF ObjectInv, LinksExpire
  <2>3. PICK object \in Objects, version \in Versions \cup {NoObject} :
          /\ object = r.object /\ version = Written(r)
          /\ version # NoObject => version.core = <<Head(object)>>
    BY <1>1, WrittenShape
  <2> QED
    BY <1>2, <2>1, <2>2, <2>3, UploadKeepsInv
<1> QED
  BY <1>3, <1>4

\* A Get ends with a version or none, which are in the bucket and promised ...
LEMMA GetEndsKeepsInv ==
  ASSUME ObjectInv, NEW w \in Requesters, pending[w] # Quiet, pending[w].op = "get",
         Finished(w), UNCHANGED <<bucket, late, promised, links, used, clock>>,
         \/ read' = read
         \/ read' = [got |-> bucket[pending[w].object],
                     owed |-> IF pending[w].alone THEN promised[pending[w].object] ELSE InDoubt]
  PROVE  ObjectInv'
<1>0. ObjectTypeOK
  BY DEF ObjectInv
<1>1. PICK object \in Objects : object = pending[w].object
  BY <1>0, PendingShape, RequestShape
<1>2. /\ pending' \in [Requesters -> {Quiet} \cup AnyRequest]
      /\ pending'[w] = Quiet /\ \A v \in Requesters \ {w} : pending'[v] = pending[v]
      /\ \A v \in Requesters : \A o : Modifies(pending[v], o)' <=> v # w /\ Modifies(pending[v], o)
  BY <1>0, FinishedIsGone
<1>3. \A o : ~ Modifies(pending[w], o)
  BY DEF Modifies
<1>4. ObjectTypeOK'
  BY <1>0, <1>2 DEF ObjectTypeOK
<1>5. AckedIsRead'
  <2>1. CASE read' = read
    BY <2>1 DEF ObjectInv, AckedIsRead
  <2>2. CASE read' = [got |-> bucket[object],
                      owed |-> IF pending[w].alone THEN promised[object] ELSE InDoubt]
    <3>1. pending[w].alone => \A v \in Requesters : ~ Modifies(pending[v], object)
      BY <1>1, <1>3 DEF ObjectInv, OnItsOwn, Undisturbed
    <3>2. pending[w].alone /\ promised[object] # InDoubt => bucket[object] = promised[object]
      BY <3>1 DEF ObjectInv, InBucket
    <3> QED
      BY <2>2, <3>2 DEF AckedIsRead
  <2> QED
    BY <1>1, <2>1, <2>2
<1>6. OneUpload'
  <2>1. bucket[object] # NoObject => bucket[object].type = bucket[object].bytes
    BY <1>0 DEF ObjectTypeOK, Versions, Version
  <2> QED
    BY <1>1, <2>1 DEF ObjectInv, OneUpload
<1>7. LinksExpire' /\ CoresApart' /\ LateIsInDoubt'
  BY DEF ObjectInv, LinksExpire, CoresApart, LateIsInDoubt
<1>8. ASSUME NEW v \in Requesters PROVE OnItsOwn(v)' /\ HasLanded(v)'
  <2>1. OnItsOwn(v) /\ HasLanded(v)
    BY DEF ObjectInv
  <2>2. OnItsOwn(v)'
    BY <1>2, <2>1 DEF OnItsOwn, Undisturbed
  <2>3. HasLanded(v)'
    BY <1>2, <2>1 DEF HasLanded
  <2> QED
    BY <2>2, <2>3
<1>9. ASSUME NEW o \in Objects PROVE InBucket(o)'
  BY <1>2, <1>3 DEF ObjectInv, InBucket
<1> QED
  BY <1>4, <1>5, <1>6, <1>7, <1>8, <1>9 DEF ObjectInv

\* ... or goes on to read what it saw.
LEMMA GetKeepsObjectInv ==
  ASSUME ObjectInv, NEW w \in Requesters, Stat(w) \/ ReadAll(w)
  PROVE  ObjectInv'
<1>0. ObjectTypeOK
  BY DEF ObjectInv
<1>1. PICK r \in RequestsOf("get", {"sent", "stat"}, Versions \cup {NoObject}) :
        r = pending[w] /\ r # Quiet /\ r.op = "get" /\ r.object \in Objects
  <2>1. pending[w] # Quiet /\ (pending[w].op = "get" \/ pending[w].step = "stat")
    BY DEF Stat, ReadAll, Quiet
  <2> QED
    BY <1>0, <2>1, PendingShape, RequestShape
<1>2. PICK version \in Versions \cup {NoObject} : version = bucket[r.object]
  BY <1>0, <1>1 DEF ObjectTypeOK
<1>3. CASE Stat(w) /\ version = NoObject
  BY <1>1, <1>2, <1>3, GetEndsKeepsInv DEF Stat, Answer
<1>4. CASE ReadAll(w)
  BY <1>1, <1>2, <1>4, GetEndsKeepsInv DEF ReadAll, Answer
<1>5. CASE Stat(w) /\ version # NoObject
  <2>1. PICK s : s = [r EXCEPT !.step = "stat", !.bytes = version]
    OBVIOUS
  <2>2. s \in AnyRequest /\ s.op = "get" /\ s.object = r.object /\ s.alone = r.alone /\ s.step = "stat"
    BY <2>1 DEF AnyRequest, RequestsOf
  <2>3. /\ pending' = [pending EXCEPT ![w] = s]
        /\ UNCHANGED <<bucket, late, promised, read, links, used, clock>>
    BY <1>0, <1>1, <1>2, <1>5, <2>1 DEF Stat, ObjectTypeOK
  <2>4. pending'[w] = s /\ \A v \in Requesters \ {w} : pending'[v] = pending[v]
    BY <1>0, <2>3 DEF ObjectTypeOK
  <2>5. \A v \in Requesters : \A o : Modifies(pending[v], o)' <=> Modifies(pending[v], o)
    BY <1>1, <2>2, <2>4 DEF Modifies
  <2>6. ObjectTypeOK'
    BY <1>0, <2>2, <2>3 DEF ObjectTypeOK
  <2>7. AckedIsRead' /\ OneUpload' /\ LinksExpire' /\ CoresApart' /\ LateIsInDoubt'
    BY <2>3 DEF ObjectInv, AckedIsRead, OneUpload, LinksExpire, CoresApart, LateIsInDoubt
  <2>8. ASSUME NEW v \in Requesters PROVE OnItsOwn(v)' /\ HasLanded(v)'
    <3>1. OnItsOwn(v) /\ HasLanded(v)
      BY DEF ObjectInv
    <3>2. CASE v = w
      <4>1. OnItsOwn(v)'
        BY <1>1, <2>2, <2>3, <2>4, <2>5, <3>1, <3>2 DEF OnItsOwn, Undisturbed
      <4>2. HasLanded(v)'
        BY <2>2, <2>4, <3>2 DEF HasLanded
      <4> QED
        BY <4>1, <4>2
    <3>3. CASE v # w
      <4>1. OnItsOwn(v)'
        BY <2>3, <2>4, <2>5, <3>1, <3>3 DEF OnItsOwn, Undisturbed
      <4>2. HasLanded(v)'
        BY <2>3, <2>4, <3>1, <3>3 DEF HasLanded
      <4> QED
        BY <4>1, <4>2
    <3> QED
      BY <3>2, <3>3
  <2>9. ASSUME NEW o \in Objects PROVE InBucket(o)'
    BY <2>3, <2>5 DEF ObjectInv, InBucket
  <2> QED
    BY <2>6, <2>7, <2>8, <2>9 DEF ObjectInv
<1> QED
  BY <1>3, <1>4, <1>5

\* A link is of the tenant's own object, and ends in time.
LEMMA PresignKeepsInv ==
  ASSUME ObjectInv, NEW core \in Cores, NEW method \in {"GET", "PUT"}, NEW tenant \in Tenants,
         NEW key \in Keys, NEW ttl \in TTLs, Presign(core, method, tenant, key, ttl)
  PROVE  ObjectInv'
<1>0. ObjectTypeOK
  BY DEF ObjectInv
<1>1. PICK object \in Objects :
        object = Object(core, key) /\ core = <<Head(object)>> /\ object[2] = tenant
  BY ObjectShape DEF Presign
<1>2. ttl \in Int /\ ttl <= MaxPresignTTL /\ MaxPresignTTL \in Nat /\ clock \in Int
  BY <1>0, ObjectAssumption, KeysAssumption DEF Presign, CheckTTL, ObjectTypeOK
<1>3. (clock + ttl) - clock <= MaxPresignTTL /\ clock + ttl \in Int
  BY <1>2
<1>4. [method |-> method, object |-> object, core |-> core, tenant |-> tenant,
       issued |-> clock, expires |-> clock + ttl] \in AnyLink
  BY <1>1, <1>2, <1>3 DEF AnyLink
<1>5. links' \subseteq AnyLink
  BY <1>0, <1>1, <1>4 DEF Presign, ObjectTypeOK
<1>6. UNCHANGED <<bucket, pending, late, promised, read, used, clock>>
  BY DEF Presign
<1> QED
  BY <1>5, <1>6
     DEF ObjectInv, ObjectTypeOK, AckedIsRead, OneUpload, LinksExpire, CoresApart, LateIsInDoubt,
         OnItsOwn, HasLanded, Undisturbed, InBucket, Modifies

\* A link moves the object it was signed for, while it lives.
LEMMA FollowKeepsInv ==
  ASSUME ObjectInv, NEW link \in links, NEW bytes \in Bytes, Follow(link, bytes)
  PROVE  ObjectInv'
<1>0. ObjectTypeOK /\ link \in AnyLink
  BY DEF ObjectInv, ObjectTypeOK
<1>1. /\ link.issued \in Int /\ link.expires \in Int /\ clock \in Int /\ MaxPresignTTL \in Int
      /\ link.expires - link.issued <= MaxPresignTTL /\ link.object[2] = link.tenant
      /\ link.core = <<Head(link.object)>> /\ link.object \in Objects /\ link.core \in Cores
  BY <1>0, KeysAssumption DEF AnyLink, ObjectTypeOK
<1>2. clock - link.issued < MaxPresignTTL
  BY <1>1 DEF Follow
<1>3. LinksExpire'
  BY <1>1, <1>2 DEF Follow, LinksExpire
<1>4. UNCHANGED <<late, read, links, clock>>
  BY DEF Follow
<1>5. CASE link.method = "GET"
  <2>1. UNCHANGED <<bucket, promised, pending>>
    BY <1>5 DEF Follow
  <2> QED
    BY <1>3, <1>4, <2>1
       DEF ObjectInv, ObjectTypeOK, AckedIsRead, OneUpload, CoresApart, LateIsInDoubt,
           OnItsOwn, HasLanded, Undisturbed, InBucket, Modifies
<1>6. CASE link.method # "GET"
  <2>1. PICK object \in Objects, version \in Versions \cup {NoObject} :
          /\ object = link.object /\ version = Version(bytes, bytes, link.core)
          /\ version # NoObject => version.core = <<Head(object)>>
    <3>1. Version(bytes, bytes, link.core) \in Versions
      BY <1>1 DEF Versions
    <3>2. Version(bytes, bytes, link.core).core = <<Head(link.object)>>
      BY <1>1 DEF Version
    <3> QED
      BY <1>1, <3>1, <3>2
  <2>2. /\ bucket' = [bucket EXCEPT ![object] = version]
        /\ promised' = [promised EXCEPT ![object] = InDoubt]
        /\ pending' = [w \in Requesters |->
             IF pending[w] # Quiet /\ pending[w].object = object
             THEN [pending[w] EXCEPT !.alone = FALSE] ELSE pending[w]]
    BY <1>6, <2>1 DEF Follow
  <2> QED
    BY <1>3, <1>4, <2>1, <2>2, UploadKeepsInv
<1> QED
  BY <1>5, <1>6

LEMMA ObjectInvNext == ObjectInv /\ [ObjectNext]_objectVars => ObjectInv'
<1> SUFFICES ASSUME ObjectInv, [ObjectNext]_objectVars PROVE ObjectInv'
  OBVIOUS
<1>1. CASE UNCHANGED objectVars
  BY <1>1 DEF objectVars, ObjectInv, ObjectTypeOK, AckedIsRead, OneUpload, LinksExpire, CoresApart,
              LateIsInDoubt, OnItsOwn, HasLanded, Undisturbed, InBucket, Modifies
<1>2. ASSUME NEW w \in Requesters, NEW core \in Cores, NEW tenant \in Tenants, NEW key \in Keys,
             \/ \E bytes \in Bytes : Send(w, core, "put", tenant, key, bytes)
             \/ \E op \in {"get", "delete"} : Send(w, core, op, tenant, key, NoObject)
      PROVE  ObjectInv'
  <2>1. ASSUME NEW bytes \in Bytes, Send(w, core, "put", tenant, key, bytes) PROVE ObjectInv'
    BY <2>1, SendKeepsInv
  <2>2. ASSUME NEW op \in {"get", "delete"}, Send(w, core, op, tenant, key, NoObject)
        PROVE  ObjectInv'
    BY <2>2, SendKeepsInv
  <2> QED
    BY <1>2, <2>1, <2>2
<1>3. ASSUME NEW w \in Requesters, Land(w) \/ Ack(w) \/ GiveUp(w) \/ Stat(w) \/ ReadAll(w)
      PROVE  ObjectInv'
  BY <1>3, LandKeepsInv, AckKeepsInv, GiveUpKeepsInv, GetKeepsObjectInv
<1>4. ASSUME NEW r \in late, Straggle(r) PROVE ObjectInv'
  BY <1>4, StraggleKeepsInv
<1>5. ASSUME NEW core \in Cores, NEW method \in {"GET", "PUT"}, NEW tenant \in Tenants,
             NEW key \in Keys, NEW ttl \in TTLs, Presign(core, method, tenant, key, ttl)
      PROVE  ObjectInv'
  BY <1>5, PresignKeepsInv
<1>6. ASSUME NEW link \in links, NEW bytes \in Bytes, Follow(link, bytes) PROVE ObjectInv'
  BY <1>6, FollowKeepsInv
<1>7. CASE ClockTick
  <2>1. clock' \in Nat /\ UNCHANGED <<bucket, pending, late, promised, read, links, used>>
    BY <1>7 DEF ClockTick, ObjectInv, ObjectTypeOK
  <2> QED
    BY <2>1 DEF ObjectInv, ObjectTypeOK, AckedIsRead, OneUpload, LinksExpire, CoresApart,
                LateIsInDoubt, OnItsOwn, HasLanded, Undisturbed, InBucket, Modifies
<1> QED
  BY <1>1, <1>2, <1>3, <1>4, <1>5, <1>6, <1>7 DEF ObjectNext

-----------------------------------------------------------------------------
\* What is read is what was stored, bytes and type of one Put, by whichever
\* store a Core has (blob.go:20-40). On a disk this is of keys none of which has
\* the path of another one's sidecar, "<key>.ct" (SidecarAssumption;
\* disk.go:41-64): of those that do it is not true.
THEOREM StoresAreRead == DiskSpec /\ ObjectSpec => []StoredIsRead
<1>1. DiskInv /\ ObjectInv => StoredIsRead
  BY DEF DiskInv, ObjectInv, StoredIsRead
<1> QED
  BY <1>1, DiskInvInit, DiskInvNext, ObjectInvInit, ObjectInvNext, PTL DEF DiskSpec, ObjectSpec

\* No key, whatever its segments, and no link leads to another tenant's files,
\* and no object to another Core's prefix (blob.go:9-18, 48-52).
THEOREM StoresKeepTenantsApart == DiskSpec /\ ObjectSpec => []TenantsApart
<1>1. DiskInv /\ ObjectInv => TenantsApart
  BY DEF DiskInv, ObjectInv, TenantsApart
<1> QED
  BY <1>1, DiskInvInit, DiskInvNext, ObjectInvInit, ObjectInvNext, PTL DEF DiskSpec, ObjectSpec
=============================================================================
