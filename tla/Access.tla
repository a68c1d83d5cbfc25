------------------------------- MODULE Access -------------------------------
(***************************************************************************)
(* A call on its way to its handler's code: the interceptor verifies the   *)
(* token against a cached key set (auth/interceptor.go, auth/verifier.go), *)
(* the gate decides or asks the PDP (authz/gate.go, pdp/client.go).        *)
(*                                                                         *)
(* A token is the key it was signed with.  One whose header is not in      *)
(* order is answered before anything is read; one that is wrong in another *)
(* respect (signature, issuer, audience, life, tenant) is refused with the *)
(* set in hand, whatever is in it.  What an accepted one claims is chosen  *)
(* then.  The work of a goroutine takes no time; a fetch, the PDP and a    *)
(* mutex do.                                                               *)
(***************************************************************************)
EXTENDS Gate, Integers, FiniteSets

CONSTANTS
  Kid,         \* key ids of the issuer
  TTL,         \* Verifier.ttl
  Deadline,    \* of every call: the context it brings ends then
  PdpTimeout,  \* pdp.Client.timeout
  Call,
  Principals,  \* what the tokens of each call may claim
  Nobody       \* no call

ASSUME AccessAssumption ==
  /\ TTL \in Nat \ {0}
  /\ Deadline \in Nat \ {0}
  /\ PdpTimeout \in Nat \ {0}
  /\ Principals \in [Call -> (SUBSET Claims) \ {{}}]
  /\ Nobody \notin Call
  /\ Kid # {} /\ Call # {} /\ Gates # {} /\ Action # {}

VARIABLES
  published,  \* keys the issuer publishes
  gone,       \* how long ago each of the others was withdrawn
  set,        \* Verifier.set, empty for nil
  age,        \* age of fetchedAt, TTL for an old one or none
  mu,         \* who holds Verifier.mu
  reply,      \* what the JWKS endpoint has sent to who fetches, if it has
  at,         \* where each call is
  token,      \* its token
  left,       \* time until its context ends
  claims,     \* what the interceptor put into its context
  asks,       \* the gate it went through, and the action it asked for
  said        \* the PDP has answered yes

issuerVars == <<published, gone>>
cacheVars == <<set, age, mu, reply>>
gateVars == <<claims, asks, said>>
vars == <<issuerVars, cacheVars, at, token, left, gateVars>>

\* A key that was withdrawn this long ago or longer.
Long == TTL + Deadline + 1

NoReply == [keys |-> {}, ready |-> FALSE]
NoToken == CHOOSE k \in Kid : TRUE
AnyClaims == UNION {Principals[c] : c \in Call}
NoClaims == CHOOSE p \in AnyClaims : TRUE
NothingAsked == CHOOSE x \in Gates \X Action : TRUE

Init ==
  /\ published \in SUBSET Kid
  /\ gone = [k \in Kid |-> IF k \in published THEN 0 ELSE Long]
  /\ set = {}
  /\ age = TTL
  /\ mu = Nobody
  /\ reply = NoReply
  /\ at = [c \in Call |-> "idle"]
  /\ token = [c \in Call |-> NoToken]
  /\ left = [c \in Call |-> 0]
  /\ claims = [c \in Call |-> NoClaims]
  /\ asks = [c \in Call |-> NothingAsked]
  /\ said = [c \in Call |-> FALSE]

Goes(c, place) == at' = [at EXCEPT ![c] = place]

---------------------------------------------------------------------------
(* The issuer and the callers.                                             *)

\* It publishes a key, or stops publishing it.
Rotate(k) ==
  /\ published' = IF k \in published THEN published \ {k} ELSE published \cup {k}
  /\ gone' = [gone EXCEPT ![k] = 0]
  /\ UNCHANGED <<cacheVars, at, token, left, gateVars>>

\* A call comes in with a token.
Arrive(c, k) ==
  /\ at[c] = "idle"
  /\ Goes(c, "verify")
  /\ token' = [token EXCEPT ![c] = k]
  /\ left' = [left EXCEPT ![c] = Deadline]
  /\ UNCHANGED <<issuerVars, cacheVars, gateVars>>

\* Nothing is kept of a call that is refused, or has had its answer.
Forgets(c) ==
  /\ token' = [token EXCEPT ![c] = NoToken]
  /\ left' = [left EXCEPT ![c] = 0]
  /\ claims' = [claims EXCEPT ![c] = NoClaims]
  /\ asks' = [asks EXCEPT ![c] = NothingAsked]
  /\ said' = [said EXCEPT ![c] = FALSE]

Refuse(c) == Goes(c, "idle") /\ Forgets(c)

\* It was let through and has its answer.
Leave(c) ==
  /\ at[c] = "allowed"
  /\ Refuse(c)
  /\ UNCHANGED <<issuerVars, cacheVars>>

---------------------------------------------------------------------------
(* Verifier.keySet and what Verify makes of the set.                       *)

\* The signature is checked by kid; the claims go into the context.
Verdict(c, keys) ==
  /\ UNCHANGED issuerVars
  /\ \/ /\ token[c] \in keys
        /\ Goes(c, "gate")
        /\ \E p \in Principals[c] : claims' = [claims EXCEPT ![c] = p]
        /\ token' = [token EXCEPT ![c] = NoToken]
        /\ UNCHANGED <<left, asks, said>>
     \/ Refuse(c)

\* The set is fresh.
KeysHit(c) ==
  /\ at[c] = "verify" /\ mu = Nobody
  /\ age < TTL
  /\ Verdict(c, set)
  /\ UNCHANGED cacheVars

\* It is not, or there is none: fetch it, under the mutex.
FetchStart(c) ==
  /\ at[c] = "verify" /\ mu = Nobody
  /\ age >= TTL
  /\ mu' = c
  /\ Goes(c, "fetch")
  /\ UNCHANGED <<issuerVars, set, age, reply, token, left, gateVars>>

\* The endpoint sends what is published at that moment.
Serve ==
  /\ mu # Nobody /\ ~ reply.ready
  /\ reply' = [keys |-> published, ready |-> TRUE]
  /\ UNCHANGED <<issuerVars, set, age, mu, at, token, left, gateVars>>

FetchOK(c) ==
  /\ at[c] = "fetch" /\ reply.ready
  /\ set' = reply.keys
  /\ age' = 0
  /\ mu' = Nobody
  /\ reply' = NoReply
  /\ Verdict(c, reply.keys)

\* A keySet that leaves a dead endpoint alone for a TTL.
FetchFailsStamps(c) ==
  /\ at[c] = "fetch"
  /\ age' = 0
  /\ mu' = Nobody
  /\ reply' = NoReply
  /\ Verdict(c, set)
  /\ UNCHANGED set

\* A keySet that returns its error with the mutex held.
FetchFailsLocked(c) ==
  /\ at[c] = "fetch"
  /\ Verdict(c, set)
  /\ UNCHANGED cacheVars

\* The fetch fails, or the context of the call it is made for ends: the stale
\* set is served, if there is one.
FetchFails(c) ==
  /\ at[c] = "fetch"
  /\ mu' = Nobody
  /\ reply' = NoReply
  /\ Verdict(c, set)
  /\ UNCHANGED <<set, age>>

---------------------------------------------------------------------------
(* Gate.Require and the PDP.                                               *)

Sooner(a, b) == IF a <= b THEN a ELSE b

\* The handler asks its gate for an action.
Decide(c, g, a) ==
  LET answer == Require(g, claims[c], a) IN
  /\ at[c] = "gate"
  /\ \/ answer = "deny" /\ Refuse(c)
     \/ /\ answer # "deny"
        /\ Goes(c, IF answer = "allow" THEN "allowed" ELSE "pdp")
        /\ left' = [left EXCEPT ![c] = IF answer = "allow" THEN 0 ELSE Sooner(@, PdpTimeout)]
        /\ asks' = [asks EXCEPT ![c] = <<g, a>>]
        /\ UNCHANGED <<token, claims, said>>
  /\ UNCHANGED <<issuerVars, cacheVars>>

PdpAllows(c) ==
  /\ at[c] = "pdp"
  /\ Goes(c, "allowed")
  /\ said' = [said EXCEPT ![c] = TRUE]
  /\ left' = [left EXCEPT ![c] = 0]
  /\ UNCHANGED <<issuerVars, cacheVars, token, claims, asks>>

\* The PDP denies, or does not answer in time.
PdpDenies(c) ==
  /\ at[c] = "pdp"
  /\ Refuse(c)
  /\ UNCHANGED <<issuerVars, cacheVars>>

---------------------------------------------------------------------------
\* What has a deadline ends before more time passes.
InTime(c) ==
  /\ at[c] \in {"fetch", "pdp"} => left[c] > 0
  /\ at[c] \in {"idle", "verify", "fetch", "pdp"}

Elapse ==
  /\ \A c \in Call : InTime(c)
  /\ gone' = [k \in Kid |-> IF k \in published THEN 0 ELSE Sooner(gone[k] + 1, Long)]
  /\ age' = Sooner(age + 1, TTL)
  /\ left' = [c \in Call |-> IF left[c] > 0 THEN left[c] - 1 ELSE 0]
  /\ UNCHANGED <<published, set, mu, reply, at, token, gateVars>>

Verify(c) == KeysHit(c) \/ FetchStart(c) \/ FetchOK(c) \/ FetchFails(c)

Gated(c) == PdpAllows(c) \/ PdpDenies(c) \/ \E g \in Gates, a \in Action : Decide(c, g, a)

Next ==
  \/ \E k \in Kid : Rotate(k)
  \/ \E c \in Call : \E k \in Kid : Arrive(c, k)
  \/ \E c \in Call : Verify(c) \/ Gated(c) \/ Leave(c)
  \/ Serve
  \/ Elapse

Spec == Init /\ [][Next]_vars

\* Time passes, so what has a deadline ends; a goroutine gets a mutex that is
\* free again and again.
Fairness ==
  /\ WF_vars(Elapse)
  /\ \A c \in Call :
       /\ WF_vars(FetchOK(c) \/ FetchFails(c) \/ Gated(c) \/ Leave(c))
       /\ SF_vars(KeysHit(c) \/ FetchStart(c))

FairSpec == Spec /\ Fairness

---------------------------------------------------------------------------
(* Properties.                                                             *)

TypeOK ==
  /\ published \subseteq Kid
  /\ gone \in [Kid -> 0 .. Long]
  /\ set \subseteq Kid
  /\ age \in 0 .. TTL
  /\ mu \in Call \cup {Nobody}
  /\ reply \in [keys : SUBSET Kid, ready : BOOLEAN]
  /\ at \in [Call -> {"idle", "verify", "fetch", "gate", "pdp", "allowed"}]
  /\ token \in [Call -> Kid]
  /\ left \in [Call -> 0 .. Deadline]
  /\ claims \in [Call -> AnyClaims]
  /\ asks \in [Call -> Gates \X Action]
  /\ said \in [Call -> BOOLEAN]

\* Who fetches holds the mutex.  A key in a fresh set was published at most the
\* age of the set and the time of a fetch ago, one in a reply at most as long
\* ago as the fetch may have taken.
KeysOK ==
  /\ \A c \in Call : mu = c <=> at[c] = "fetch"
  /\ \A k \in published : gone[k] = 0
  /\ reply.ready => mu # Nobody /\ \A k \in reply.keys : gone[k] + left[mu] <= Deadline
  /\ age < TTL => \A k \in set : gone[k] <= age + Deadline

\* A machine, and no agent: by its claim, or by its shape where it has none.
Machine(p) == p.principal_type = "service" \/ (p.principal_type = "" /\ p.isClient)

\* A machine that is listed where there is an allowlist, with a scope that
\* covers the action.
MachineMay(p, g, a) ==
  a \in g.own /\ Machine(p) /\ Covers(p.scope, a) /\ (g.allowlisted => p.client \in g.listed[a])

\* Someone the PDP is to decide about: of a tenant with the module, and an
\* agent by its installation.
PdpMay(p, g, a) ==
  /\ a \in g.own /\ ~ Machine(p) /\ p.principal_type # "unheard"
  /\ p.entitled /\ (p.principal_type = "agent" => p.installed)

\* "ENTITLEMENT ... PDP ... in order" and "a SERVICE is decided by scope"
\* (Gate.Require): what is let through is a machine within its scope, or
\* someone of a tenant with the module whom the PDP allows it; an agent is
\* never the former, although its token looks like a machine's, and the PDP is
\* never asked about a tenant without the module.
PolicyDecides ==
  \A c \in Call :
    LET g == asks[c][1]  a == asks[c][2] IN
    /\ at[c] = "pdp" => PdpMay(claims[c], g, a)
    /\ at[c] = "allowed" => \/ MachineMay(claims[c], g, a)
                            \/ PdpMay(claims[c], g, a) /\ said[c]

\* "The assistant may only read" (Gate.require), whoever is behind it and
\* whatever the PDP says, with a catalog or without.
AssistantOnlyReads ==
  \A c \in Call :
    at[c] \in {"pdp", "allowed"} /\ claims[c].via => asks[c][2] \in Harmless

\* The inductive invariant.
AccessInv == TypeOK /\ KeysOK /\ PolicyDecides /\ AssistantOnlyReads

\* "A rotated-out key simply stops matching" (Verifier): a token is accepted
\* only by a key the issuer published at most a TTL and a fetch ago, unless the
\* fetch made for this very call failed ("stale beats failing").
OnlyFreshKeys ==
  [][\A c \in Call :
       at[c] # "gate" /\ at'[c] = "gate" =>
         \/ gone[token[c]] < TTL + Deadline
         \/ at[c] = "fetch" /\ age' = age /\ token[c] \in set]_vars

\* However long fetches take under the mutex, and whoever fails: every call
\* gets an answer.
EveryCallEnds == \A c \in Call : at[c] # "idle" ~> at[c] = "idle"
=============================================================================
