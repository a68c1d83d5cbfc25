-------------------------------- MODULE Gate --------------------------------
(***************************************************************************)
(* The gate every handler goes through (authz/gate.go), as far as it can   *)
(* decide by itself: from the verified claims (auth/verifier.go), the      *)
(* operation catalog (capabilities/effect.go) and the machine allowlist.   *)
(* What it leaves to the PDP is the answer "ask".                          *)
(*                                                                         *)
(* An action is a model value.  Of a principal only what a decision looks  *)
(* at is kept.                                                             *)
(***************************************************************************)
CONSTANTS
  Action,    \* action names handlers pass to Require
  Verb,      \* the last segment of each
  Client,    \* client_ids
  Gates,     \* the gates of the Core's handlers
  Harmless   \* the actions that change nothing, whatever they are called

ScopeRead == "core.read"
ScopeWrite == "core.write"

\* A gate as New and its options build it.
GateConfig ==
  [own         : SUBSET Action,               \* actions of its module
   cataloged   : BOOLEAN,                     \* built with Effects
   reads       : SUBSET Action,               \* the reads of its catalog
   allowlisted : BOOLEAN,                     \* built with MachineAllow
   listed      : [Action -> SUBSET Client]]   \* who may do what

\* The claims the gate reads.  A scope is one of the two above or the name of
\* an action; a principal type is the raw claim, "" on an old token.
Claims ==
  [principal_type : {"", "user", "service", "agent", "unheard"},
   client    : Client,
   isClient  : BOOLEAN,   \* sub = client_id
   via       : BOOLEAN,
   installed : BOOLEAN,   \* installation_id is not empty
   entitled  : BOOLEAN,   \* the entitlements hold the gate's module
   scope     : SUBSET ({ScopeRead, ScopeWrite} \cup Action)]

ASSUME GateAssumption ==
  /\ Verb \in [Action -> STRING]
  /\ Gates \subseteq GateConfig
  /\ \A g \in Gates : g.reads \subseteq Harmless
  /\ \A a \in Action : Verb[a] \in {"read", "list", "get"} => a \in Harmless

\* PrincipalType by sub = client_id alone, as before agents had tokens.
PrincipalByShape(p) == IF p.isClient THEN "service" ELSE "user"

\* Claims.PrincipalType.
PrincipalType(p) ==
  IF p.principal_type # "" THEN p.principal_type
  ELSE IF p.isClient THEN "service" ELSE "user"

ScopeFor(a) ==
  IF Verb[a] \in {"read", "list", "get", "lookup", "search", "view"}
  THEN ScopeRead ELSE ScopeWrite

\* An IsRead that goes by the scope where there is no catalog.
IsReadByScope(g, a) == IF g.cataloged THEN a \in g.reads ELSE ScopeFor(a) = ScopeRead

\* capabilities.IsRead: the catalog decides, or else the three plain verbs.
IsRead(g, a) == IF g.cataloged THEN a \in g.reads ELSE Verb[a] \in {"read", "list", "get"}

\* The scope that covers an action, one that covers more, or its very name.
Covers(scope, a) ==
  \/ ScopeFor(a) \in scope
  \/ ScopeFor(a) = ScopeRead /\ ScopeWrite \in scope
  \/ a \in scope

RequireService(g, p, a) ==
  IF (g.allowlisted => p.client \in g.listed[a]) /\ Covers(p.scope, a) THEN "allow" ELSE "deny"

RequireAgent(p) == IF p.installed /\ p.entitled THEN "ask" ELSE "deny"

RequirePerson(p) == IF p.entitled THEN "ask" ELSE "deny"

\* Gate.require up to the call of the PDP.
Require(g, p, a) ==
  IF a \notin g.own THEN "deny"
  ELSE IF p.via /\ ~ IsRead(g, a) THEN "deny"
  ELSE CASE PrincipalType(p) = "service" -> RequireService(g, p, a)
         [] PrincipalType(p) = "agent" -> RequireAgent(p)
         [] PrincipalType(p) = "user" -> RequirePerson(p)
         [] OTHER -> "deny"
=============================================================================
