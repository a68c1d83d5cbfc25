------------------------------ MODULE Catalog ------------------------------
(* The operation catalog (capabilities/catalog.go) and its check in CI      *)
(* (cmd/capcheck/main.go): a commit has a catalog and protos, capcheck says *)
(* whether they agree, and what it passed is what the running Core's gate   *)
(* and idempotency interceptor classify by. Dotted names are sequences of   *)
(* their segments, << >> a name that is empty.                              *)
EXTENDS Integers, Sequences, FiniteSets, SequencesExt

CONSTANTS
  Catalogs,    \* catalogs a commit may have: sequences of entries
  ProtoTrees,  \* sets of proto files a commit may have
  Packages,    \* --package: the packages whose services are the Core's, {} for all
  Modules,     \* --module: the modules its actions may belong to, {} for no check
  Nothing      \* no commit, no verdict, no release

\* The catalogs are lists, and protoc accepts the protos: a method has the name
\* of its service and its own, and no other in its package has both.
ASSUME CatalogAssumption ==
  /\ \A entries \in Catalogs : Len(entries) \in Nat /\ DOMAIN entries = 1 .. Len(entries)
  /\ \A files \in ProtoTrees : \A f, g \in files :
       /\ f.pkg \in Seq(STRING)
       /\ \A m \in f.methods, n \in g.methods :
            /\ m.name \in Seq(STRING) /\ Len(m.name) = 2 /\ m.input.name \in Seq(STRING)
            /\ f.pkg = g.pkg /\ m.name = n.name => m = n
  /\ Nothing \notin {0, 1, 2}

VARIABLES
  commit,      \* the catalog and the protos under check
  verdict,     \* capcheck's exit code on it
  release      \* the commit the Core runs

catalogVars == <<commit, verdict, release>>

Principals == {"user", "service", "agent"}
KeysSent == {<< >>, <<"well_formed">>, <<"malformed">>, <<"well_formed", "well_formed">>}

EffectsByRank == <<"read", "write", "external_side_effect", "delete">>
RisksByRank == <<"low", "medium", "high", "critical">>

\* effectRank and riskRank; validate has let no other value through.
EffectRank(effect) == CHOOSE rank \in DOMAIN EffectsByRank : EffectsByRank[rank] = effect
RiskRank(risk) == CHOOSE rank \in DOMAIN RisksByRank : RisksByRank[rank] = risk

Malformed == {"", " "}

\* checkActionName.
ActionName(action) ==
  Len(action) >= 2 /\ \A i \in DOMAIN action : action[i] \notin Malformed

\* rpcRe and messageRe: a package, or at least a dot, before the last name.
RpcName(rpc) == Len(rpc) >= 3 /\ \A i \in DOMAIN rpc : rpc[i] \notin Malformed
MessageName(name) == Len(name) >= 2 /\ \A i \in DOMAIN name : name[i] \notin Malformed

ValidEntry(e) ==
  /\ e.id # << >>
  /\ e.action # << >> => ActionName(e.action) /\ IsPrefix(e.action, e.id)
  /\ RpcName(e.rpc)
  /\ e.effect \in Range(EffectsByRank) /\ e.risk \in Range(RisksByRank)
  /\ MessageName(e.request) /\ MessageName(e.response)

\* Catalog.validate: no id and no rpc twice. An action may repeat.
Valid(entries) ==
  /\ \A i \in DOMAIN entries : ValidEntry(entries[i])
  /\ \A i, j \in DOMAIN entries :
       entries[i].id = entries[j].id \/ entries[i].rpc = entries[j].rpc => i = j

CheckModules(entries, modules) ==
  \A i \in DOMAIN entries :
    entries[i].action # << >> => Head(entries[i].action) \in modules

Gated(entries) == {entries[i].action : i \in DOMAIN entries} \ {<< >>}
Places(entries, action) == {i \in DOMAIN entries : entries[i].action = action}
Highest(ranks) == CHOOSE rank \in ranks : \A other \in ranks : other <= rank

\* Effects: the most restrictive of an action's entries.
Effects(entries) ==
  [action \in Gated(entries) |->
    EffectsByRank[Highest({EffectRank(entries[i].effect) : i \in Places(entries, action)})]]

Risks(entries) ==
  [action \in Gated(entries) |->
    RisksByRank[Highest({RiskRank(entries[i].risk) : i \in Places(entries, action)})]]

\* Lookup, of an action some entry has: its most restrictive entry, the first
\* of several.
Lookup(entries, action) ==
  LET Rank(i) == EffectRank(entries[i].effect)
      own == Places(entries, action)
  IN entries[CHOOSE i \in own :
       \A j \in own : Rank(j) < Rank(i) \/ (Rank(j) = Rank(i) /\ i <= j)]

\* MethodEffects: a later entry of one rpc would win, but validate has refused it.
MethodEffects(entries) ==
  [rpc \in {entries[i].rpc : i \in DOMAIN entries} |->
    entries[Highest({i \in DOMAIN entries : entries[i].rpc = rpc})].effect]

Ungated(entries) == {entries[i].rpc : i \in {i \in DOMAIN entries : entries[i].action = << >>}}

\* capabilities.IsRead: what the gate lets the assistant do.
IsRead(entries, action) == action \in Gated(entries) /\ Effects(entries)[action] = "read"

\* Interceptor.IsWrite: a method that is not in the catalog may write.
IsWrite(entries, rpc) ==
  rpc \in DOMAIN MethodEffects(entries) => MethodEffects(entries)[rpc] # "read"

\* keyFrom: keys are those that were sent, each well formed or not.
KeyFrom(keys) ==
  IF keys = << >> THEN "none"
  ELSE IF Len(keys) = 1 /\ keys[1] = "well_formed" THEN "one" ELSE "invalid"

\* Unary, of a call with claims, up to the row of the key, which Idempotency has.
Admission(entries, rpc, principal, keys) ==
  IF ~IsWrite(entries, rpc) THEN "unkeyed"
  ELSE CASE KeyFrom(keys) = "one" -> "keyed"
         [] KeyFrom(keys) = "invalid" -> "refused"
         [] OTHER -> IF principal = "user" THEN "unkeyed" ELSE "refused"

-----------------------------------------------------------------------------
(* The protos. *)
DeclaredMessages(files) == UNION {file.messages : file \in files}

\* Mutant: the scopes are tried from the outermost inwards.
ResolveOuter(known, pkg, ref) ==
  LET Scope(n) == SubSeq(pkg, 1, n) \o ref.name
      found == {n \in 0 .. Len(pkg) : Scope(n) \in known}
  IN IF ref.absolute THEN ref.name
     ELSE IF found # {} THEN Scope(CHOOSE n \in found : \A k \in found : n <= k)
     ELSE IF Len(ref.name) > 1 THEN ref.name ELSE pkg \o ref.name

\* resolve: innermost scope first; what no scanned file declares is taken as
\* written, with the file's package when it has no dot.
Resolve(known, pkg, ref) ==
  LET Scope(n) == SubSeq(pkg, 1, n) \o ref.name
      found == {n \in 0 .. Len(pkg) : Scope(n) \in known}
  IN IF ref.absolute THEN ref.name
     ELSE IF found # {} THEN Scope(Highest(found))
     ELSE IF Len(ref.name) > 1 THEN ref.name ELSE pkg \o ref.name

\* scan: the RPCs of the packages that are the Core's.
Scan(files) ==
  UNION {{[name |-> file.pkg \o m.name,
           request |-> Resolve(DeclaredMessages(files), file.pkg, m.input),
           response |-> Resolve(DeclaredMessages(files), file.pkg, m.output)] : m \in file.methods} :
         file \in {f \in files : Packages = {} \/ f.pkg \in Packages}}

\* CheckRPCs.
CheckRPCs(entries, rpcs) ==
  /\ \A i \in DOMAIN entries : \E r \in rpcs :
       /\ r.name = entries[i].rpc
       /\ r.request = entries[i].request /\ r.response = entries[i].response
  /\ \A r \in rpcs : \E i \in DOMAIN entries : entries[i].rpc = r.name

\* run: its exit code, when flags and files can be read.
ExitCode(entries, files) ==
  IF /\ Valid(entries)
     /\ CheckRPCs(entries, Scan(files))
     /\ Modules # {} => CheckModules(entries, Modules)
  THEN 0 ELSE 1

-----------------------------------------------------------------------------
CatalogInit == commit = Nothing /\ verdict = Nothing /\ release = Nothing

\* One commit is followed, to its verdict and its release.
Push(entries, files) ==
  /\ commit = Nothing /\ release = Nothing
  /\ commit' = [entries |-> entries, files |-> files]
  /\ UNCHANGED <<verdict, release>>

Capcheck ==
  /\ commit # Nothing /\ verdict = Nothing
  /\ verdict' = ExitCode(commit.entries, commit.files)
  /\ UNCHANGED <<commit, release>>

\* A flag that is missing, a catalog or a proto that cannot be read.
CannotRead ==
  /\ commit # Nothing /\ verdict = Nothing
  /\ verdict' = 2
  /\ UNCHANGED <<commit, release>>

\* CI releases what exited with 0; MustParse would stop the process at anything
\* that is not valid.
Release ==
  /\ verdict = 0 /\ Valid(commit.entries)
  /\ release' = commit
  /\ commit' = Nothing /\ verdict' = Nothing

CatalogNext ==
  \/ \E entries \in Catalogs, files \in ProtoTrees : Push(entries, files)
  \/ Capcheck \/ CannotRead \/ Release

CatalogSpec == CatalogInit /\ [][CatalogNext]_catalogVars

-----------------------------------------------------------------------------
(* Properties of the commit the Core runs. *)

\* Every RPC the Core serves is classified, and nothing else is: the
\* interceptors know the effect of exactly the methods the protos declare
\* (catalog.go:321-324, idempotency.go's Methods).
EveryRpcIsClassified ==
  release # Nothing =>
    DOMAIN MethodEffects(release.entries) = {r.name : r \in Scan(release.files)}

\* The gate and the idempotency interceptor never disagree about what a write
\* is (effect.go:6-10): what the assistant may do needs no key, however the
\* entries of an action are ordered, and no RPC is under an action the gate
\* does not know. Of the RPCs the Core serves, a machine gets to the handler of
\* none without a key but of those that are declared to be reads
\* (idempotency.go:97-99, 153-157).
OneClassification ==
  release # Nothing =>
    LET entries == release.entries
    IN /\ \A e \in Range(entries) :
            \/ e.action = << >> /\ e.rpc \in Ungated(entries)
            \/ /\ e.action \in DOMAIN Effects(entries)
               /\ IsRead(entries, e.action) =>
                    \A principal \in Principals : Admission(entries, e.rpc, principal, << >>) = "unkeyed"
       /\ \A rpc \in {r.name : r \in Scan(release.files)},
            principal \in Principals \ {"user"}, keys \in KeysSent :
            Admission(entries, rpc, principal, keys) = "unkeyed" =>
              \E e \in Range(entries) : e.rpc = rpc /\ e.effect = "read"

\* What the AI Core is told of an action is its worst: the entry it looks up
\* has the effect the gate goes by, and no entry of the action is riskier than
\* its risk (catalog.go:272-286, 301-312).
WorstIsTold ==
  release # Nothing =>
    \A action \in Gated(release.entries) :
      /\ Lookup(release.entries, action).effect = Effects(release.entries)[action]
      /\ Lookup(release.entries, action).action = action
      /\ \A i \in Places(release.entries, action) :
           RiskRank(release.entries[i].risk) <= RiskRank(Risks(release.entries)[action])

\* An entry names the messages the RPC really has: where two scopes declare
\* one name, the innermost that does (main.go:197-205).
MessagesAreTheRpcs ==
  release # Nothing =>
    \A file \in {f \in release.files : Packages = {} \/ f.pkg \in Packages},
       i \in DOMAIN release.entries :
      \A m \in file.methods :
        file.pkg \o m.name = release.entries[i].rpc /\ ~m.input.absolute
          /\ file.pkg \o m.input.name \in DeclaredMessages(release.files)
          => release.entries[i].request = file.pkg \o m.input.name

\* The catalog that passed CI and started speaks for the protos: of every RPC
\* and of no other, with one classification for the gate, the interceptors and
\* the AI Core, and with the RPC's own messages (catalog.go:321-324,
\* effect.go:6-10, catalog.go:272-286, main.go:197-205).
SpeaksForTheProtos ==
  EveryRpcIsClassified /\ OneClassification /\ WorstIsTold /\ MessagesAreTheRpcs

\* What capcheck passed, and what of it is still to be released.
CatalogInv ==
  /\ commit # Nothing => commit.entries \in Catalogs /\ commit.files \in ProtoTrees
  /\ verdict # Nothing => commit # Nothing
  /\ verdict = 0 => ExitCode(commit.entries, commit.files) = 0
  /\ release # Nothing =>
       /\ release.entries \in Catalogs /\ release.files \in ProtoTrees
       /\ ExitCode(release.entries, release.files) = 0
=============================================================================
