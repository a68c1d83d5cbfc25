# A TLA+ verification of strix-core-kit

strix-core-kit is the library every Core of the Strix platform is built on: it
writes and relays events, opens a database per tenant and migrates it, keeps
retried writes from running twice, verifies tokens, asks for permission, stores
files, and reads what other Cores own. Most of what it promises is about several
processes, goroutines and failures at once, or about every input of a small
calculation, which unit tests, one order of events and one input at a time,
reach badly. This directory models it in TLA+, checks small instances with TLC
and proves the main invariants with TLAPS for all sizes.

- [The system](#the-system)
- [The modules](#the-modules)
- [The runs](#the-runs)
- [The bounds](#the-bounds)
- [Fairness](#fairness)
- [The proofs](#the-proofs)
- [Where the code and its documentation disagree](#where-the-code-and-its-documentation-disagree)
- [What is only model-checked, and what is not modelled](#what-is-only-model-checked-and-what-is-not-modelled)
- [The plan](#the-plan)

`tlc -config X.cfg M` checks a run (the table below says which module goes with
which configuration), `tlapm M_proofs.tla` the proofs of a module.

## The system

| Component | State it keeps | Operations | Hard behaviour | What makes it correct |
|---|---|---|---|---|
| Outbox store (`outbox/outbox.go`) | a table of rows per tenant: `published_at`, `attempts`; `processed_events` | `Insert` and `InsertWith` in the Core's transaction; `fetch`, `MarkPublished`, `BumpAttempts` for the relay; `MarkProcessed` for consumers | ids are handed out before the commit that shows the row; a statement may have been applied although it reported a failure | an event exists exactly when its transaction committed |
| Relay (`outbox/relay.go`) | the stream and its connection | `drain`: fetch a batch, then publish and mark row by row, each in a call of its own | several replicas drain the same rows; publishes time out and arrive late; crashes between publish and mark; the broker's duplicate window is finite | per entity, events first reach the stream in order; nothing is marked that was not delivered; nothing is lost |
| Sweep schedule (`outbox/schedule.go`, `tenancy/outboxwake.go`, `tenancy/base.go`) | interval and next sweep per tenant, the flags of woken tenants, one-slot channels | `wake`, `takeWoken`, `due`, `done`, `prune` | a commit's flag and signal fall anywhere between the loop's steps | an announced event does not wait out the backoff; the cadence keeps its bounds; no event waits for ever |
| Discovery (`outbox/discover.go`, `tenancy/discover.go`) | active, suspect and failing tenants | `refresh`, `adopt`, `fetchFailed`, `fetchOK` | a discovery misses a tenant, a tenant loses the module with failures pending | a dropped tenant is forgotten, a missed one found again |
| Fan-out and migrations (`tenancy/discover.go`) | the schemas of all tenants' databases | `listDatabases`, `slugOf`, `hasSchema`, `MigrateAll`, `TenantsWithSchema` | databases appear, vanish and change under a loop over them; names that look like a tenant's | one tenant's failure hides no other; nobody gets a schema who has not activated the module |
| Tenant pools (`tenancy/pools.go`) | the registry: an LRU list and a map under one mutex | `Get`, `GetBackground`, eviction, the idle reaper, `Close` | the dial is outside the mutex; eviction and reaping of pools in use; `Close` waits with the mutex held | a pool is its tenant's; one live pool a tenant; none leaks |
| Connection and pool options (`natsconn/`, `tenancy/poolconfig.go`) | none | `Options`, `Connect`, `PoolSettingsFromEnv` | variables that are half set, contradict one another or do not parse | one identity, the one named; inboxes that do not overlap; a pool of the size asked for |
| Idempotency interceptor (`idempotency/idempotency.go`) | one row per key | `claim` in up to three statements, the handler, the record or the release, `Cleanup` | concurrent retries, lost statements, crashes, handlers that outlive their claim | a recorded write does not run again; a response goes to its own request |
| Rate limiter (`ratelimit/ratelimit.go`) | a token bucket per tenant and principal type | `get` under the mutex, the clock, `AllowN` | calls that read the clock in one order and take their tokens in another | a runaway hits a wall, and nobody else does |
| Consumer and causation (`outbox/consumer.go`, `outbox/meta.go`) | a durable per Core; the chain in each envelope | `Subscribe`, `MarkProcessed`, `NextCausation` | redelivery while the first handler works, start-up without broker or stream, Cores that react to one another | one transaction applies an event; nothing acked is unhandled; cascades end |
| Telemetry (`telemetry/telemetry.go`) and the trace columns of the outbox | the process's propagator and exporter | `Setup`, `ServerOption`, `DialOption`, `Traceparent`, `ContextWithTraceparent` | Cores that do not export, relays without the columns, events as a way for a trace | two pieces of work share a trace when the context went along, and only then |
| Divisions client (`divisions/client.go`, `divisions/catalogs.go`) | a snapshot per tenant and catalog | `treeFor` and its two sisters; `ValidateRefs`, `Subtree`, `Path`, `Ancestors`, `Anchor`, `Get`, `List`, `CheckCoherence` | overlapping fetches; snapshots that are not trees; a check over two snapshots of different age | answers are recent, true and the tenant's own; the walks agree |
| Parties and PDP clients (`parties/client.go`, `pdp/client.go`) | none | `LookupSuppliers`, `Check`, `BatchAllowed` | ids of 64 bits for a field of 32; a PDP whose answer lags, or is shorter than the question | what is reported is what the neighbour knew during the call, of what was asked |
| Service tokens (`auth/service.go`) | a token per tenant and audience under a mutex | `Token`, `mint`, `Outgoing` | a mint holds the mutex of every tenant; the margin before expiry | no call travels with an expired token |
| Verifier (`auth/verifier.go`, `auth/interceptor.go`) | the cached key set under a mutex | `Verify`, `keySet` | rotation, fetches that fail or hang, stale sets | a withdrawn key stops passing |
| Gate (`authz/gate.go`, `capabilities/effect.go`) | none between calls | `Require` | five kinds of principal claim, two kinds of catalog, an allowlist; a PDP that fails or hangs | nobody is decided for by the wrong rule; the assistant only reads |
| Capability catalog and capcheck (`capabilities/`, `cmd/capcheck`) | the embedded catalog | `validate`, `Effects`, `Risks`, `Lookup`, `UngatedRPCs`; capcheck's comparison with the protos | several entries for one action, RPCs in namespaces that hide one another, a catalog that leaves an RPC out | what passed CI classifies every RPC the Core serves, once for all who ask |
| File storage (`blob/`) | files and sidecars; objects in a bucket that Cores share | `CheckKey`, `Put`, `Get`, `Delete`, `PresignGet`, `PresignPut` | two files a blob, crashes between them; requests given up on that land later | a `Get` finds what was written last; no key or link leaves its tenant |
| Exchange rates (`fx/bccr`) | none | `New`, `Rate`, `Series` | statuses to retry, bodies that are broken in every way | the day's own rate or "not published", never another's |
| Bracket tables (`hcmrules/bracket.go`) | none | `EvalBracket`, `EvalBracketIncremental` | bases at the bounds of tiers, tables out of order, a month in several payments | two algorithms agree, payments add up |
| Rules of human capital (`hcmrules/formula.go`, `eligibility.go`, `values.go`, `calendar.go`) | none | sixteen formulas and predicates, `ResolveCalendar` | rows with a missing or mistyped number, bands out of order, thresholds and roundings | a broken row fails for all; nothing is paid less for more; ranges add up |
| Decimals and measures (`decimals/`, `measure/`) | none | `Factor`, units, `Validate`, `Convert`, a purchase line | contents that are declared, derived or given; divisions that round | the stock is what was bought |
| UI bundle (`uiserve/uiserve.go`) | an ETag per file | `Handler` | two builds under one name during a deploy, a cache in between | a browser gets a build that ran while it asked |
| Generated clients (`gen/`) | none | the messages and calls of core-divisions, core-clients and the PDP | | modelled as the interfaces of the neighbours above |

How they meet. A handler runs inside the interceptors (telemetry, verifier, rate
limiter, idempotency) and calls the gate. Its transaction (`Base.InTx`) takes a connection
from the pool registry and writes the event with the business change. When the
transaction commits, `runTx` calls the hook of `OnOutboxCommit` on the same
goroutine: the relay's `wake`. The relay's own loop takes pools with
`GetBackground`, which neither counts as use nor keeps them, asks discovery for
the tenants, and publishes to JetStream. Consumers in other Cores are driven by
JetStream's callbacks; what they write goes through their own outbox, with the
chain of what caused it and its trace. Calls to core-divisions carry the caller's bearer or, with nobody
behind the call, a service token. The catalog reaches the running Core through
`go:embed`, after capcheck has compared it with the protos; the gate asks it for an
action's effect, the idempotency interceptor for the methods that write.

`PROJECT.json` lists every component with what is modelled of it, and under "hazards"
what can go wrong in this code that a test would hardly reach, each at its line
with the properties that watch it.

## The modules

One module per component, with its state as variables, one action per step
between two points where another process can come in, and its properties at its
end. `MC*` modules give constants their small values, `*_proofs` hold the proofs.
Operators that end up in no `Next`, such as `SkipAhead`, are mutants: forms of a
neighbouring definition with a bug this code could plausibly have had, against
which the properties are tried.

### Events

**EventPromise** is the abstract specification of the outbox: events are written
in sets (a transaction), delivered one by one in the order of their entity's
history, and every event is delivered unless an undeliverable one stands before it.

**Outbox** refines it. `open`, `committed` and `published` are the table as seen
by writers and by the relay; `step` and `batch` are where each replica is inside
`drain`; `stream`, `window` and `wire` are JetStream, its duplicate window and the
publishes whose publisher has stopped waiting. `Fetch`, `Publish`, `PublishFailed`,
`MarkPublished` and `MarkFailed` are the calls of `drain`, each with the outcomes
it can have, the applied-but-reported-failed among them. That two transactions
never hold events of one entity at a time is an assumption (`Locked`) about the
Cores' row locks; `Row`'s comment on order needs it.

**RelaySweep** decides when a drain happens. `hook` is a goroutine inside
`notifyOutbox`, between commit, flag and signal; `pc`, `byWake`, `flagged`, `todo`
and `cur` are `Run` and `sweep`; `interval` and `left` the schedule; `active`,
`suspect`, `failing`, `since`, `soon` the discovery. A drain is its read and its
outcome. Time is kept as what is left of each wait, so behaviours are infinite and
the state space finite. Both `Insert` (announced) and `InsertWith` (not announced)
commits are there, and commits whose acknowledgement is lost or that another process makes.
`announced` is a history variable: the tenants with an event waiting since an
announced commit. `Swept` are the tenants that the loop sweeps, and promptness is
promised of those: one that the last discovery missed waits to be found again
(`EventuallySwept`), also when a tick took its flag and left it out (the run `sweep_unlisted`).

**Reaction** is the other end of the stream. An event is its causal chain; Cores
subscribe, deliveries repeat and overlap, handlers mark and commit in one
transaction and then ack. The handler is external, modelled as the comments of
`MarkProcessed` and `NextCausation` tell Cores to write it. It assumes
`TraceColumns` on.

**Tracing** follows one request over several Cores, by calls and by events, and does not
assume that: each Core exports or not, each relay has the columns or not, each
connection a `DialOption` or not. `works` is the history of what was done, each with
its trace and its chain of causes and whether the context came along (`kept`). A
relay without the columns forgets the chain too, so a loop through one has
no end; `LoopsEnd` says so of all others.

### Tenants

**Pools** keeps the map as `entries` and the LRU list as `front`, which entry is in front of
which: all that `evictLocked` asks of it. It has `Hit` and `Miss` (the locked first half of `get`), `Dial`, then
`KeepTheirs` or `Register` (the locked second half), borrowed connections, the
reaper, and `Close` as the loop it is. pgxpool's `Close` waits for what is
borrowed: `Teardown` is enabled when nothing is. Who holds a connection gives it back
in the end without asking the registry for a pool meanwhile; a Core that did ask, with
`Close` holding the mutex, would wait for it while it is waited for.

**Fanout** runs `MigrateAll` or `TenantsWithSchema` over the databases of a cluster while
the provisioner, which is not in this repository, creates databases, activates the module and takes it back. A
name is a sequence of characters, because what tells a tenant from a look-alike is the
`LIKE` pattern, the trimming of prefix and suffix and the alphabet of a slug. Between
`Check` (`hasSchema`) and `Migrate` (the migrations' own transaction) the module may be taken back;
`NeverActivates` shows that nothing creates a schema for a tenant that has not had one since
the loop came to it. For one that had it, and loses it between `Check` and `Migrate`, the hook creates
it again where its role may: the property excuses exactly that, and it is among the
disagreements below.

**Environment** is what the variables become: a NATS credential, a connection's inbox,
the size of a pool. `Options` and `PoolSettings` are its functions; `links` collects
the connections, so that two services' inboxes can be compared.

### Calls

**Idempotency** is one key of one tenant with the statements of `claim`, `run` and
`Cleanup`. The row's age is what the statements compare it with: fresh, past
`StaleAfter`, past the TTL. `Slow` says whether a handler may outlive `StaleAfter`.

**RateLimit** splits the interceptor where other calls come in: the bucket is
found under the mutex, the clock read, the token taken. `skew` records how far a call that had read
the clock earlier set a bucket's time back, which is what such calls earn too much;
`AdmissionBound` bounds it by exactly that.

**PlatformClient** holds the snapshots and the tokens of one Core: a snapshot is
the age of the fetch and the age of what was read, a token its remaining life and
how long it is still handed out. Answers are ages, which is all the cache decides.
The gap between the read on the server and the store in the cache is explicit, so
overlapping fetches may store the older reply last.

**References** has what the ages are of: `store` is core-divisions, which goes on
creating, moving, deactivating; `past` what it was and for how long it has not been; `asked` the
fetches under way, each a request (`FetchBegins`), the server's read (`FetchReads`) and a reply that is stamped when
it arrives (`FetchLands`) or does not (`FetchFails`); `held` the three
snapshots, which run out one by one. A check of coherence takes its anchor from one catalog and
its tree from another, maybe fetched later. The property is that each answer is one the
server would have given of each catalog less than a TTL and a call ago.

**Neighbours** has the two calls nothing is cached of. Suppliers become blocked, and permissions
granted and revoked, between a call's start and its answer; a PDP may decide at any revision that is not
older than the token the Core passed.

**Gate** is the decision of `require` as a pure operator over the claims, the
gate's configuration and the action. **Access** puts it on a call's way: the key
set fetched under the mutex while the issuer rotates keys, the interceptor, the
gate, the PDP with its timeout, and the context's deadline.

**Catalog** goes from a commit to the running Core: `commit` is a catalog and protos,
`verdict` capcheck's exit code, `release` what was deployed because it passed. The name resolution
of proto messages (innermost scope first) is there, and what the gate, the AI Core and
the idempotency interceptor then ask of the catalog.

### Files, rates, pages

**BlobKeys** has `CheckKey` and what a key becomes on a disk. **DiskStore** runs calls
statement by statement (truncate, write, the same for the sidecar; a read of each;
an unlink of each) with crashes at any point. `file` is the disk: blobs and the sidecars with
their types lie beside each other, `SidecarOf` a path is where its type is, and no key comes
with the path of another one's sidecar (`SidecarAssumption`). `settled` is what the last write
that ran alone left. **ObjectStore** is the shared bucket with requests that are given up on and
land later, and presigned links that are followed before and after they expire. **Stores** is
the two of them, and what a Core may expect of either.

**Rates** is one call of the Banco Central's client: attempts, the wait between two of them,
and what is read out of a response.

**Bundle** is one file of the UI behind a cache, while replicas are deployed to one of
several builds, forwards or back.

### Calculations

**OrgTree** has the walks over one snapshot: `Chain` (parents), `Layers`
(children), `Ancestors` with the code's bound on its steps, `Validate` without one,
`CheckCoherence`. A node that has no window is a division, one that has is a cost
centre; the code walks both alike, so one module stands for both files. A walk
that never ends is the answer `Endless`. What the walks are held against is `Above`, the least set closed under
"is the parent of", which no walk computes.

**Brackets** has both bracket algorithms over integers and a month of payments
that withholds increments. **HcmRules** has the formulas, predicates and the calendar, as
functions of a row of coefficients and of facts; exact decimals are integers over a common
denominator, so that a rounded quotient is a rounded quotient here too. The lookup in a step table,
which the code does in one pass that keeps the best band so far, is here the band that `Wins`: no other that is met
outranks it, and it comes before its equals. **SeededRows**
has its rows: each as it is seeded, with any one of its numbers missing or mistyped, and
banded ones in every order.

**Measure** is an item that is bought, line by line, in a unit its tenant declared, and
kept in a kardex in another.

### Together

**MCServices** checks the modules of a Core's services that share no state in one run:
`part` says which of them a behaviour is about, and the others keep their initial
state. **MCCalculations** does the same for what is computed without I/O and for the Cores of Reaction
(with those of MCReaction, which `reaction_live` checks alone), and derives the
deductions of the bracket tables it tries, which a seeded table brings along. Symmetry is that of Reaction's
handlers, which no other part mentions.

## The runs

| Run | Module, configuration | Instance | What it asks |
|---|---|---|---|
| `outbox` | MCOutbox, Outbox | 2 writers, 2 replicas, 2 entities, 3 ids, batch 2, id 2 undeliverable, up to 2 copies of an event | `HistoryOrder`; `KeepsPromise` and `KeepsPromiseLive`, the refinement of EventPromise, without and with its liveness; `EventuallyPublished` |
| `sweep` | MCRelaySweep, RelaySweep | 1 tenant, base 1, idle 2, discovery every 2, early gap 1, batch 1, 2 pending, every kind of commit, a backlog | `AnnouncedIsPrompt` of the tenants that are swept, `EventuallySwept` and `EventuallyDropped` of all |
| `sweep_insertwith` | MCRelaySweep, RelaySweep_insertwith | only `InsertWith` commits | the same promptness for them: violated, see below |
| `sweep_unlisted` | MCRelaySweep, RelaySweep_unlisted | the same with 1 pending and only `Insert` commits | `TakenIsSwept`, a sweep visits the tenants whose flags it takes: violated |
| `pools` | MCPools, Pools_registry | 2 callers, 2 tenants, limit 1, idle 2, 3 pools | `RegistryInv` (one live pool a tenant, no leak, the limit), `Isolation`, `IdleIsReleased`, `CloseFinishes` |
| `pools_close` | MCPools, Pools_close | the same with 4 pools | `CloseReleases`, when `Close` has returned the registry holds no pool: violated |
| `services` | MCServices, Services | see below | one property a part |
| `idempotency_slow` | MCIdempotency, Idempotency_slow | 3 calls, 2 requests, handlers may be slow | `ReplayIsOwn`: violated |
| `reaction_live` | MCReaction, Reaction_live | 2 Cores, 1 handler each, depths 2 and 1, what both made of a person's event, one republication | `Settles` |
| `platform_client` | MCPlatformClient, PlatformClient | 2 tenants, 2 callers, 1 catalog; in units of 10 s: TTL 2, timeouts 1, margin 3, life 6 | `AnswerIsRecent`, `TokenOutlivesCall`, `EveryCallReturns` |
| `access` | MCAccess, Access | 2 calls, 2 keys, 2 gates, 3 actions, 8 kinds of principal, TTL 2, deadline 1 | `PolicyDecides`, `AssistantOnlyReads`, `OnlyFreshKeys`, `EveryCallEnds` |
| `calculations` | MCCalculations, Calculations | see below | one property a part |

The parts of `services`:

| Part | Module | Instance | Property | What it says |
|---|---|---|---|---|
| idempotency | Idempotency | 3 calls, 2 requests, the TTL passes once, handlers keep to `StaleAfter` | `NoRerun` | a recorded write does not run again within the TTL |
| limiter | RateLimit | people with a burst of 2, an unknown type with an agent's burst of 1; 2 calls at a time | `FairLimits` | a bucket lets through its burst and its rate (`AdmissionBound`), and refuses nobody below the burst (`NobodyPaysForOthers`) |
| disk, bucket | Stores | disk: 2 goroutines, 3 calls, 1 crash; bucket: 3 requests, 1 given up on, 1 link, 2 Cores one of whose names is two segments | `StoredIsRead`, `TenantsApart` | a `Get` finds what a write that ran alone left, bytes and type of one `Put`; no key, link or prefix leads to another's files |
| rates | Rates | every mix of missing, broken, doubled and foreign entries over 2 days; 5 statuses; 3 numbers of attempts | `RatesAreTheirs` | that day's rate (`ThatDaysRate`), that range whole (`WholeSeries`), retries no oftener and no sooner (`Patient`) |
| fanout | Fanout | 2 tenants' databases, 3 that look like one, 2 changes, 1 failing query | `EveryTenantIsTold`, `NeverActivates` | every tenant that was active throughout is migrated or listed, whatever the others do; no schema appears where the module has not been active since the loop came to it |
| references | References | 3 divisions, 1 cost centre, 1 type, 1 fetch at a time, TTL 2, calls of up to 1, 2 edits | `ReferencesWereTrue` | each answer is the server's, of each catalog as it was less than a TTL and a call ago |
| suppliers, policy | Neighbours | ids of 2 bits, at most 2 answered for; batches of at most 2; 2 changes | `NeighboursAreHeard` | an answer is of what was asked, and true at a moment of the call or at the PDP's revision |
| traces | Tracing | 2 Cores, exporting or not, columns or not; depth 3, 4 pieces of work | `ContextFollows` | one trace for one story (`TracesAreStories`), no reaction to one's own doing (`LoopsEnd`) |
| bundle | Bundle | 2 replicas, 3 builds | `DeployIsSeen` | a browser is given a build that ran while it asked |

The parts of `calculations`:

| Part | Module | Instance | Property | What it says |
|---|---|---|---|---|
| reaction | Reaction | 2 Cores, 3 handlers, depth 3, two roots (an event of the other Core, a chain with a cycle), one republication | `AppliedOnce`, `AckedIsHandled`, `ActsOnce` | an event is applied once in each Core, acked only when it was dealt with, and no Core reacts to what it caused |
| tree | OrgTree | every snapshot of 3 ids, 2 days, 3 windows | `WalksAgree` | the walks up and down are walks of one tree, and say so when it is none (`SubtreeIsBelow`, `AncestorsAreAbove`, `ClosesSubtree`, `CoherentIsAnchored`) |
| month | Brackets | every well-formed table of 2 or 3 tiers in every order, bases to 7 | `MonthIsOne` | both algorithms agree (`MethodsAgree`), payments add up to the month's tax (`MonthAddsUp`), no bound is a cliff (`NoCliff`) |
| rule | HcmRules, SeededRows | 16 kinds of rows and a calendar, sound and broken | `OneRowForAll`, `NoSeams` | an answer does not depend on the order a row is stored in (`BandOrderFree`); without any one coefficient, of its own, of a band it counts or of a row it has, nobody gets one (`MissingIsLoud`), and what is broken otherwise fails for all who come (`RowFailsForAll`); what is not said of the legacy `cesantia_cr` and of an absence is below; more service never pays less, and ranges of a calendar add up |
| item | Measure | 9 units of 3 dimensions, contents declared or given, 2 purchase lines | `KardexIsSound` | the stock is what was bought but for the rounding, and no factor of a unit is long to write (`FactorsAreShort`) |
| commit | Catalog | 5 trees of protos, catalogs of up to 2 of 37 entries | `SpeaksForTheProtos` | what CI let through classifies every RPC, once for all who ask (`EveryRpcIsClassified`, `OneClassification`, `WorstIsTold`, `MessagesAreTheRpcs`) |
| nats, pool | Environment | every way to set and half set a credential, 5 service names, 2 connections; pools that count in 4 bits | `Honoured` | nobody connects as another (`AsNamed`) or reads another's inbox (`InboxesApart`); a pool is as asked (`PoolsAreAsAsked`) |

Properties with a name in parentheses are conjunctions: the named parts are
definitions of the module, with a comment each on the lines they are about.

## The bounds

Why they are enough.

- *Outbox.* `MaxEvents` 3 with two entities gives one entity two events and a third
  event in between, before or after, which is what an overtaking needs; two replicas are
  all that an overtaking or a double mark can be between; `MaxCopies` 2 lets every
  event leave the duplicate window and enter the stream again. The undeliverable row has rows on
  both sides. Larger instances repeat these; the proofs cover them.
- *RelaySweep.* Tenants meet only in the two one-slot channels and in the loop's
  turn, both of which one tenant's own commits and sweeps already contend for; the proofs
  cover any number. `IdleMax` 2 is one doubling and the cap; `MaxPending` 2 over a batch of 1
  leaves rows behind after a drain.
- *Pools.* A limit of 1 with two tenants makes every registration an eviction; pool
  ids are reused after their teardown, so three allow one registered, one being
  closed and one being dialled. `IdleClose` 2 is more than one unit so that a poll can
  fall between two ages.
- *Idempotency.* Three calls are an owner, one that takes over or collides, and one that replays or
  comes after the TTL; two requests tell a replay from a collision. The proof covers any number.
- *RateLimit.* A burst of 2 is what two calls can share or exceed; one tenant with two types
  tells buckets apart; five passes are more than a burst and a clock of 2 earn.
- *DiskStore, ObjectStore.* Two goroutines are what an overlap is between; the third call reads what they
  left. One crash, and one request given up on, may fall at every step. A key that walks out
  of its tenant (`..`) and one that repeats it, and a Core whose name
  is another's with a tenant behind it, are the ways two names could meet.
- *Rates.* Two days make a "previous day"; the two entries of one response are what can
  contradict each other. Backoff 2 doubles past a cap of 3, and a `Retry-After` of 5 is over it.
- *Fanout.* One tenant that fails and one that should not notice; each change by the
  provisioner can fall between any two statements. The look-alikes differ in the `_` that `LIKE` takes for
  any character, in their alphabet, and in an empty slug.
- *References.* Two edits are a creation and its move, deactivation or undoing; three divisions are a
  path with a fork. A TTL of 2 and calls of 1 let the first catalog run out before the second is read, and the
server change between its read and the stamp. Two fetches of one catalog that overlap, and land in the other order, are in
PlatformClient; the theorem has any number of askers.
- *Neighbours.* With ids of two bits, -2 and 5 would pass for 2 and 1 if they were cut; a lookup of
  three ids is over the cap, a batch of three over the PDP's.
- *Tracing.* Four pieces of work are a request, a call or event, a reaction to it and one to that:
  two Cores are enough for a loop. Depth 3 is not reached first.
- *Bundle.* Of three builds one can come, go and come back while another is cached. The proof covers any number.
- *Reaction.* In the part of `calculations` depth 3 leaves what comes back to its author to the search of
  the chain alone, the depth not being reached; the cyclic root is what `Validate` refuses. In
  `reaction_live` depths 2 and 1 make the depth refuse too. Two handlers of one Core
  are a redelivery under way; the Core without a second one shows that each Core has
  its own marks and durables.
- *PlatformClient.* The 30 s margin over a 10 s mint and a 10 s call, in their own
  unit; a TTL of two calls, so that a snapshot can be fresh by its stamp and older by its read.
- *Access.* A kind of principal for every branch of `require`; a TTL longer than a
  fetch; two keys, one of them withdrawn at any time.
- *Calculations.* Three nodes have chains, forks, holes, self-loops and cycles of two and
  three; the longest chain is as long as the step bound tells apart. Three tiers have one
  in the middle. Coefficients are halves, so that rates, thresholds and roundings have a fraction, and a
  typed-in number is negative, zero, fractional, or beyond `MaxCount`. A pool that counts in four
  bits holds 7 connections, and 8 and 9 do not fit. Factors have digits and exponents on both sides of the limits.

Deadlock is checked where the system runs on for ever; it is off for Outbox (finite
ids), the services and Idempotency (finitely many calls) and Calculations (an
answered question, a cascade that has ended).

## Fairness

Safety runs use none. What the liveness runs assume, and why the code grants it:

- *Outbox*: replicas go on sweeping (`Run`'s ticker) and no call fails for ever
  (strong fairness of the successful publish and mark). Retries have no bound in the
  code, so a failure that ends is enough.
- *RelaySweep*: time passes and fires the ticker; the loop and the hooks run on;
  `select` picks a ready ticker in the end although wake-ups keep coming (Go's `select`
  chooses at random); the broker, a discovery and a tenant's database answer again and
  again.
- *Pools*: goroutines run on and return what they borrow, the mutex is not
  starved (Go's mutex hands over after 1 ms), and the reaper finds a tenant between two uses: without
  that, `IdleIsReleased` would be false, because a poll can always re-open what
  was reaped. The relay polls more often than a unit of `IdleClose`.
- *Reaction*: `<>[]up`, the last outage of the broker ends; the producer's relay
  creates the stream (`StreamCreated`); among the deliveries, decisions, commits and acks that
  are possible again and again one happens. JetStream redelivers without bound: this assumes
  that the `ConsumerConfig` a Core passes in `Subscription.Consumer` sets no `MaxDeliver` (the kit sets none itself).
- *PlatformClient*, *Access*: time passes, so whatever has a timeout ends; strong
  fairness for the mutex of tokens and key set. In *Access* every call brings a
  deadline. The kit does not set one, and without it `keySet`, which uses
  `http.DefaultClient`, may hold the mutex for ever: this is an assumption on the callers,
  and listed as a hazard.

## The proofs

Each theorem of a safety property follows the same way: an inductive invariant made of
named parts, a lemma per part that every step keeps it (one proof step per action), and
the temporal rule.

| Module | Theorems | Inductive invariant, and why the property alone is not inductive |
|---|---|---|
| Outbox_proofs | `DrainInvHolds`, `HistoryOrderHolds`, `MarkedIsDeliveredHolds`, `KeepsPromiseHolds` | `DrainInv` with the finiteness of the rows. A replica publishes from a batch it read long ago, so the order in the stream needs `BatchIsClosed` (a fetched row's history is in the batch or out), `WireIsClosed` for late messages, `MarkIsEarned` for the mark, and `OpenIsNewer` for rows that commit later |
| RelaySweep_proofs | `LoopInvHolds`, `CadenceBoundsHolds`, `SweepInvHolds`, `AnnouncedIsPromptHolds`, `FailingIsActiveHolds` | `SweepInv`. `AnnouncedIsPrompt` says nothing while a hook is between flag and signal; `Covered` follows the flag through `woken`, the channel, `flagged` and `todo`, and refuses to count a drain that saw the outbox empty. It is about tenants that are swept: what a tick takes of others it may forget |
| Reaction_proofs | `ReactionInvHolds`, `AppliedOnceHolds`, `AckedIsHandledHolds`, `ActsOnceHolds` | `ReactionInv`: of two handlers with the same event only one is marked; effects and `processed_events` agree; chains repeat nobody |
| PlatformClient_proofs | `AnswerIsRecentHolds`, `ClientInvHolds`, `TokenOutlivesCallHolds` | `CacheInv` (a snapshot was read at most a call before it was stored) without assumptions; `ClientInv` with `MarginSuffices`: the margin covers a mint and a call, and the issuer grants a minute or more |
| PlatformClient_proofs, of References | `ReferencesTrue` | `ReferencesInv`: every catalog there was is well formed, a tree in which no set of nodes holds the parent of each (`IsTree`), a reply under way is of one that was there since it was asked for (`AskedOK`), a snapshot of one that was there since its age and a call (`Had`), and so is the anchor a check has in hand. Every change keeps a tree (`SplitKeepsTree` for a level pushed in between). The other half is that the walks over a tree, each with its own recursion and bound, agree with core-divisions' (`LineageIsAbove`, `ChainEnds`, `LayersAreChains`): no answer is `Endless` or `Broken`, and the bound on the rounds is never met |
| Isolation_proofs, of Access | `AccessInvHolds`, `PolicyDecidesHolds`, `AssistantOnlyReadsHolds`, `OnlyFreshKeysHolds` | `AccessInv`: the reply under way and the cached set bound the age of every withdrawn key. The gates' catalogs and the three plain verbs are assumed to name only harmless actions (`GateAssumption`) |
| Isolation_proofs, of Stores | `StoresAreRead`, `StoresKeepTenantsApart` | `DiskInv`: a call that runs alone has its path for itself, finds what it left there a step ago (`StillThere`), and what is settled is on the disk while nobody writes (`OnDisk`). A write of a blob touches no type and no other blob (`DataWritten`), a write of a type nothing but that (`TypeWritten`), which is where `SidecarAssumption` is needed. `ObjectInv` is the same of a bucket where a write that was given up on may land at any time: nothing is promised of its object (`LateIsInDoubt`). That no key leads out is `CleanPath`: a key that `CheckKey` lets through is its own path, by induction on its segments |
| Tenancy_proofs, of Pools | `PoolsInvHolds`, `IsolationHolds`, `RegistryInvHolds` | `PoolsInv`. Between the two halves of `get` a pool is in nobody's registry: `CallersOK` says that it is in one caller's hands only, `RegistryOK` that a registered pool is its tenant's alone, and is not being closed unless `Close` holds the mutex |
| Tenancy_proofs, of Fanout | `EveryTenantTold`, `HookNeverActivates` | `FanoutInv`. What the lists say at the end is nothing while the run goes on: `NobodyIsLost` keeps every steady tenant in the list to do, under way or in a list of the result, `RunShape` ties the version read before `goose` to the schema, which others change, and remembers (`activated`) that there was one when the loop came. That a tenant's name gives its slug back (`Like`, `Trimmed`) is proved of the names themselves |
| Calls_proofs, of Idempotency | `ClaimInvHolds`, `NoRerunHolds`, `ReplayIsOwnHolds` | `ClaimInv`: the owner of a fresh claim is the one that the row names, which the record and the release rely on without checking. Assumes `Slow = FALSE` |
| Calls_proofs, of RateLimit | `LimitsAreFair` | `LimitInv`. The bound on what passed is that of all of a bucket's life: `Accounts` says that what it let through and what it has left were in it at first or earned since, with the `skew` of the calls that took their tokens after one that read the clock later |
| Calls_proofs, of Bundle | `BundleIsCurrent` | `BundleInv`, whose heart is `CopyNamesBuild`: a cached copy is never served unasked and its ETag is the hash of its own build. `DeployIsSeen` alone says nothing of the copy that a later 304 will revive. Assumes that two builds with one hash are one |
| Calls_proofs, of Neighbours | `NeighboursHeard` | `NeighboursInv`: a reply under way is that of a table, or a revision, that the neighbour had since it was asked (`LookupUnderWay`, `BatchUnderWay`). Cutting ids to the field's width and the ids that do not fit are part of the proof (`WireIds`) |
| Calls_proofs, of Tracing | `ContextIsFollowed` | `TracingInv`: work follows from earlier work, a trace and a chain are handed on or begun (`TraceIsHandedOn`, `ChainIsHandedOn`). The theorem adds that the recursion of `WaysBack` has one solution, which every further piece of work extends (`BackOfOneMore`): without that, `WaysBack` could not be unfolded at all |
| Calls_proofs, of Rates | `RatesInvHolds`, `RatesAreRight` | `RatesInv`: the wait before an attempt is known while it passes (`Waits`), what is kept of a fetch is what its last reply says (`Answered`), and no attempt comes early or over the number configured (`Patient`) |
| Calculations_proofs, of Environment | `EnvironmentHonoured` | `EnvironmentInv`: every connection and every pool is what `Options` and `PoolSettings` make of its own environment. The arguments are `NamedIsMeant`, `InboxesOverlapNot` and `SettingsAreAsAsked`, the wrap at 2 ^ 31 included |
| Calculations_proofs, of Measure | `KardexSound` | `MeasureInv`: an item's units are validated and its content the one it was declared with (`ItemIsSound`). The heart is `LineIsNear`: a line is off by half a unit of each of its two roundings at most, and the sums add up (`SumOfOneMore`) |
| Calculations_proofs, of Catalog | `CapcheckedInv`, `ProtosSpokenFor` | `CatalogInv`: what is deployed passed capcheck as it is, and its catalog and protos are of one commit. That its exit code was 0 then says all the rest: each RPC has one entry for the gate (`OneEntryOfAnRpc`, `RpcsAreClassified`), the worst of several is found by a walk over ranks (`WorstIsThere`), and the names of messages are resolved from the innermost scope that has them (`InnermostWins`, `MessagesOfAnRpc`) |
| Calculations_proofs, of Brackets | `MonthsAddUp` | `MonthInv`: what was withheld so far is the tax of what was paid so far. The arguments are about one table: stored in any order it sorts to tiers that meet end to end (`SortedIsJoined`), the deduction telescopes to the sum over the tiers below (`TaxIsQuick`, `QuickIsTheTax`), and no more is taken of a unit than the highest rate (`GentleTax`) |
| Calculations_proofs, of OrgTree | `WalksAreOfOneTree` | `SnapshotInv`, which is the typing of a snapshot: the client checks nothing else of one, and the theorem is about all of them, those that are no trees too. A chain that comes back to where it was has a cycle above it, one that does not ends within the bound (`ChainReturns`, `AboveIsMet`, `EndlessIsBroken`), and the layers going down are the chains going up read backwards (`LayersAreChains`) |
| Calculations_proofs, of HcmRules | `OneRowServesAll` | `RulesInv`: the rule in force is one that was seeded. Whether a formula fails is decided by its row alone, whoever asks (`RowDecides`, with `PreavisoDecides` and `Art29Decides` for the step tables); of an absence it also takes a band that starts by its day (`AbsenceDecides`), so a day before the first one is left out. Any one coefficient it reads, missing, fails it (`WithoutOneFails`), and so does one of a band it counts or of a row it has (`BandWithoutOne`, `UnitsInOrder`), but for `exclusive`, which has a value when it is absent. Left out are the bands of the legacy `cesantia_cr`, which promises neither. Of the bands that are met exactly one wins (`RankIsWeakOrder`, `OneWins`), and when no two are of one rank it is the same band in any order (`HighestOfPermuted`) |

`KeepsPromiseHolds` is the refinement: every step of Outbox is a `Write`, a `Deliver`
or a stutter of EventPromise, for any number of writers, replicas, entities and ids.

What the theorems assume of the constants is named in each module and evaluated by TLC in
every run. Most of it is their typing. Beyond that:

- `SidecarAssumption` (DiskStore): no key has the path of another one's sidecar, and no two paths have one sidecar;
- `NamingAssumption` (Fanout): a database that is not a tenant's does not have the name of a tenant's;
- `MeasureAssumption`: a code that is not empty names one unit, which the kit leaves to the table the
  units come from, and no amount bought is negative, which the kit leaves to the Core;
- `EnvironmentAssumption`: a default pool size is one that fits;
- `NeighboursAssumption`: ids of core-clients are positive and fit the width of its field, as its database hands them out;
- `BracketsAssumption`: in one order or another a table's tiers meet end to end, each with the deduction that makes it
  go on where the one below ends, which the kit leaves to whoever seeds the table; payments are not negative;
- `CatalogAssumption`: a package has one method of a name, in whatever files, which the compiler of protos sees to;
- `ErrorsAssumption` (OrgTree): an error is neither a path nor a set of ids;
- `ReferencesAssumption`: ids of divisions are positive and finitely many, and neither a path nor a set of them is an error;
- `RulesAssumption`, `RowsAssumption` and `FactsAssumption` (HcmRules): a row has no coefficient its formula does not
  read, while any it does read may be missing or be any number, those of its bands and of the years of `cesantia_cr_art29`
  too (which are numbers under any set of years, with holes or without); an employee's facts are all there, no time is
  negative, a remainder of months is less than a year, and an absence has a first day. The decimals and counts are integers, an error is none;
- `GateAssumption`, `MarginSuffices` and `Slow = FALSE` as said above.

Induction. The library's induction theorems take an operator, so where the proofs need one they
use the set it is about: `AllNumbers` says that a set of numbers with 0 and each next one
is all of them (from `WFMin`), which `CleanPath`, `SumsExist` and `Iterates` apply to the set of lengths
for which a recursive function exists and is what it should be. That a recursion has one solution at most is
`IsTree`'s own minimum where it goes up a tree (`LineageIsAbove`).

The inductive invariants (`DrainInv`, `SweepInv`, `ClaimInv`, `ReactionInv`, `ClientInv`,
`AccessInv`, `PoolsInv`, `DiskInv`, `ObjectInv`, `FanoutInv`, `LimitInv`, `NeighboursInv`, `TracingInv`,
`RatesInv`, `EnvironmentInv`, `MeasureInv`, `CatalogInv`, `MonthInv`, `SnapshotInv`, `RulesInv`, `ReferencesInv`) were checked with TLC before they were proved; the runs list the properties
they are for and not the invariants themselves.

## Where the code and its documentation disagree

Four runs are expected to fail.

1. `sweep_insertwith`: `Config.IdleInterval` (`outbox/relay.go:66`) says that a commit
   that writes an event wakes its tenant at once. `Store.Insert` does call
   `tenancy.MarkOutbox`; `InsertWith` (`outbox/meta.go:150`) does not. An event written
   through it waits for the tenant's next sweep, up to `IdleInterval`. It is not lost:
   `EventuallySwept` holds for it in the run `sweep`.
2. `sweep_unlisted`: a sweep that is pending "will take this tenant too" (`outbox/relay.go:228`),
   but a tick takes the flags (`outbox/relay.go:256`) before it knows which tenants it visits. The flag
   of one that its list lacks, because a discovery missed it or its pool is closed, is dropped, and the
   wake-up sweep after it finds none. The event waits for a later discovery, and
   `EventuallySwept` holds for it too.
3. `pools_close`: `Close` "releases every pool" (`tenancy/pools.go:286`), but nothing marks the registry as
   closed: a `get` that is dialling outside the mutex, or that begins later, registers its pool
   after `Close` has returned (`tenancy/pools.go:212`), and nobody closes it.
4. `idempotency_slow`: the response of a handler that outlived `StaleAfter` is recorded
   by key alone (`idempotency/idempotency.go:285`), so it may land in the claim another
   request holds by then, whose retry is given it. `StaleAfter`'s comment says that
   it lies far above any RPC deadline; nothing enforces it.

More came up that the properties leave out, each at the definition it concerns.

- To create the schema is to activate the module, which is the provisioner's to decide and not a
  deployment hook's (`tenancy/discover.go:165-170`), but `MigrateAll` looks for the schema first and
  migrates afterwards (`tenancy/base.go:182`): a module that is taken back between the two is created again, where
  the role may create schemas. `NeverActivates` excuses a module that was active since the loop came to its tenant.
- A count that is not whole is an error, because to read 2.5 as 2 would silently drop part of
  the law (`hcmrules/values.go:33-43`), but the legacy `cesantia_cr` takes the integer part of its `band_count`
  without asking (`hcmrules/formula.go:122`), and 1.5 drops the second band. `ProratesWithinBands` speaks of whole counts only.
- capcheck fails at an id that is not its action and at an action twice
  (`cmd/capcheck/main.go:4-5`), but `validate` lets through an id that is its action and a suffix, and several entries of
  one action (`capabilities/catalog.go:108-110`, `145`), as the comment there wants; the model's `Valid` does too.
- The worst that a stale catalog does is "operar un minuto" with what has changed (`divisions/client.go:22-24`): a snapshot
  is stamped when it arrives (`client.go:289`), so it is a minute and `callTimeout`.
- `KnownTenants` (`tenancy/pools.go:236`) says that the tenants with a live pool coincide with those that
  have something to relay, which a reaped pool with rows pending contradicts.
- A token granted for less than a minute is cached as if it lived one (`auth/service.go:102`) and may be
  handed out expired: `TokenOutlivesCall` assumes that the issuer grants more.
- The content of a physical unit is "derived from the factors rather than asked" (`measure/measure.go:138-140`), but
  one that is given takes its place (line 160): `KardexHoldsWhatWasBought` leaves such items out.
- A declared content between 0 and 1 is not fallen back to (`measure/measure.go:189`), so that a line that gives none of its own is
  refused, while the comment above it (181-184) speaks of zero and of "the placeholder 1" only. Factors are bounded in digits, amounts and contents are not, so
  nothing bounds the length of a stock.
- A pool size beyond 32 bits is readable, wraps (`tenancy/poolconfig.go:58`) and may become negative, where 51-52 only
  speak of values that are missing or unreadable: `PoolsAreAsAsked` leaves out what does not fit.
- A divisor of zero in a seeded row panics inside the decimal library (`hcmrules/formula.go:62`): that is the
  model's `Panic`, told apart from an error.
- A signed upload link outlives a `Delete` of its object and may bring it back (`blob/s3.go`): `AckedIsRead` ends its
  promise when a link uploads. A blob whose key ends in `.ct` may be another blob's sidecar (`blob/disk.go:41-64`), whose type it
  then overwrites, and nothing refuses such a key: `SidecarAssumption` leaves them out.
- Two fan-outs at once (two replicas' migrations) meet inside goose, which takes no lock here.
- A relay without `TraceColumns` sends its events without the trace and the chain of causes they were written with, and
  nothing notices; `ContextFollows` excuses it, because it says what holds when the context went along.
- The `Dial` of the kit's own clients (divisions, parties, PDP) does not add `telemetry.DialOption`, so a trace
  ends there unless the Core adds it.
- core-clients answers for a limited number of ids; `LookupSuppliers` neither splits a longer list nor says so
  before the call.
- A directory of the UI (`/ui/`) is served without an ETag and without `no-cache` (`uiserve/uiserve.go`), unlike the
  file it shows.

## What is only model-checked, and what is not modelled

Only TLC:

- everything about liveness: fairness and `ENABLED` are out of the prover's reach;
- what the legacy `cesantia_cr` does with a band that is missing a number (`LegacyReadsWhatItReaches`): it fails those whose
  service reaches the band, and is silent for all others;
- the rest of `NoSeams`, whose sorting, filtering and folding take operators as arguments (`SelectSeq`, `SortSeq`,
  `FoldLeft`, `LAMBDA`), which the provers cannot instantiate.

Not modelled:

- wording and formats: texts of errors and logs, JSON of envelopes and claims, YAML and the grammar of
  protos (their content is), dates' formats, the quoting of a DSN, the shape of a pod's hostname;
- token parsing and signatures (a token passes or does not), how a request is hashed
  (`idempotency`: two requests are told apart, as a constant), the form of `idempotency.New` without a catalog,
  which goes by method names;
- attributes and sampling of spans; `textnorm`, a function on Unicode text;
- the second of two fan-outs at once; reconnecting inside the NATS library, which is a broker
  that goes and comes back in Outbox and Reaction;
- what `WithNATSOptions` applies after the options of the environment, which may name another identity; a durable
  that is deleted at the broker after its bind (`outbox/consumer.go:117-122`);
- the part of the generated code that no package of the kit uses: the rest of core-clients'
  interface.

Reductions that a reader should know: one key (Idempotency), one file (Bundle), one item (Measure), one catalog
(PlatformClient) stand for many, because the code keys everything it stores by them and no operation
reads two. Asset types' axes never change in References. In RelaySweep a discovery
answers any subset of the activated tenants; Fanout shows what it answers.

## The plan

The order of the work, most important behaviour first: outbox and its promise;
sweep schedule with discovery; pools; idempotency; consumer and causation; platform
client; access; calculations; then files, limiter, rates, fan-out and catalog; then the
neighbours, traces, pages and options. All of these stand. Composition is by assumption at
the seams: RelaySweep's drain is Outbox's with only its outcome, its discovery is Fanout's,
Reaction's stream is Outbox's as a set of committed events that are delivered late, Access calls Gate,
References uses OrgTree's walks.

Left:

1. A composition of RelaySweep with Pools, in which the relay's poll is what opens and keeps
   a pool, to replace the free `ClosePool`; an instance of RelaySweep without discovery.
2. The rate limiter on the call's way in Access.
3. In HcmRules, `NeverOwesLess` (but for the legacy cesantia, which folds over its bands) and `RoundingLosesNothing`, the
   parts of `NoSeams` that use no fold, as theorems.
