------------------------------- MODULE Fanout -------------------------------
(* Who has this Core's schema (tenancy/discover.go): the migration fan-out  *)
(* of a deployment and the discovery of the tenants to sweep, both one      *)
(* tenant after the other, while the Shell's provisioner (external) goes on *)
(* creating databases, activating the module in them and taking it back.    *)
(* A database's name and a slug are sequences of characters.                *)
EXTENDS Integers, Sequences, FiniteSets

CONSTANTS
  Names,           \* the databases the cluster may have for tenants
  Others,          \* its other databases, which anyone may connect to
  Prefix, Suffix,  \* what the DSN template has around {slug}
  SlugAlphabet,    \* validSlug
  Target,          \* the last of the Core's migrations
  NoSchema,        \* the version of a schema that is not there
  MayCreate,       \* whether the Core's role could create schemas: {FALSE} as it should be
  MaxChanges,      \* bound: what the provisioner does in a behaviour
  MaxFaults        \* bound: queries that fail for no reason of their own

ASSUME FanoutAssumption ==
  /\ Target \in Nat /\ MaxChanges \in Nat /\ MaxFaults \in Nat
  /\ NoSchema \notin Nat /\ MayCreate \subseteq BOOLEAN
  /\ Names \cup Others \subseteq Seq(STRING) /\ {Prefix, Suffix} \subseteq Seq(STRING)

VARIABLES
  db,         \* name -> whether it exists, grants CONNECT, and its schema's version
  fanout,     \* the run of MigrateAll or TenantsWithSchema
  steady,     \* names whose module has been active, and undisturbed, since it began
  activated,  \* names where it has been active since the run took up a tenant
  mayCreate, changes, faults

fanoutVars == <<db, fanout, steady, activated, mayCreate, changes, faults>>

Missing == [exists |-> FALSE, connect |-> FALSE, schema |-> NoSchema]
NoRun == [mode |-> "none", pc |-> "idle", todo |-> {}, slug |-> << >>, from |-> NoSchema,
          migrated |-> {}, skipped |-> {}, failures |-> {}, result |-> "none"]

-----------------------------------------------------------------------------
(* adminAndPattern, escapeLike and Resolve. *)

Like(name) ==
  /\ Len(name) >= Len(Prefix) + Len(Suffix)
  /\ SubSeq(name, 1, Len(Prefix)) = Prefix
  /\ SubSeq(name, Len(name) - Len(Suffix) + 1, Len(name)) = Suffix

\* TrimPrefix and TrimSuffix leave alone what does not match.
Trimmed(name) ==
  LET p == Len(Prefix)
      s == Len(Suffix)
      start == IF SubSeq(name, 1, p) = Prefix THEN p + 1 ELSE 1
      end == IF SubSeq(name, Len(name) - s + 1, Len(name)) = Suffix THEN Len(name) - s ELSE Len(name)
  IN SubSeq(name, start, end)

ValidSlug(slug) == slug # << >> /\ \A i \in DOMAIN slug : slug[i] \in SlugAlphabet
Resolve(slug) == Prefix \o slug \o Suffix

\* A database with the name of a tenant's is one.
ASSUME NamingAssumption ==
  \A name \in Others : \A i, j \in 1 .. Len(name) :
    ValidSlug(SubSeq(name, i, j)) => Resolve(SubSeq(name, i, j)) # name

\* enumerateTenants.
Enumerate(onlyConnectable) ==
  LET there == Others \cup {n \in Names : db[n].exists /\ (onlyConnectable => db[n].connect)}
  IN {slug \in {Trimmed(name) : name \in {n \in there : Like(n)}} : ValidSlug(slug)}

\* What a connection to a slug's database meets.
Reached(slug) == IF Resolve(slug) \in Names THEN db[Resolve(slug)] ELSE Missing

\* How far the provisioner may have come with a database.
Stages ==
  {Missing} \cup {[exists |-> TRUE, connect |-> c, schema |-> v] :
                   c \in BOOLEAN, v \in {NoSchema} \cup 0 .. Target}

Active(state) == state.exists /\ state.connect /\ state.schema # NoSchema

-----------------------------------------------------------------------------
FanoutInit ==
  /\ db \in [Names -> Stages]
  /\ fanout = NoRun
  /\ steady = {} /\ activated = {}
  /\ mayCreate \in MayCreate
  /\ changes = 0 /\ faults = 0

\* The ghosts follow the databases; a name in disturbed is not steady any more.
Observe(disturbed) ==
  /\ steady' = {n \in steady \ disturbed : Active(db'[n])}
  /\ activated' = activated \cup {n \in Names : Active(db'[n])}

Runs == UNCHANGED <<mayCreate, changes>>
Faultless == UNCHANGED faults
Fault == faults < MaxFaults /\ faults' = faults + 1

Start(mode) ==
  /\ fanout.pc = "idle"
  /\ fanout' = [NoRun EXCEPT !.mode = mode, !.pc = "list"]
  /\ steady' = {n \in Names : Active(db[n])} /\ activated' = steady'
  /\ Runs /\ Faultless /\ UNCHANGED db

\* TenantsWithSchema lists only what it may connect to, MigrateAll lists all.
List ==
  /\ fanout.pc = "list"
  /\ fanout' = [fanout EXCEPT !.pc = "next", !.todo = Enumerate(fanout.mode = "discover")]
  /\ UNCHANGED db /\ Observe({}) /\ Runs /\ Faultless

\* The listing fails, or the template has no {slug} in the database's name.
ListFails ==
  /\ fanout.pc = "list" /\ Fault
  /\ fanout' = [fanout EXCEPT !.pc = "idle", !.result = "unlisted"]
  /\ UNCHANGED db /\ Observe(Names) /\ Runs

\* The loop goes on with another tenant, whatever became of this one.
Next1(record) == [record EXCEPT !.pc = "next", !.slug = << >>, !.from = NoSchema]

\* Mutant: the first failure ends the run.
FailAndReturn(slug) ==
  fanout' = [Next1(fanout) EXCEPT !.failures = @ \cup {slug}, !.todo = {}]

Fail(slug) == fanout' = [Next1(fanout) EXCEPT !.failures = @ \cup {slug}]
Skip(slug) == fanout' = [Next1(fanout) EXCEPT !.skipped = @ \cup {slug}]
Keep(slug) == fanout' = [Next1(fanout) EXCEPT !.migrated = @ \cup {slug}]

Take ==
  /\ fanout.pc = "next"
  /\ \E slug \in fanout.todo :
       fanout' = [fanout EXCEPT !.pc = "check", !.slug = slug, !.todo = @ \ {slug}]
  /\ activated' = {n \in Names : Active(db[n])}
  /\ UNCHANGED <<db, steady>> /\ Runs /\ Faultless

\* Mutant: a database one can connect to has the schema.
CheckConnects ==
  /\ fanout.pc = "check"
  /\ LET state == Reached(fanout.slug)
     IN IF ~(state.exists /\ state.connect) THEN Skip(fanout.slug)
        ELSE IF fanout.mode = "discover" THEN Keep(fanout.slug)
        ELSE fanout' = [fanout EXCEPT !.pc = "migrate"]
  /\ UNCHANGED db /\ Observe({}) /\ Runs /\ Faultless

\* hasSchema and notActivated: no database and no CONNECT are no failures.
Check ==
  /\ fanout.pc = "check"
  /\ LET state == Reached(fanout.slug)
     IN IF ~Active(state) THEN Skip(fanout.slug)
        ELSE IF fanout.mode = "discover" THEN Keep(fanout.slug)
        ELSE fanout' = [fanout EXCEPT !.pc = "migrate"]
  /\ UNCHANGED db /\ Observe({}) /\ Runs /\ Faultless

\* Any other error of the check, of opening, or of a migration.
StepFails ==
  /\ fanout.pc \in {"check", "migrate", "up"} /\ Fault
  /\ Fail(fanout.slug)
  /\ UNCHANGED db /\ Observe({Resolve(fanout.slug)}) /\ Runs

\* Migrate connects anew and looks for the schema again.
Migrate ==
  LET state == Reached(fanout.slug)
      name == Resolve(fanout.slug)
  IN /\ fanout.pc = "migrate"
     /\ IF \/ ~(state.exists /\ state.connect)
           \/ state.schema = NoSchema /\ ~mayCreate
        THEN Fail(fanout.slug) /\ UNCHANGED db
        ELSE LET from == IF state.schema = NoSchema THEN 0 ELSE state.schema
             IN /\ db' = [db EXCEPT ![name].schema = from]
                /\ fanout' = [fanout EXCEPT !.pc = "up", !.from = from]
     /\ Observe({}) /\ Runs /\ Faultless

\* goose.Up (external): each pending migration in a transaction of its own,
\* which fails where another process applied it meanwhile.
Up ==
  LET state == Reached(fanout.slug)
      name == Resolve(fanout.slug)
  IN /\ fanout.pc = "up"
     /\ IF fanout.from = Target THEN Keep(fanout.slug) /\ UNCHANGED db
        ELSE IF state.schema # fanout.from THEN Fail(fanout.slug) /\ UNCHANGED db
        ELSE /\ db' = [db EXCEPT ![name].schema = @ + 1]
             /\ fanout' = [fanout EXCEPT !.from = @ + 1]
     /\ Observe({}) /\ Runs /\ Faultless

\* MigrateAll tells of all failures at the end; TenantsWithSchema only logs them.
Finish ==
  /\ fanout.pc = "next" /\ fanout.todo = {}
  /\ fanout' = [fanout EXCEPT !.pc = "idle",
       !.result = IF fanout.failures # {} /\ fanout.mode = "migrate" THEN "failed" ELSE "done"]
  /\ UNCHANGED db /\ Observe({}) /\ Runs /\ Faultless

-----------------------------------------------------------------------------
\* The Shell (external) creates and drops databases, grants and revokes CONNECT,
\* creates and drops schemas, and its Job migrates what it activates.
Provision(name) ==
  LET state == db[name]
      to(new) == db' = [db EXCEPT ![name] = new]
  IN /\ changes < MaxChanges /\ changes' = changes + 1
     /\ \/ ~state.exists /\ to([Missing EXCEPT !.exists = TRUE])
        \/ state.exists /\ fanout.pc # "up" /\ to(Missing)
        \/ state.exists /\ to([state EXCEPT !.connect = ~@])
        \/ state.connect /\ state.schema = NoSchema /\ to([state EXCEPT !.schema = 0])
        \/ state.connect /\ state.schema \in 0 .. Target - 1 /\ to([state EXCEPT !.schema = @ + 1])
        \/ state.schema # NoSchema /\ to([state EXCEPT !.schema = NoSchema])
     /\ Observe({name})
     /\ UNCHANGED <<fanout, mayCreate, faults>>

FanoutNext ==
  \/ \E mode \in {"migrate", "discover"} : Start(mode)
  \/ List \/ ListFails \/ Take \/ Check \/ StepFails \/ Migrate \/ Up \/ Finish
  \/ \E name \in Names : Provision(name)

FanoutSpec == FanoutInit /\ [][FanoutNext]_fanoutVars

-----------------------------------------------------------------------------
Ended == fanout.result # "none"

\* "A single broken tenant should not hide the state of the rest": when a run
\* ends, however it ends, every tenant where the module was active all along
\* and nothing failed is at the last migration, or in the sweep
\* (discover.go:127-130, 99-100).
FailureHidesNothing ==
  Ended => \A name \in steady :
    Like(name) /\ ValidSlug(Trimmed(name)) =>
      /\ Trimmed(name) \in fanout.migrated
      /\ fanout.mode = "migrate" => db[name].schema = Target

\* Creating the schema is activating the module, which is the provisioner's to
\* decide (discover.go:165-170): a database gets none where the module has not
\* been active since the loop came to it, not even from a role that could create
\* it. Where it was, and was taken back between hasSchema and Migrate, the hook
\* does create it again (base.go:182), which is excused here, and only that.
NeverActivates ==
  [][\A name \in Names :
       fanout # fanout' /\ db[name].schema = NoSchema /\ db'[name].schema # NoSchema
         => name \in activated]_fanoutVars

\* A run reports on tenants, each in one list only, and on no other database
\* that happens to look like one; and success means that none failed
\* (discover.go:302-318, 190-197).
ReportsOnTenants ==
  LET lists == <<fanout.todo, fanout.migrated, fanout.skipped, fanout.failures>>
  IN /\ \A i, j \in DOMAIN lists : i # j => lists[i] \cap lists[j] = {}
     /\ \A i \in DOMAIN lists : \A slug \in lists[i] : Resolve(slug) \in Names
     /\ fanout.result = "done" /\ fanout.mode = "migrate" =>
          fanout.failures = {}

\* What a run over all tenants says at its end, whichever of them failed,
\* vanished or was activated under it.
EveryTenantIsTold == FailureHidesNothing /\ ReportsOnTenants

TenantNames == {name \in Names : Like(name) /\ ValidSlug(Trimmed(name))}
TenantSlugs == {Trimmed(name) : name \in TenantNames}
SchemaVersions == {NoSchema} \cup 0 .. Target

AnyDatabase == [exists : BOOLEAN, connect : BOOLEAN, schema : SchemaVersions]
AnyRun ==
  [mode : {"none", "migrate", "discover"}, pc : {"idle", "list", "next", "check", "migrate", "up"},
   todo : SUBSET TenantSlugs, slug : TenantSlugs \cup {<< >>}, from : SchemaVersions,
   migrated : SUBSET TenantSlugs, skipped : SUBSET TenantSlugs, failures : SUBSET TenantSlugs,
   result : {"none", "unlisted", "failed", "done"}]

FanoutTypeOK ==
  /\ db \in [Names -> AnyDatabase]
  /\ fanout \in AnyRun
  /\ steady \subseteq {name \in Names : Active(db[name])}
  /\ activated \subseteq Names

InHand == fanout.pc \in {"check", "migrate", "up"}

\* A tenant is in one list, or in hand.
OneList ==
  /\ fanout.todo \cap (fanout.migrated \cup fanout.skipped \cup fanout.failures) = {}
  /\ fanout.migrated \cap (fanout.skipped \cup fanout.failures) = {}
  /\ fanout.skipped \cap fanout.failures = {}
  /\ InHand => /\ fanout.slug \in TenantSlugs
               /\ fanout.slug \notin fanout.todo \cup fanout.migrated \cup fanout.skipped
                                        \cup fanout.failures

\* A tenant whose module stays active is to do, in hand, or done.
NobodyIsLost ==
  \A name \in steady \cap TenantNames :
    /\ fanout.pc \in {"next", "check", "migrate", "up"} \/ fanout.result \in {"done", "failed"} =>
         \/ Trimmed(name) \in fanout.todo \cup fanout.migrated
         \/ InHand /\ fanout.slug = Trimmed(name)
    /\ Trimmed(name) \in fanout.migrated /\ fanout.mode = "migrate" => db[name].schema = Target

\* How far a run is, and what it has seen of the tenant in hand.
RunShape ==
  /\ IF fanout.pc = "idle"
     THEN /\ fanout.todo = {}
          /\ fanout.result \in {"none", "unlisted"} => steady = {}
          /\ fanout.result = "done" /\ fanout.mode = "migrate" => fanout.failures = {}
     ELSE fanout.result = "none" /\ fanout.mode # "none"
  /\ fanout.pc = "list" =>
       fanout.todo \cup fanout.migrated \cup fanout.skipped \cup fanout.failures = {}
  /\ fanout.pc \in {"migrate", "up"} =>
       fanout.mode = "migrate" /\ Resolve(fanout.slug) \in activated
  /\ fanout.pc = "up" =>
       /\ fanout.from \in 0 .. Target
       /\ Resolve(fanout.slug) \in steady => db[Resolve(fanout.slug)].schema = fanout.from

FanoutInv == FanoutTypeOK /\ OneList /\ NobodyIsLost /\ RunShape
=============================================================================
