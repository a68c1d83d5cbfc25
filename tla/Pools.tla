------------------------------- MODULE Pools -------------------------------
(***************************************************************************)
(* The registry of per-tenant connection pools (tenancy/pools.go): a map   *)
(* and an LRU list under a mutex, pools dialled outside of it, a reaper,   *)
(* and Close. The list is kept as which entry is in front of which.        *)
(*                                                                         *)
(* Connections are external: a pool is open until its Close has run, and   *)
(* Close waits for the connections borrowed from it.                       *)
(***************************************************************************)
EXTENDS Naturals, FiniteSets

CONSTANTS
  Tenant,
  Caller,    \* goroutines that resolve a tenant's pool
  Limit,     \* NewPools' limit, at least 1
  NoTenant,  \* what is no tenant
  IdleClose, \* Settings.IdleClose, in units of time
  MaxPools   \* bound: pools open, or in a caller's hands, at one time

ASSUME PoolsAssumption ==
  /\ Limit \in Nat \ {0}
  /\ IdleClose \in Nat \ {0}
  /\ MaxPools \in Nat
  /\ NoTenant \notin Tenant

PoolId == 1 .. MaxPools

VARIABLES
  entries,   \* Pools.entries: the pool of each tenant, 0 for none
  front,     \* Pools.order: <<t, u>> when t's entry is in front of u's
  age,       \* time since lastUsed of each tenant, counted up to IdleClose
  closing,   \* pools whose Close is under way
  owner,     \* the tenant each pool was dialled for, until it is torn down
  step,      \* where each caller is
  tenant,    \* the tenant it asked for
  touch,     \* it called Get, not GetBackground
  pool,      \* the pool it has, 0 for none
  shutdown   \* Close: "no", "locked" while it holds the mutex, "done"

callerVars == <<step, tenant, touch, pool>>
vars == <<entries, front, age, closing, owner, callerVars, shutdown>>

Has(t) == entries[t] # 0
Known == {t \in Tenant : Has(t)}
Registered == {entries[t] : t \in Known}
Opened == {p \in PoolId : owner[p] # NoTenant}

\* Connections borrowed from pool p.
Borrowed(p) == \E c \in Caller : step[c] = "query" /\ pool[c] = p

\* The list without the tenants in S, and the same behind an entry of t.
Without(S) == {pair \in front : pair[1] \notin S /\ pair[2] \notin S}
InFront(t, S) == {<<t, u>> : u \in Known \ ({t} \cup S)} \cup Without({t} \cup S)

\* The ages once the tenants in S are stamped, or have no entry any more.
Fresh(S) == [t \in Tenant |-> IF t \in S THEN 0 ELSE age[t]]

Init ==
  /\ entries = [t \in Tenant |-> 0]
  /\ front = {}
  /\ age = [t \in Tenant |-> 0]
  /\ closing = {}
  /\ owner = [p \in PoolId |-> NoTenant]
  /\ step = [c \in Caller |-> "idle"]
  /\ tenant = [c \in Caller |-> NoTenant]
  /\ touch = [c \in Caller |-> FALSE]
  /\ pool = [c \in Caller |-> 0]
  /\ shutdown = "no"

---------------------------------------------------------------------------
(* Pools.get.                                                              *)

Free == shutdown # "locked"

\* A use moves the tenant's entry to the front and stamps it.
Touched(t) ==
  /\ front' = InFront(t, {})
  /\ age' = [age EXCEPT ![t] = 0]

Untouched == UNCHANGED <<front, age>>

\* A look that counts as use whoever looks.
HitStamps(c, t, use) ==
  /\ step[c] = "idle" /\ Free
  /\ Has(t)
  /\ Touched(t)
  /\ step' = [step EXCEPT ![c] = "hold"]
  /\ tenant' = [tenant EXCEPT ![c] = t]
  /\ touch' = [touch EXCEPT ![c] = use]
  /\ pool' = [pool EXCEPT ![c] = entries[t]]
  /\ UNCHANGED <<entries, closing, owner, shutdown>>

\* The first look, under the mutex, finds the pool.
Hit(c, t, use) ==
  /\ step[c] = "idle" /\ Free
  /\ Has(t)
  /\ IF use THEN Touched(t) ELSE Untouched
  /\ step' = [step EXCEPT ![c] = "hold"]
  /\ tenant' = [tenant EXCEPT ![c] = t]
  /\ touch' = [touch EXCEPT ![c] = use]
  /\ pool' = [pool EXCEPT ![c] = entries[t]]
  /\ UNCHANGED <<entries, closing, owner, shutdown>>

Miss(c, t, use) ==
  /\ step[c] = "idle" /\ Free
  /\ ~ Has(t)
  /\ step' = [step EXCEPT ![c] = "dial"]
  /\ tenant' = [tenant EXCEPT ![c] = t]
  /\ touch' = [touch EXCEPT ![c] = use]
  /\ UNCHANGED <<entries, front, age, closing, owner, pool, shutdown>>

\* Resolve and connect, outside the mutex.
Unused == PoolId \ (Opened \cup Registered \cup {pool[c] : c \in Caller})

Dial(c) ==
  /\ step[c] = "dial"
  /\ \E p \in Unused :
       /\ \A q \in Unused : p <= q
       /\ owner' = [owner EXCEPT ![p] = tenant[c]]
       /\ pool' = [pool EXCEPT ![c] = p]
  /\ step' = [step EXCEPT ![c] = "register"]
  /\ UNCHANGED <<entries, front, age, closing, tenant, touch, shutdown>>

\* The caller is done with the registry and with the pool.
Leave(c) ==
  /\ step' = [step EXCEPT ![c] = "idle"]
  /\ tenant' = [tenant EXCEPT ![c] = NoTenant]
  /\ touch' = [touch EXCEPT ![c] = FALSE]
  /\ pool' = [pool EXCEPT ![c] = 0]
  /\ UNCHANGED <<entries, front, age, closing, owner, shutdown>>

\* Either fails; a pool that does not answer the ping was closed again.
DialFailed(c) == step[c] = "dial" /\ Leave(c)

\* A second look that forgets to close the pool it does not need.
KeepBoth(c) ==
  /\ step[c] = "register" /\ Free
  /\ Has(tenant[c])
  /\ IF touch[c] THEN Touched(tenant[c]) ELSE Untouched
  /\ pool' = [pool EXCEPT ![c] = entries[tenant[c]]]
  /\ step' = [step EXCEPT ![c] = "hold"]
  /\ UNCHANGED <<entries, closing, owner, tenant, touch, shutdown>>

\* The second look finds that another caller was faster: keep theirs.
KeepTheirs(c) ==
  /\ step[c] = "register" /\ Free
  /\ Has(tenant[c])
  /\ IF touch[c] THEN Touched(tenant[c]) ELSE Untouched
  /\ owner' = [owner EXCEPT ![pool[c]] = NoTenant]
  /\ pool' = [pool EXCEPT ![c] = entries[tenant[c]]]
  /\ step' = [step EXCEPT ![c] = "hold"]
  /\ UNCHANGED <<entries, closing, tenant, touch, shutdown>>

\* The entries evictLocked closes once the new one is in front: the last one
\* when the registry was full, since it never holds more than its limit.
Evicts(S) ==
  IF Cardinality(Known) < Limit THEN S = {}
  ELSE \E last \in Known : S = {last} /\ \A t \in Known \ {last} : <<t, last>> \in front

\* A registration that, at the limit, hands the oldest entry to the new tenant.
RegisterReuses(c) ==
  /\ step[c] = "register" /\ Free
  /\ ~ Has(tenant[c])
  /\ \E S \in SUBSET Known :
       /\ Evicts(S)
       /\ \E kept \in IF S = {} THEN {pool[c]} ELSE {entries[t] : t \in S} :
            /\ entries' = [t \in Tenant |->
                 IF t = tenant[c] THEN kept ELSE IF t \in S THEN 0 ELSE entries[t]]
            /\ pool' = [pool EXCEPT ![c] = kept]
            /\ owner' = [p \in PoolId |-> IF p = pool[c] /\ p # kept THEN NoTenant ELSE owner[p]]
       /\ front' = InFront(tenant[c], S)
  /\ age' = [t \in Tenant |-> 0]
  /\ step' = [step EXCEPT ![c] = "hold"]
  /\ UNCHANGED <<closing, tenant, touch, shutdown>>

\* ... or registers the pool, and evicts what is past the limit (evictLocked).
Register(c) ==
  /\ step[c] = "register" /\ Free
  /\ ~ Has(tenant[c])
  /\ \E S \in SUBSET Known :
       /\ Evicts(S)
       /\ entries' = [t \in Tenant |->
            IF t = tenant[c] THEN pool[c] ELSE IF t \in S THEN 0 ELSE entries[t]]
       /\ front' = InFront(tenant[c], S)
       /\ closing' = closing \cup {entries[t] : t \in S}
       /\ age' = Fresh({tenant[c]} \cup S)
  /\ step' = [step EXCEPT ![c] = "hold"]
  /\ UNCHANGED <<owner, tenant, touch, pool, shutdown>>

---------------------------------------------------------------------------
(* What callers do with a pool (pgxpool).                                  *)

\* A pool that is being closed, or was, lends no connection.
Lends(p) == p \in Opened \ closing

Borrow(c) ==
  /\ step[c] = "hold"
  /\ Lends(pool[c])
  /\ step' = [step EXCEPT ![c] = "query"]
  /\ UNCHANGED <<entries, front, age, closing, owner, tenant, touch, pool, shutdown>>

BorrowFailed(c) == step[c] = "hold" /\ ~ Lends(pool[c]) /\ Leave(c)

\* A connection handed back through the registry, under its mutex.
ReturnLocked(c) == step[c] = "query" /\ Free /\ Leave(c)

Return(c) == step[c] = "query" /\ Leave(c)

\* The pool is torn down once its connections are back.
Teardown(p) ==
  /\ p \in closing
  /\ ~ Borrowed(p)
  /\ owner' = [owner EXCEPT ![p] = NoTenant]
  /\ closing' = closing \ {p}
  /\ UNCHANGED <<entries, front, age, callerVars, shutdown>>

---------------------------------------------------------------------------
(* The reaper and Close.                                                   *)

\* A unit of time goes by for a tenant's entry.
Age(t) ==
  /\ Has(t) /\ age[t] < IdleClose
  /\ age' = [age EXCEPT ![t] = @ + 1]
  /\ UNCHANGED <<entries, front, closing, owner, callerVars, shutdown>>

Idle == {t \in Known : age[t] >= IdleClose /\ ~ Borrowed(entries[t])}

\* reapIdle, one pass of the reaper; Close stops it.
ReapIdle ==
  /\ shutdown = "no"
  /\ Idle # {}
  /\ entries' = [t \in Tenant |-> IF t \in Idle THEN 0 ELSE entries[t]]
  /\ front' = Without(Idle)
  /\ age' = Fresh(Idle)
  /\ closing' = closing \cup {entries[t] : t \in Idle}
  /\ UNCHANGED <<owner, callerVars, shutdown>>

\* Close takes the mutex and keeps it until every pool is closed ...
CloseLock ==
  /\ shutdown = "no"
  /\ shutdown' = "locked"
  /\ UNCHANGED <<entries, front, age, closing, owner, callerVars>>

\* ... one after the other, each waiting for its connections to come back ...
CloseOne ==
  /\ shutdown = "locked"
  /\ Registered \cap closing = {}
  /\ \E p \in Registered \cap Opened : closing' = closing \cup {p}
  /\ UNCHANGED <<entries, front, age, owner, callerVars, shutdown>>

\* ... and forgets them all.
CloseDone ==
  /\ shutdown = "locked"
  /\ Registered \cap Opened = {}
  /\ entries' = [t \in Tenant |-> 0]
  /\ front' = {}
  /\ age' = [t \in Tenant |-> 0]
  /\ shutdown' = "done"
  /\ UNCHANGED <<closing, owner, callerVars>>

---------------------------------------------------------------------------
Get(c) ==
  \/ \E t \in Tenant, use \in BOOLEAN : Hit(c, t, use) \/ Miss(c, t, use)
  \/ Dial(c)
  \/ DialFailed(c)
  \/ KeepTheirs(c)
  \/ Register(c)

Use(c) == Borrow(c) \/ BorrowFailed(c) \/ Return(c)

Next ==
  \/ \E c \in Caller : Get(c) \/ Use(c)
  \/ \E p \in closing : Teardown(p)
  \/ \E t \in Tenant : Age(t)
  \/ ReapIdle
  \/ CloseLock
  \/ CloseOne
  \/ CloseDone

Spec == Init /\ [][Next]_vars

\* Goroutines run on and give back what they borrow, time passes, and the
\* reaper finds an idle tenant between two of its uses.
Fairness ==
  /\ \A c \in Caller :
       /\ WF_vars(Dial(c) \/ DialFailed(c))
       /\ SF_vars(KeepTheirs(c) \/ Register(c))
       /\ WF_vars(Use(c))
  /\ \A t \in Tenant : WF_vars(Age(t)) /\ SF_vars(ReapIdle /\ ~ Has(t)')
  /\ \A p \in PoolId : WF_vars(Teardown(p))
  /\ WF_vars(CloseOne)
  /\ WF_vars(CloseDone)

FairSpec == Spec /\ Fairness

---------------------------------------------------------------------------
(* Properties.                                                             *)

TypeOK ==
  /\ entries \in [Tenant -> PoolId \cup {0}]
  /\ front \subseteq Known \X Known
  /\ age \in [Tenant -> 0 .. IdleClose]
  /\ owner \in [PoolId -> Tenant \cup {NoTenant}]
  /\ closing \subseteq Opened
  /\ step \in [Caller -> {"idle", "dial", "register", "hold", "query"}]
  /\ tenant \in [Caller -> Tenant \cup {NoTenant}]
  /\ touch \in [Caller -> BOOLEAN]
  /\ pool \in [Caller -> PoolId \cup {0}]
  /\ shutdown \in {"no", "locked", "done"}

\* "The tenant boundary is the database" (Pools): whoever else was dialling,
\* evicting or reaping meanwhile, the pool get returns was dialled for the
\* tenant it was asked for, unless it has been torn down since.
Isolation ==
  \A c \in Caller :
    step[c] \in {"hold", "query"} /\ pool[c] \in Opened => owner[pool[c]] = tenant[c]

\* "So a tenant never has two live pools" (Pools.get), and the registry never
\* holds more than its limit.
OneLivePool ==
  /\ Cardinality(Known) <= Limit
  /\ \A p, q \in Registered : owner[p] = owner[q] /\ owner[p] # NoTenant => p = q

\* Every open pool is in the registry, being closed, or about to be registered
\* by the caller that dialled it: none of the races between two dials, an
\* eviction, a reaping and Close leaves one that nobody will ever close.
NoLeak ==
  \A p \in Opened :
    \/ p \in Registered \cup closing
    \/ \E c \in Caller : step[c] = "register" /\ pool[c] = p

\* "Close releases every pool" (Pools.Close): once it has returned the registry
\* holds none that is not being closed.  What a dial under way still has in its
\* own hands is no pool of the registry.
CloseReleases == shutdown = "done" => Registered \subseteq closing

\* What remains of a tenant's use is the relay's: one goroutine, GetBackground.
OnlyPolled(t) ==
  /\ \A c \in Caller : tenant[c] = t => ~ touch[c]
  /\ \A c, d \in Caller : tenant[c] = t /\ tenant[d] = t => c = d

\* "It does not count as use, so a tenant with no real traffic still releases
\* its pool even though the relay polls it every few seconds" (GetBackground).
IdleIsReleased ==
  \A t \in Tenant : <>[]OnlyPolled(t) => []<>(~ Has(t) \/ shutdown # "no")

\* Close, which holds the mutex while it waits for borrowed connections, ends.
CloseFinishes == shutdown = "locked" ~> shutdown = "done"

\* The registry, whoever dials, evicts, reaps and closes at the same time: one
\* live pool a tenant, no more than the limit, none that nobody closes.
RegistryInv == TypeOK /\ OneLivePool /\ NoLeak

\* What keeps both: a pool on its way into the registry is in one caller's hands
\* only, a pool in use is its caller's tenant's or nobody's any more ...
CallerOK(c) ==
  /\ step[c] \in {"idle", "dial"} => pool[c] = 0
  /\ step[c] # "idle" => tenant[c] \in Tenant
  /\ step[c] \in {"register", "hold", "query"} =>
       pool[c] \in PoolId /\ owner[pool[c]] \in {tenant[c], NoTenant}
  /\ step[c] = "register" =>
       /\ owner[pool[c]] = tenant[c]
       /\ pool[c] \notin Registered \cup closing
       /\ \A d \in Caller \ {c} : pool[d] # pool[c]

CallersOK == \A c \in Caller : CallerOK(c)

\* ... and a registered pool is its tenant's alone, and is not being closed as
\* long as somebody may look it up.
RegistryOK ==
  /\ IsFiniteSet(Known) /\ Cardinality(Known) <= Limit
  /\ \A t, u \in Known : entries[t] = entries[u] => t = u
  /\ \A t \in Known : owner[entries[t]] \in {t, NoTenant}
  /\ Free => \A t \in Known : owner[entries[t]] = t /\ entries[t] \notin closing

PoolsInv == TypeOK /\ CallersOK /\ RegistryOK /\ NoLeak
===========================================================================
