---------------------------- MODULE RelaySweep ----------------------------
(***************************************************************************)
(* When a relay drains which tenant: Relay.Run with its adaptive schedule  *)
(* (outbox/relay.go, outbox/schedule.go), the wake-up a commit sends it    *)
(* (tenancy/outboxwake.go, tenancy/base.go) and the discovery of the       *)
(* tenants to sweep (outbox/discover.go), in one process.                  *)
(*                                                                         *)
(* Draining one tenant, row by row and replica against replica, is the     *)
(* module Outbox; here a drain is the read of the batch and its outcome.   *)
(* Time is counted in units that divide every duration; only what is left  *)
(* of a wait is kept, so a behaviour can run for ever.                     *)
(***************************************************************************)
EXTENDS Naturals, FiniteSets

CONSTANTS
  Tenant,
  Base,           \* Config.Interval
  IdleMax,        \* Config.IdleInterval
  Discovering,    \* Config.Discover is set
  DiscoverEvery,  \* Config.DiscoverEvery
  EarlyGap,       \* earlyRefreshGap
  ExtraTenants,   \* Config.ExtraTenants
  Commits,        \* how the transactions of this instance commit, of CommitKind
  Backlog,        \* an earlier process left unpublished events behind
  Batch,          \* Config.Batch
  MaxPending      \* bound: unpublished events of one tenant

\* A commit is announced when it wrote through Store.Insert.  It is not when it
\* wrote through Store.InsertWith, which marks nothing, and it is "unseen" when
\* this relay cannot know: the reply to COMMIT was lost, or another process
\* committed it.
CommitKind == {"Insert", "InsertWith", "unseen"}

ASSUME SweepAssumption ==
  /\ Base \in Nat \ {0}
  /\ IdleMax \in Nat
  /\ Discovering \in BOOLEAN
  /\ DiscoverEvery \in Nat
  /\ EarlyGap \in Nat
  /\ ExtraTenants \subseteq Tenant
  /\ Commits \subseteq CommitKind
  /\ Backlog \in BOOLEAN
  /\ Batch \in Nat \ {0}
  /\ MaxPending \in Nat

VARIABLES
  activated,    \* tenants where the Core's schema exists
  pending,      \* committed unpublished events of each tenant
  announced,    \* history: tenants with events since a commit was announced
  live,         \* tenants with a live pool: Pools.KnownTenants
  hook,         \* notifyOutbox of each tenant: "idle", or about to "flag" the
                \* tenant, or to "signal" the loop
  woken,        \* sweepSchedule.woken
  wakeCh,       \* the one slot of Relay.wakeCh
  ticker,       \* the one slot of the ticker's channel
  interval,     \* tenantSweep.interval, 0 where the schedule has no entry
  left,         \* time until tenantSweep.next
  streamReady,
  pc,           \* where Run is
  byWake,       \* the sweep under way was started by wakeCh
  flagged,      \* what takeWoken returned to it
  todo,         \* the tenants it has still to drain
  cur,          \* the one it is draining, if any
  rows, busy,   \* what that drain fetched; what it will report
  active, ok, since, soon, suspect, failing  \* Relay.disc

tenantVars == <<activated, pending, announced, live>>
wakeVars == <<hook, woken, wakeCh>>
schedVars == <<interval, left>>
discVars == <<active, ok, since, soon, suspect, failing>>
loopVars == <<pc, byWake, flagged, todo, cur, rows, busy>>
vars == <<tenantVars, wakeVars, ticker, schedVars, streamReady, loopVars, discVars>>

Least(a, b) == IF a <= b THEN a ELSE b

Init ==
  /\ activated \in SUBSET Tenant
  /\ pending \in [Tenant -> IF Backlog THEN 0 .. MaxPending ELSE {0}]
  /\ \A t \in Tenant \ activated : pending[t] = 0
  /\ announced = {}
  /\ live = {}
  /\ hook = [t \in Tenant |-> "idle"]
  /\ woken = {}
  /\ wakeCh = FALSE
  /\ ticker = FALSE
  /\ interval = [t \in Tenant |-> 0]
  /\ left = [t \in Tenant |-> 0]
  /\ streamReady \in BOOLEAN  \* Connect may have made the stream
  /\ pc = "select"
  /\ byWake = FALSE
  /\ flagged = {}
  /\ todo = {}
  /\ cur = {}
  /\ rows = 0
  /\ busy = FALSE
  /\ active = {}
  /\ ok = FALSE
  /\ since = DiscoverEvery    \* never tried
  /\ soon = FALSE
  /\ suspect = {}
  /\ failing = {}

---------------------------------------------------------------------------
(* Request goroutines, the pool registry, the platform, time.              *)

\* Base.InTx commits a transaction that wrote an event (runTx); its pool is in
\* use, so it is live.
Commit(t, kind) ==
  /\ t \in activated
  /\ hook[t] = "idle"
  /\ pending[t] < MaxPending
  /\ pending' = [pending EXCEPT ![t] = @ + 1]
  /\ live' = live \cup {t}
  /\ hook' = [hook EXCEPT ![t] = IF kind = "Insert" THEN "flag" ELSE "idle"]
  /\ announced' = IF kind = "Insert" THEN announced \cup {t} ELSE announced
  /\ UNCHANGED <<activated, woken, wakeCh, ticker, schedVars, streamReady, loopVars, discVars>>

\* Relay.wake, on the committing goroutine: sweepSchedule.wake ...
Flag(t) ==
  /\ hook[t] = "flag"
  /\ woken' = woken \cup {t}
  /\ hook' = [hook EXCEPT ![t] = "signal"]
  /\ UNCHANGED <<tenantVars, wakeCh, ticker, schedVars, streamReady, loopVars, discVars>>

\* ... and the send on wakeCh, dropped when the slot is taken.
Signal(t) ==
  /\ hook[t] = "signal"
  /\ wakeCh' = TRUE
  /\ hook' = [hook EXCEPT ![t] = "idle"]
  /\ UNCHANGED <<tenantVars, woken, ticker, schedVars, streamReady, loopVars, discVars>>

\* The registry closes a pool: the least recently used one past the limit, or
\* one no request used for IdleClose.
ClosePool(t) ==
  /\ t \in live
  /\ live' = live \ {t}
  /\ UNCHANGED <<activated, pending, announced, wakeVars, ticker, schedVars, streamReady, loopVars, discVars>>

\* The platform activates the Core for a tenant, or drops its schema.
Activate(t) ==
  /\ t \notin activated
  /\ activated' = activated \cup {t}
  /\ UNCHANGED <<pending, announced, live, wakeVars, ticker, schedVars, streamReady, loopVars, discVars>>

Deactivate(t) ==
  /\ t \in activated
  /\ activated' = activated \ {t}
  /\ pending' = [pending EXCEPT ![t] = 0]
  /\ announced' = announced \ {t}
  /\ UNCHANGED <<live, wakeVars, ticker, schedVars, streamReady, loopVars, discVars>>

\* A unit of time goes by, and the ticker fires at its own pace.
Elapse ==
  /\ left' = [t \in Tenant |-> IF left[t] = 0 THEN 0 ELSE left[t] - 1]
  /\ since' = Least(since + 1, DiscoverEvery)
  /\ ticker' \in {ticker, TRUE}
  /\ UNCHANGED <<tenantVars, wakeVars, interval, streamReady, loopVars,
                 active, ok, soon, suspect, failing>>

---------------------------------------------------------------------------
(* Discovery.                                                              *)

\* A discovery that is content with its first success.
NotYet == ~ ok

\* Relay.refresh returns early between two refreshes.
RefreshDue == since >= DiscoverEvery \/ (soon /\ since >= EarlyGap)

\* An adopt that never forgets a tenant.
AdoptMore(found) ==
  /\ active' = active \cup found
  /\ ok' = TRUE
  /\ suspect' = {}
  /\ failing' = (failing \cup suspect) \cap active'

\* Relay.adopt: what Discover found.  It may miss a tenant whose database did
\* not answer, never name one that is not activated.
Adopt(found) ==
  /\ active' = found
  /\ ok' = TRUE
  /\ suspect' = {}
  /\ failing' = (failing \cup suspect) \cap found

Refresh ==
  /\ since' = 0
  /\ soon' = FALSE
  /\ \/ UNCHANGED <<active, ok, suspect, failing>>
     \/ \E found \in SUBSET activated : Adopt(found)

\* Relay.tenants, after the refresh.
Swept == IF Discovering /\ ok THEN active ELSE live \cup ExtraTenants

---------------------------------------------------------------------------
(* Run and sweep.                                                          *)

TakeTick ==
  /\ pc = "select"
  /\ ticker
  /\ ticker' = FALSE
  /\ byWake' = FALSE
  /\ pc' = "take"
  /\ UNCHANGED <<tenantVars, wakeVars, schedVars, streamReady,
                 flagged, todo, cur, rows, busy, discVars>>

TakeWake ==
  /\ pc = "select"
  /\ wakeCh
  /\ wakeCh' = FALSE
  /\ byWake' = TRUE
  /\ pc' = "take"
  /\ UNCHANGED <<tenantVars, hook, woken, ticker, schedVars, streamReady,
                 flagged, todo, cur, rows, busy, discVars>>

\* ensureStream fails and the sweep ends before it takes any flag.
NoStream ==
  /\ pc = "take"
  /\ ~ streamReady
  /\ pc' = "select"
  /\ UNCHANGED <<tenantVars, wakeVars, ticker, schedVars, streamReady,
                 byWake, flagged, todo, cur, rows, busy, discVars>>

\* takeWoken.  A woken sweep drains the flagged tenants and no other.
TakeWoken ==
  /\ pc = "take"
  /\ streamReady' = TRUE
  /\ woken' = {}
  /\ IF byWake
     THEN todo' = woken /\ pc' = "sweep" /\ UNCHANGED flagged
     ELSE flagged' = woken /\ pc' = "list" /\ UNCHANGED todo
  /\ UNCHANGED <<tenantVars, hook, wakeCh, ticker, schedVars, byWake, cur, rows, busy, discVars>>

\* sweepSchedule.due: a tenant without an entry has no wait left either.
Due(t) == left[t] = 0

\* sweepSchedule.prune: no entry for the tenants that are not swept.
Prune(kept) ==
  /\ interval' = [t \in Tenant |-> IF t \in kept THEN interval[t] ELSE 0]
  /\ left' = [t \in Tenant |-> IF t \in kept THEN left[t] ELSE 0]

\* A tick that looks at the due tenants only.
ListDue ==
  /\ pc = "list"
  /\ IF Discovering /\ RefreshDue THEN Refresh ELSE UNCHANGED discVars
  /\ pc' = "sweep"
  /\ UNCHANGED <<tenantVars, wakeVars, ticker, streamReady, byWake, cur, rows, busy>>
  /\ Prune(Swept')
  /\ todo' = {t \in Swept' : Due(t)}
  /\ flagged' = {}

\* The tenants a tick sweeps: refresh, prune, and the ones flagged or due.
List ==
  /\ pc = "list"
  /\ IF Discovering /\ RefreshDue THEN Refresh ELSE UNCHANGED discVars
  /\ pc' = "sweep"
  /\ UNCHANGED <<tenantVars, wakeVars, ticker, streamReady, byWake, cur, rows, busy>>
  /\ Prune(Swept')
  /\ todo' = {t \in Swept' : t \in flagged \/ Due(t)}
  /\ flagged' = {}

\* drain reads the tenant's outbox: fetchOK.
FetchOK(t) ==
  /\ pc = "sweep" /\ t \in todo /\ t \in activated
  /\ cur' = {t}
  /\ rows' = Least(pending[t], Batch)
  /\ busy' = (pending[t] > 0)
  /\ live' = live \cup {t}
  /\ suspect' = suspect \ {t}
  /\ failing' = failing \ {t}
  /\ pc' = "drain"
  /\ UNCHANGED <<activated, pending, announced, wakeVars, ticker, schedVars, streamReady,
                 byWake, flagged, todo, active, ok, since, soon>>

\* It cannot, whether or not it got to open a pool: fetchFailed.
FetchFailed(t) ==
  /\ pc = "sweep" /\ t \in todo
  /\ cur' = {t}
  /\ rows' = 0
  /\ busy' = TRUE
  /\ live' \in {live, live \cup {t}}
  /\ IF Discovering /\ ok /\ t \notin failing
     THEN suspect' = suspect \cup {t} /\ soon' = TRUE
     ELSE UNCHANGED <<suspect, soon>>
  /\ pc' = "drain"
  /\ UNCHANGED <<activated, pending, announced, wakeVars, ticker, schedVars, streamReady,
                 byWake, flagged, todo, active, ok, since, failing>>

\* What done makes of a tenant's wait had.
NextWait(had) ==
  IF busy \/ IdleMax <= Base THEN Base
  ELSE Least(2 * (IF had = 0 THEN Base ELSE had), IdleMax)

\* The drain has published n of its rows and stopped; sweepSchedule.done.
Done(t, n) ==
  /\ pc = "drain" /\ t \in cur
  /\ pending' = [pending EXCEPT ![t] = @ - n]
  /\ announced' = {u \in announced : pending'[u] > 0}
  /\ interval' = [interval EXCEPT ![t] = NextWait(interval[t])]
  /\ left' = [left EXCEPT ![t] = NextWait(interval[t])]
  /\ todo' = todo \ {t}
  /\ cur' = {}
  /\ rows' = 0
  /\ busy' = FALSE
  /\ pc' = "sweep"
  /\ UNCHANGED <<activated, live, wakeVars, ticker, streamReady, byWake, flagged, discVars>>

DrainEnds(t) == \E n \in 0 .. Least(rows, pending[t]) : Done(t, n)

\* Every row of the batch went out.
Drained(t) == rows > 0 /\ Done(t, Least(rows, pending[t]))

SweepEnds ==
  /\ pc = "sweep"
  /\ todo = {}
  /\ pc' = "select"
  /\ UNCHANGED <<tenantVars, wakeVars, ticker, schedVars, streamReady,
                 byWake, flagged, todo, cur, rows, busy, discVars>>

---------------------------------------------------------------------------
Environment ==
  \/ \E t \in Tenant :
       \/ \E kind \in Commits : Commit(t, kind)
       \/ Flag(t)
       \/ Signal(t)
       \/ ClosePool(t)
       \/ Activate(t)
       \/ Deactivate(t)
  \/ Elapse

Run ==
  \/ TakeTick
  \/ TakeWake
  \/ NoStream
  \/ TakeWoken
  \/ List
  \/ SweepEnds
  \/ \E t \in Tenant : FetchOK(t) \/ FetchFailed(t) \/ DrainEnds(t)

Next == Environment \/ Run

Spec == Init /\ [][Next]_vars

\* Time passes, the loop and the committing goroutines run on, select does not
\* starve the ticker, and nothing fails for ever: the broker comes up, a
\* refresh sees every activated tenant, an outbox is read, a batch goes out.
Fairness ==
  /\ WF_vars(Elapse) /\ SF_vars(Elapse /\ ticker')
  /\ WF_vars(Run)
  /\ SF_vars(TakeTick)
  /\ SF_vars(TakeWoken)
  /\ SF_vars(List /\ RefreshDue /\ ok' /\ active' = activated)
  /\ \A t \in Tenant :
       /\ WF_vars(Flag(t))
       /\ WF_vars(Signal(t))
       /\ SF_vars(FetchOK(t))
       /\ SF_vars(Drained(t))

FairSpec == Spec /\ Fairness

---------------------------------------------------------------------------
(* Properties.                                                             *)

FlagsOK ==
  /\ wakeCh \in BOOLEAN /\ ticker \in BOOLEAN /\ streamReady \in BOOLEAN
  /\ byWake \in BOOLEAN /\ busy \in BOOLEAN /\ ok \in BOOLEAN /\ soon \in BOOLEAN

TypeOK ==
  /\ FlagsOK
  /\ activated \subseteq Tenant
  /\ pending \in [Tenant -> 0 .. MaxPending]
  /\ announced \subseteq {t \in Tenant : pending[t] > 0}
  /\ live \subseteq Tenant
  /\ hook \in [Tenant -> {"idle", "flag", "signal"}]
  /\ woken \subseteq Tenant
  /\ interval \in [Tenant -> Nat]
  /\ left \in [Tenant -> Nat]
  /\ pc \in {"select", "take", "list", "sweep", "drain"}
  /\ flagged \subseteq Tenant /\ todo \subseteq Tenant /\ cur \subseteq todo
  /\ rows \in 0 .. Batch
  /\ since \in 0 .. DiscoverEvery
  /\ active \subseteq Tenant /\ suspect \subseteq Tenant /\ failing \subseteq Tenant

\* The wait of a tenant is always between Config.Interval and
\* Config.IdleInterval (or Interval itself, where the backoff is off), and its
\* next sweep is never further away than that.
CadenceBounds ==
  \A t \in Tenant :
    /\ interval[t] # 0 => Base <= interval[t]
    /\ interval[t] <= Base \/ interval[t] <= IdleMax
    /\ left[t] <= interval[t]

\* A tick or a signal the loop has still to take, or has just taken, will find
\* this tenant's flag.
WillBeTaken(t) == t \in woken /\ (wakeCh \/ pc = "take" \/ ~ streamReady)

\* What the loop holds at each of its steps.
LoopShape ==
  /\ flagged # {} => pc = "list"
  /\ todo # {} => pc \in {"sweep", "drain"}
  /\ pc = "drain" <=> cur # {}
  /\ \A t, u \in cur : t = u
  /\ pc \in {"list", "sweep", "drain"} => streamReady

\* The loop has still to drain t, or is draining it and has seen its events.
Ahead(t) == t \in flagged \cup (todo \ cur) \/ (t \in cur /\ busy)

\* An announced tenant whose commit has flagged it: the flag is up or the loop
\* has it, unless the tenant is on its base cadence; a drain that found the
\* outbox empty before the commit counts for nothing.
Covered ==
  \A t \in announced :
    hook[t] # "flag" =>
      \/ t \in woken /\ hook[t] = "signal"
      \/ WillBeTaken(t)
      \/ Ahead(t)
      \/ left[t] <= Base /\ t \notin cur

\* The loop, if it sweeps t at all, will come to it within its base cadence.
Prompt(t) == WillBeTaken(t) \/ t \in flagged \cup todo \/ left[t] <= Base

\* "A commit that writes an event wakes its tenant at once, so a quiet tenant
\* does not delay the first event after the quiet" (Config.IdleInterval): no
\* interleaving of the commit's flag and signal with the loop's sweeps leaves a
\* tenant that is swept with events, once its hook has returned, waiting out a
\* backed-off interval.
PromptWake ==
  \A t \in Tenant : pending[t] > 0 /\ hook[t] = "idle" /\ t \in Swept => Prompt(t)

\* The same, once a commit that is announced was among them, whatever else is
\* committed without a word, before or after.  What is said is said of the
\* tenants that are swept: one that the last discovery missed, or that without
\* discovery has no pool, waits to be found again (EventuallySwept), also when a
\* tick took its flag and then left it out (TakenIsSwept).
AnnouncedIsPrompt ==
  \A t \in announced : hook[t] = "idle" /\ t \in Swept => Prompt(t)

\* "A sweep is already pending: it will take this tenant too" (Relay.wake): what
\* a sweep takes of the flags it drains.
TakenIsSwept == [][\A t \in flagged \cap announced : t \in flagged' \cup todo']_vars

\* The inductive invariant behind CadenceBounds ...
LoopInv == TypeOK /\ LoopShape /\ CadenceBounds

\* ... and behind AnnouncedIsPrompt.
SweepInv == LoopInv /\ Covered

\* A refresh never confirms as failing a tenant it does not find, so a tenant
\* that lost the module is dropped quietly, whatever failures came before.
FailingIsActive == failing \subseteq active

\* Whatever is lost between the commit, the hook, the flags, the ticker and the
\* discovery, no event waits for ever: a tenant that always has some has whole
\* batches drained, again and again.
EventuallySwept == \A t \in Tenant : []<>(pending[t] = 0) \/ []<><<Drained(t)>>_vars

\* A tenant that lost the module stops being swept.
EventuallyDropped ==
  \A t \in Tenant : (t \notin activated) ~> (t \in activated \/ t \notin Swept)
===========================================================================
