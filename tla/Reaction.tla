------------------------------ MODULE Reaction ------------------------------
(***************************************************************************)
(* The consumer's side of the outbox: Cores that react to one another's    *)
(* events.  Subscribe binds a durable consumer (outbox/consumer.go), a     *)
(* handler records the event with MarkProcessed inside its transaction     *)
(* (outbox/outbox.go) and, before it acts, asks NextCausation whether it   *)
(* may, which is also the chain of what it emits (outbox/meta.go).         *)
(*                                                                         *)
(* The handler belongs to the Core; the one modelled is the handler the    *)
(* comments of these functions describe.  An event is its causal chain:    *)
(* each Core emits one event per event it applies, written with InsertWith *)
(* and read back through a relay with TraceColumns on.  That a committed   *)
(* event reaches the stream sooner or later is the module Outbox; here a   *)
(* late one is one that is delivered late.                                 *)
(***************************************************************************)
EXTENDS Naturals, Sequences, FiniteSets, Functions

CONSTANTS
  Principal,  \* the reacting Cores (or agents), each with its processed_events
  Actor,      \* whoever a chain may name: these and outsiders
  Worker,     \* handlers, several of a Core where they run at the same time
  Core,       \* the Core a handler belongs to
  MaxDepth,   \* the bound each principal passes to NextCausation
  Root,       \* the chains of the events that come from outside
  MaxCopies   \* bound: events a relay publishes a second time

ASSUME ReactionAssumption ==
  /\ Principal \subseteq Actor
  /\ Core \in [Worker -> Principal]
  /\ MaxDepth \in [Principal -> Nat \ {0}]
  /\ Root \subseteq Seq(Actor)
  /\ MaxCopies \in Nat

Event == Seq(Actor)

VARIABLES
  committed,  \* events some Core's outbox holds
  created,    \* the producer's relay has created the stream
  up,         \* the broker answers
  sub,        \* where Subscribe is: "try", "wait", "bound" or "stopped"
  acked,      \* what the durable of each principal has been acked
  copies,     \* events published again so far
  at, on,     \* where each handler is, and its event
  processed,  \* processed_events of each principal
  effects     \* history: the transactions that applied an event

brokerVars == <<created, up, copies>>
handlerVars == <<at, on>>
tableVars == <<committed, processed, effects>>
reactionVars == <<brokerVars, sub, acked, handlerVars, tableVars>>

ReactionInit ==
  /\ committed = Root
  /\ created \in BOOLEAN
  /\ up \in BOOLEAN
  /\ sub = [p \in Principal |-> "try"]
  /\ acked = [p \in Principal |-> {}]
  /\ copies = 0
  /\ at = [w \in Worker |-> "idle"]
  /\ on = [w \in Worker |-> <<>>]
  /\ processed = [p \in Principal |-> {}]
  /\ effects = {}

\* Nothing of an ended handler is kept.
Ends(w) ==
  /\ at' = [at EXCEPT ![w] = "idle"]
  /\ on' = [on EXCEPT ![w] = <<>>]

---------------------------------------------------------------------------
(* Subscribe.                                                              *)

\* bind finds the stream and creates the durable.
Bind(p) ==
  /\ sub[p] = "try" /\ up /\ created
  /\ sub' = [sub EXCEPT ![p] = "bound"]
  /\ UNCHANGED <<brokerVars, acked, handlerVars, tableVars>>

\* A loop that gives up on the first failure.
BindGivesUp(p) ==
  /\ sub[p] = "try"
  /\ sub' = [sub EXCEPT ![p] = "deaf"]
  /\ UNCHANGED <<brokerVars, acked, handlerVars, tableVars>>

\* The broker is not reachable, or bind fails for whatever reason.
BindFails(p) ==
  /\ sub[p] = "try"
  /\ sub' = [sub EXCEPT ![p] = "wait"]
  /\ UNCHANGED <<brokerVars, acked, handlerVars, tableVars>>

\* The wait is over.
Retry(p) ==
  /\ sub[p] = "wait"
  /\ sub' = [sub EXCEPT ![p] = "try"]
  /\ UNCHANGED <<brokerVars, acked, handlerVars, tableVars>>

\* ctx ends: the consumption stops, the handlers in flight go on.
Cancel(p) ==
  /\ sub[p] # "stopped"
  /\ sub' = [sub EXCEPT ![p] = "stopped"]
  /\ UNCHANGED <<brokerVars, acked, handlerVars, tableVars>>

\* The process dies; Postgres rolls its open transactions back.
Crash(p) ==
  /\ sub' = [sub EXCEPT ![p] = "stopped"]
  /\ at' = [w \in Worker |-> IF Core[w] = p THEN "idle" ELSE at[w]]
  /\ on' = [w \in Worker |-> IF Core[w] = p THEN <<>> ELSE on[w]]
  /\ UNCHANGED <<brokerVars, acked, tableVars>>

Restart(p) ==
  /\ sub[p] = "stopped"
  /\ sub' = [sub EXCEPT ![p] = "try"]
  /\ UNCHANGED <<brokerVars, acked, handlerVars, tableVars>>

---------------------------------------------------------------------------
(* The broker.                                                             *)

\* It goes away, and comes back.
Broker ==
  /\ up' = ~ up
  /\ UNCHANGED <<created, copies, sub, acked, handlerVars, tableVars>>

\* The producer's relay creates its stream.
StreamCreated ==
  /\ up /\ ~ created
  /\ created' = TRUE
  /\ UNCHANGED <<up, copies, sub, acked, handlerVars, tableVars>>

\* An event not acked yet goes to a handler, whoever else may be at it: AckWait
\* can run out while another handler works on.
Deliver(w, e) ==
  /\ sub[Core[w]] = "bound" /\ up
  /\ at[w] = "idle"
  /\ e \in committed \ acked[Core[w]]
  /\ at' = [at EXCEPT ![w] = "got"]
  /\ on' = [on EXCEPT ![w] = e]
  /\ UNCHANGED <<brokerVars, sub, acked, tableVars>>

\* A relay publishes an event again, outside the duplicate window: the stream
\* holds it twice, and the durables have the second one to deliver.
Republish(e) ==
  /\ copies < MaxCopies
  /\ \E p \in Principal : e \in acked[p]
  /\ copies' = copies + 1
  /\ acked' = [p \in Principal |-> acked[p] \ {e}]
  /\ UNCHANGED <<created, up, sub, handlerVars, tableVars>>

---------------------------------------------------------------------------
(* The handler.                                                            *)

\* Causation.Validate on the chain of a received event.
ValidChain(p, chain) == Len(chain) <= MaxDepth[p] /\ IsInjective(chain)

\* A guard without its search for the principal in the chain.
DepthOnly(p, chain) == ValidChain(p, chain) /\ Len(chain) + 1 <= MaxDepth[p]

\* NextCausation lets p act on an event with this chain.
MayAct(p, chain) ==
  /\ ValidChain(p, chain)
  /\ p \notin Range(chain)
  /\ Len(chain) + 1 <= MaxDepth[p]

\* NextCausation refuses: the handler does not act, and acks.
Refuse(w) ==
  /\ at[w] = "got"
  /\ ~ MayAct(Core[w], on[w])
  /\ at' = [at EXCEPT ![w] = "done"]
  /\ UNCHANGED <<brokerVars, sub, acked, on, tableVars>>

\* A MarkProcessed that looks the event up before it inserts it.
MarkLooksUp(w) ==
  /\ at[w] = "got"
  /\ MayAct(Core[w], on[w])
  /\ at' = [at EXCEPT ![w] = IF on[w] \in processed[Core[w]] THEN "done" ELSE "marked"]
  /\ UNCHANGED <<brokerVars, sub, acked, on, tableVars>>

\* MarkProcessed: INSERT .. ON CONFLICT DO NOTHING waits for a transaction that
\* has inserted the same key.  ErrAlreadyProcessed rolls back, and is acked.
MarkProcessed(w) ==
  /\ at[w] = "got"
  /\ MayAct(Core[w], on[w])
  /\ ~ \E v \in Worker : Core[v] = Core[w] /\ at[v] = "marked" /\ on[v] = on[w]
  /\ at' = [at EXCEPT ![w] = IF on[w] \in processed[Core[w]] THEN "done" ELSE "marked"]
  /\ UNCHANGED <<brokerVars, sub, acked, on, tableVars>>

\* A handler that acks what it could not apply.
FailsAndAcks(w) ==
  /\ at[w] \in {"got", "marked"}
  /\ at' = [at EXCEPT ![w] = "done"]
  /\ UNCHANGED <<brokerVars, sub, acked, on, tableVars>>

\* The transaction fails, before or after the mark: rolled back, not acked.
Fails(w) ==
  /\ at[w] \in {"got", "marked"}
  /\ Ends(w)
  /\ UNCHANGED <<brokerVars, sub, acked, tableVars>>

\* It commits the mark, the effect and the event that follows from it; the
\* handler may not learn of it.
Commit(w) ==
  LET p == Core[w]
      earlier == {x \in effects : x.by = p /\ x.of = on[w]}
  IN
  /\ at[w] = "marked"
  /\ processed' = [processed EXCEPT ![p] = @ \cup {on[w]}]
  /\ effects' = effects \cup {[by |-> p, of |-> on[w], nth |-> Cardinality(earlier) + 1]}
  /\ committed' = committed \cup {Append(on[w], p)}
  /\ \/ at' = [at EXCEPT ![w] = "done"] /\ UNCHANGED on
     \/ Ends(w)
  /\ UNCHANGED <<brokerVars, sub, acked>>

Ack(w) ==
  /\ at[w] = "done"
  /\ up
  /\ acked' = [acked EXCEPT ![Core[w]] = @ \cup {on[w]}]
  /\ Ends(w)
  /\ UNCHANGED <<brokerVars, sub, tableVars>>

AckLost(w) ==
  /\ at[w] = "done"
  /\ Ends(w)
  /\ UNCHANGED <<brokerVars, sub, acked, tableVars>>

---------------------------------------------------------------------------
Subscribe(p) == Bind(p) \/ BindFails(p) \/ Retry(p) \/ Cancel(p) \/ Crash(p) \/ Restart(p)

Handle(w) ==
  \/ Refuse(w)
  \/ MarkProcessed(w)
  \/ Fails(w)
  \/ Commit(w)
  \/ Ack(w)
  \/ AckLost(w)

ReactionNext ==
  \/ Broker \/ StreamCreated
  \/ \E p \in Principal : Subscribe(p)
  \/ \E e \in committed : Republish(e)
  \/ \E w \in Worker : Handle(w)
  \/ \E w \in Worker : \E e \in committed : Deliver(w, e)

ReactionSpec == ReactionInit /\ [][ReactionNext]_reactionVars

\* The last outage of the broker ends and the stream is created.  Nothing else
\* fails, crashes, is cancelled or gets lost for ever: every bind goes through
\* one day, and while there are events to deliver, to decide on, to commit or
\* to ack, one of them is.
ReactionFairness ==
  /\ <>[]up
  /\ WF_reactionVars(StreamCreated)
  /\ \A p \in Principal : SF_reactionVars(Bind(p)) /\ WF_reactionVars(Retry(p) \/ Restart(p))
  /\ SF_reactionVars(\E w \in Worker : \E e \in committed : Deliver(w, e))
  /\ SF_reactionVars(\E w \in Worker : Refuse(w) \/ MarkProcessed(w))
  /\ SF_reactionVars(\E w \in Worker : Commit(w) /\ at'[w] = "done")
  /\ SF_reactionVars(\E w \in Worker : Ack(w))

FairReactionSpec == ReactionSpec /\ ReactionFairness

---------------------------------------------------------------------------
(* Properties.                                                             *)

ReactionTypeOK ==
  /\ committed \subseteq Event
  /\ created \in BOOLEAN /\ up \in BOOLEAN
  /\ sub \in [Principal -> {"try", "wait", "bound", "stopped"}]
  /\ acked \in [Principal -> SUBSET committed]
  /\ copies \in 0 .. MaxCopies
  /\ at \in [Worker -> {"idle", "got", "marked", "done"}]
  /\ on \in [Worker -> Event]
  /\ processed \in [Principal -> SUBSET Event]
  /\ effects \subseteq [by : Principal, of : Event, nth : Nat]

\* "The uniqueness of the primary key is what makes this race-free"
\* (MarkProcessed): however often an event is delivered, to however many
\* handlers at once, and whatever crashes or replies get lost, one transaction
\* of a Core applies it.
AppliedOnce == \A x, y \in effects : x.by = y.by /\ x.of = y.of => x = y

Applied(p, e) == \E x \in effects : x.by = p /\ x.of = e

\* Nothing is lost: an event whose delivery is over for a Core has been applied
\* there, unless the loop guard refused it.
AckedIsHandled == \A p \in Principal : \A e \in acked[p] : MayAct(p, e) => Applied(p, e)

\* "The principal would be reacting, directly or through others, to its own
\* doing" (NextCausation): who applied an event never applies one that follows
\* from what it did then.
ActsOnce ==
  \A x, y \in effects :
    /\ Len(x.of) < Len(y.of)
    /\ SubSeq(y.of, 1, Len(x.of) + 1) = Append(x.of, x.by)
    => x.by # y.by

\* What the handlers hold and the tables record, which keeps the three above.
HandlersOK ==
  /\ \A v, w \in Worker :
       Core[v] = Core[w] /\ at[v] = "marked" /\ at[w] = "marked" /\ on[v] = on[w] => v = w
  /\ \A w \in Worker :
       /\ at[w] # "idle" => on[w] \in committed
       /\ at[w] = "marked" => MayAct(Core[w], on[w]) /\ on[w] \notin processed[Core[w]]
       /\ at[w] = "done" /\ MayAct(Core[w], on[w]) => Applied(Core[w], on[w])

TablesOK ==
  /\ \A p \in Principal : \A e \in processed[p] : Applied(p, e)
  /\ \A x \in effects : x.of \in processed[x.by] /\ MayAct(x.by, x.of)

\* What the guard makes of the chains: no Core's event repeats a principal or
\* is longer than the bound of who emitted it.
ChainsOK ==
  \A c \in committed \ Root :
    /\ c # <<>> /\ c[Len(c)] \in Principal
    /\ Len(c) <= MaxDepth[c[Len(c)]]
    /\ IsInjective(c)

\* The inductive invariant.
ReactionInv == ReactionTypeOK /\ HandlersOK /\ TablesOK /\ ChainsOK /\ AppliedOnce /\ AckedIsHandled

\* "It never gives up. ... Nothing is lost meanwhile" (Subscribe), and the loop
\* guard ends every cascade of reactions: at some point every event there is or
\* will be has been dealt with everywhere; by AckedIsHandled, it was applied
\* wherever it may be.
Settles == <>[](\A p \in Principal : acked[p] = committed)
===========================================================================
