------------------------------ MODULE Outbox ------------------------------
(***************************************************************************)
(* One tenant's transactional outbox and the relay replicas that drain it  *)
(* (outbox/outbox.go, outbox/relay.go), from the insert inside a business  *)
(* transaction to the JetStream stream.                                    *)
(*                                                                         *)
(* A replica's drain is not atomic: the batch is read once, and every row  *)
(* is then published and marked in separate calls, any of which may fail,  *)
(* succeed without telling, or be cut by a crash, while another replica    *)
(* drains the same rows.  The schedule that decides WHEN to drain is the   *)
(* module RelaySweep.                                                      *)
(***************************************************************************)
EXTENDS Naturals, Sequences, FiniteSets

CONSTANTS
  Writer,     \* goroutines running business transactions (Base.InTx)
  Replica,    \* processes running Relay.Run over this tenant
  Entity,     \* business entities the events describe
  MaxEvents,  \* bound: ids the sequence hands out
  Batch,      \* Config.Batch
  Poison,     \* ids of rows no publish can ever deliver (a causation that
              \* does not decode, a payload over the broker's limit)
  MaxCopies   \* bound: copies of one event the stream may come to hold

ASSUME OutboxAssumption ==
  /\ MaxEvents \in Nat
  /\ Batch \in Nat \ {0}
  /\ MaxCopies \in Nat
  /\ Poison \subseteq Nat

Ids == 1 .. MaxEvents

\* An outbox row: its id, and the entity it is about (the rest of the row is
\* payload).
Event == [id : Ids, entity : Entity]

VARIABLES
  nextId,     \* the outbox id sequence
  open,       \* rows inserted by each writer's open transaction
  committed,  \* rows of committed transactions: the outbox table
  published,  \* rows whose published_at is set
  step,       \* where each replica is inside drain
  batch,      \* rows each replica has fetched and not dealt with yet
  stream,     \* messages the JetStream stream holds
  window,     \* events inside the broker's duplicate window
  wire        \* messages in flight whose publisher stopped waiting

rows == <<nextId, open, committed>>
vars == <<nextId, open, committed, published, step, batch, stream, window, wire>>

Before(d, e) == d.entity = e.entity /\ d.id < e.id

InStream == {stream[i] : i \in DOMAIN stream}

Pending == committed \ published

\* ORDER BY id LIMIT n.
Oldest(S, n) == {e \in S : Cardinality({d \in S : d.id < e.id}) < n}

\* The row the drain loop is at: the first of what is left of its batch.
IsHead(e, S) == e \in S /\ \A d \in S : e.id <= d.id

Init ==
  /\ nextId = 1
  /\ open = [w \in Writer |-> {}]
  /\ committed = {}
  /\ published = {}
  /\ step = [r \in Replica |-> "idle"]
  /\ batch = [r \in Replica |-> {}]
  /\ stream = <<>>
  /\ window = {}
  /\ wire = {}

---------------------------------------------------------------------------
(* Business transactions.                                                  *)

\* The transaction that writes an entity holds the entity's row until it ends,
\* so two transactions never hold events of one entity at a time.
Locked(n, w) == \E x \in Writer \ {w} : \E e \in open[x] : e.entity = n

\* Store.Insert or Store.InsertWith inside writer w's transaction.
Insert(w, n) ==
  /\ nextId <= MaxEvents
  /\ ~ Locked(n, w)
  /\ open' = [open EXCEPT ![w] = @ \cup {[id |-> nextId, entity |-> n]}]
  /\ nextId' = nextId + 1
  /\ UNCHANGED <<committed, published, step, batch, stream, window, wire>>

\* runTx commits: the rows appear together.
Commit(w) ==
  /\ open[w] # {}
  /\ committed' = committed \cup open[w]
  /\ open' = [open EXCEPT ![w] = {}]
  /\ UNCHANGED <<nextId, published, step, batch, stream, window, wire>>

\* runTx rolls back, or the process dies: none of them ever appears, and their
\* ids are spent.
Rollback(w) ==
  /\ open[w] # {}
  /\ open' = [open EXCEPT ![w] = {}]
  /\ UNCHANGED <<nextId, committed, published, step, batch, stream, window, wire>>

---------------------------------------------------------------------------
(* The broker.                                                             *)

\* JetStream takes a message unless its Nats-Msg-Id is in the duplicate window.
Store(e) ==
  IF e \in window
  THEN UNCHANGED <<stream, window>>
  ELSE /\ stream' = Append(stream, e)
       /\ window' = window \cup {e}

\* A message whose publisher gave up arrives after all.
Arrive(e) ==
  /\ Store(e)
  /\ wire' = wire \ {e}
  /\ UNCHANGED <<nextId, open, committed, published, step, batch>>

\* ... or never does.
Lose(e) ==
  /\ wire' = wire \ {e}
  /\ UNCHANGED <<nextId, open, committed, published, step, batch, stream, window>>

\* The duplicate window is finite.
Expire(e) ==
  /\ Cardinality({i \in DOMAIN stream : stream[i] = e}) < MaxCopies
  /\ window' = window \ {e}
  /\ UNCHANGED <<nextId, open, committed, published, step, batch, stream, wire>>

---------------------------------------------------------------------------
(* Relay.drain, one call at a time.                                        *)

\* The drain ends: everything left of the batch waits for a later sweep.
Stop(r) ==
  /\ step' = [step EXCEPT ![r] = "idle"]
  /\ batch' = [batch EXCEPT ![r] = {}]

\* Store.fetch returns the oldest unpublished rows.
Fetch(r) ==
  /\ step[r] = "idle"
  /\ Pending # {}
  /\ batch' = [batch EXCEPT ![r] = Oldest(Pending, Batch)]
  /\ step' = [step EXCEPT ![r] = "publish"]
  /\ UNCHANGED <<nextId, open, committed, published, stream, window, wire>>

\* A drain that does not look at publish's error.
PublishUnchecked(r) ==
  /\ step[r] = "publish"
  /\ step' = [step EXCEPT ![r] = "mark"]
  /\ UNCHANGED <<nextId, open, committed, published, batch, stream, window, wire>>

\* publish returns without error.
Publish(r) ==
  /\ step[r] = "publish"
  /\ \E e \in batch[r] :
       /\ IsHead(e, batch[r])
       /\ e.id \notin Poison
       /\ Store(e)
  /\ step' = [step EXCEPT ![r] = "mark"]
  /\ UNCHANGED <<nextId, open, committed, published, batch, wire>>

\* A drain that skips the row it could not publish.
SkipAhead(r) ==
  /\ step[r] = "publish"
  /\ \E e \in batch[r] :
       /\ IsHead(e, batch[r])
       /\ batch' = [batch EXCEPT ![r] = @ \ {e}]
       /\ step' = [step EXCEPT ![r] = IF batch[r] = {e} THEN "idle" ELSE "publish"]
  /\ UNCHANGED <<nextId, open, committed, published, stream, window, wire>>

\* A drain that gives up on the row it could not publish.
GiveUp(r) ==
  /\ step[r] = "publish"
  /\ \E e \in batch[r] : IsHead(e, batch[r]) /\ published' = published \cup {e}
  /\ Stop(r)
  /\ UNCHANGED <<nextId, open, committed, stream, window, wire>>

\* publish returns an error, or the process dies in it: the message never left,
\* or is still on its way.  The drain bumps attempts, which nothing reads, and
\* stops at this row instead of skipping ahead.
PublishFailed(r) ==
  /\ step[r] = "publish"
  /\ \E e \in batch[r] :
       /\ IsHead(e, batch[r])
       /\ \/ UNCHANGED wire
          \/ e.id \notin Poison /\ wire' = wire \cup {e}
  /\ Stop(r)
  /\ UNCHANGED <<nextId, open, committed, published, stream, window>>

\* A mark that updates no row.
MarkNothing(r) ==
  /\ step[r] = "mark"
  /\ \E e \in batch[r] :
       /\ IsHead(e, batch[r])
       /\ batch' = [batch EXCEPT ![r] = @ \ {e}]
       /\ step' = [step EXCEPT ![r] = IF batch[r] = {e} THEN "idle" ELSE "publish"]
  /\ UNCHANGED <<nextId, open, committed, published, stream, window, wire>>

\* Store.MarkPublished succeeds and the drain goes on to the next row.
MarkPublished(r) ==
  /\ step[r] = "mark"
  /\ \E e \in batch[r] :
       /\ IsHead(e, batch[r])
       /\ published' = published \cup {e}
       /\ batch' = [batch EXCEPT ![r] = @ \ {e}]
       /\ step' = [step EXCEPT ![r] = IF batch[r] = {e} THEN "idle" ELSE "publish"]
  /\ UNCHANGED <<nextId, open, committed, stream, window, wire>>

\* Store.MarkPublished returns an error, with or without the update applied, or
\* the process dies around it: the row may be published again.
MarkFailed(r) ==
  /\ step[r] = "mark"
  /\ \E e \in batch[r] :
       /\ IsHead(e, batch[r])
       /\ published' \in {published, published \cup {e}}
  /\ Stop(r)
  /\ UNCHANGED <<nextId, open, committed, stream, window, wire>>

---------------------------------------------------------------------------
Transact ==
  \E w \in Writer : Commit(w) \/ Rollback(w) \/ \E n \in Entity : Insert(w, n)

Drain ==
  \E r \in Replica :
    \/ Fetch(r)
    \/ Publish(r)
    \/ PublishFailed(r)
    \/ MarkPublished(r)
    \/ MarkFailed(r)

Broker ==
  \/ \E e \in wire : Arrive(e) \/ Lose(e)
  \/ \E e \in window : Expire(e)

Next == Transact \/ Drain \/ Broker

Spec == Init /\ [][Next]_vars

\* Every replica keeps sweeping (RelaySweep), and an outage of the broker or of
\* the database is not for ever: a call that is tried again and again succeeds.
Fairness ==
  \A r \in Replica :
    /\ WF_vars(Fetch(r))
    /\ SF_vars(Publish(r))
    /\ WF_vars(Publish(r) \/ PublishFailed(r))
    /\ SF_vars(MarkPublished(r))

FairSpec == Spec /\ Fairness

---------------------------------------------------------------------------
(* Properties.                                                             *)

\* The rows a writer or a replica holds are rows of the outbox, a replica that
\* is draining has rows left to deal with.
TypeOK ==
  /\ nextId \in 1 .. MaxEvents + 1
  /\ open \in [Writer -> SUBSET Event]
  /\ committed \subseteq Event
  /\ published \subseteq committed
  /\ step \in [Replica -> {"idle", "publish", "mark"}]
  /\ batch \in [Replica -> SUBSET committed]
  /\ \A r \in Replica : step[r] = "idle" <=> batch[r] = {}
  /\ stream \in Seq(Event)
  /\ InStream \subseteq committed
  /\ window \subseteq InStream
  /\ wire \subseteq committed

\* "The events describing one entity's history are a sequence, and delivering
\* the second before the first would leave a consumer believing the older
\* figure" (outbox.go): whatever the replicas, failures and late messages,
\* an event enters the stream for the first time after its entity's history.
HistoryOrder ==
  \A i \in DOMAIN stream, d \in committed :
    Before(d, stream[i]) => \E j \in 1 .. i - 1 : stream[j] = d

\* A row is only ever flagged published once the broker holds the event: a
\* failure between the two calls of drain costs a duplicate, never an event.
MarkedIsDelivered == published \subseteq InStream

\* The rows of open transactions carry ids no committed row has, are newer than
\* the committed history of their entity, and each entity is in the hands of
\* one transaction.
OpenIsNewer ==
  \A w \in Writer : \A e \in open[w] :
    /\ e.id < nextId
    /\ \A d \in committed : d.id # e.id /\ ~ Before(e, d)
    /\ \A x \in Writer \ {w} : \A d \in open[x] : d.entity # e.entity /\ d.id # e.id
    /\ \A d \in open[w] : d.id = e.id => d = e

\* What every replica is about to publish has its history either in the stream
\* already or ahead of it in the replica's own batch.
BatchIsClosed ==
  \A r \in Replica : \A e \in batch[r], d \in committed :
    Before(d, e) => d \in InStream \/ d \in batch[r]

\* A replica that is about to mark its row has got it into the stream.
MarkIsEarned ==
  \A r \in Replica :
    step[r] = "mark" => \A e \in batch[r] : IsHead(e, batch[r]) => e \in InStream

\* A message that may arrive late can no longer overtake its history.
WireIsClosed ==
  \A e \in wire, d \in committed : Before(d, e) => d \in InStream

IdsAreSpent ==
  \A e \in committed : e.id < nextId /\ \A d \in committed : d.id = e.id => d = e

\* The inductive invariant behind HistoryOrder and MarkedIsDelivered: what the
\* drain relies on between its calls although it read the rows long before.
DrainInv ==
  /\ TypeOK
  /\ IdsAreSpent
  /\ OpenIsNewer
  /\ MarkedIsDelivered
  /\ BatchIsClosed
  /\ MarkIsEarned
  /\ WireIsClosed
  /\ HistoryOrder

Promise == INSTANCE EventPromise
             WITH written <- committed, delivered <- InStream

\* The outbox, its relays and their failures implement the promise.
KeepsPromise == Promise!SafeSpec

\* ... and deliver everything that commits before the first unpublishable row.
KeepsPromiseLive == Promise!Spec

\* "The row is never dropped, however many attempts it accumulates"
\* (Store.BumpAttempts): a committed event ends up in the stream and marked,
\* unless an unpublishable row with a lower id stops every drain before it.
EventuallyPublished ==
  \A e \in Event :
    e \in committed ~>
      (e \in published \/ \E p \in committed : p.id \in Poison /\ p.id <= e.id)
===========================================================================
