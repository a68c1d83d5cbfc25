--------------------------- MODULE EventPromise ---------------------------
(***************************************************************************)
(* What the transactional outbox promises the Cores that consume from it,  *)
(* with no relay, broker or replica in sight: an event is written by the   *)
(* commit of a business transaction, and every written event is delivered, *)
(* the events of one entity first reaching the stream in the order they    *)
(* were written, unless an event that cannot be delivered is in the way.   *)
(***************************************************************************)
EXTENDS Naturals

CONSTANTS
  Ids,       \* the row ids the outbox sequence hands out
  Entity,    \* the business entities whose changes the events describe
  Poison     \* ids of events that cannot be delivered

Event == [id : Ids, entity : Entity]

VARIABLES
  written,   \* the events whose transaction committed
  delivered  \* the events the stream holds

vars == <<written, delivered>>

\* d comes before e in the history of the entity both belong to.
Before(d, e) == d.entity = e.entity /\ d.id < e.id

Init ==
  /\ written = {}
  /\ delivered = {}

\* A transaction commits the events E: each is newer than every written event
\* of its entity, and takes an id no written event has.
Write(E) ==
  /\ E \subseteq Event \ written
  /\ \A e \in E, d \in written : d.id # e.id /\ ~ Before(e, d)
  /\ written' = written \cup E
  /\ UNCHANGED delivered

\* An event reaches the stream after the whole history before it.
Deliver(e) ==
  /\ e \in written \ delivered
  /\ \A d \in written : Before(d, e) => d \in delivered
  /\ delivered' = delivered \cup {e}
  /\ UNCHANGED written

Next ==
  \/ \E E \in SUBSET Event : Write(E)
  \/ \E e \in Event : Deliver(e)

\* An event that cannot be delivered stands before e, or is e.
Blocked(e) == \E p \in written : p.id \in Poison /\ p.id <= e.id

SafeSpec == Init /\ [][Next]_vars

Spec == SafeSpec /\ \A e \in Event : WF_vars(Deliver(e) /\ ~ Blocked(e))
===========================================================================
