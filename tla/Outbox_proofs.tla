---------------------------- MODULE Outbox_proofs ----------------------------
(***************************************************************************)
(* The outbox keeps its promise for any number of writers, relay replicas, *)
(* entities and events, any batch size and any loss, delay or duplication  *)
(* the broker is capable of.                                               *)
(***************************************************************************)
EXTENDS Outbox, FiniteSetTheorems, WellFoundedInduction, TLAPS

(* A non-empty set of rows has an oldest one.                              *)
LEMMA HasOldest ==
  ASSUME NEW S \in SUBSET Event, S # {}
  PROVE  \E e \in S : \A d \in S : e.id <= d.id
<1> DEFINE T == {e.id : e \in S}
<1>1. T \subseteq Nat /\ T # {} BY DEF Event, Ids
<1>2. PICK x \in T : \A y \in T : ~ (<<y, x>> \in OpToRel(<, Nat))
  BY <1>1, NatLessThanWellFounded, WFMin
<1>3. \A y \in T : ~ (y < x) BY <1>1, <1>2 DEF OpToRel
<1>4. PICK e \in S : e.id = x OBVIOUS
<1>5. ASSUME NEW d \in S PROVE e.id <= d.id
  <2>1. d.id \in T OBVIOUS
  <2>2. e.id \in Nat /\ d.id \in Nat BY DEF Event, Ids
  <2> HIDE DEF T
  <2> QED BY <1>3, <1>4, <2>1, <2>2
<1> QED BY <1>5

(* Fetched rows come with every older row of the set they are fetched from. *)
LEMMA OldestIsClosed ==
  ASSUME NEW S \in SUBSET Event, IsFiniteSet(S),
         NEW e \in Oldest(S, Batch), NEW d \in S, d.id < e.id
  PROVE  d \in Oldest(S, Batch)
<1> DEFINE Older(x) == {y \in S : y.id < x.id}
<1>1. Older(d) \subseteq Older(e) BY DEF Oldest, Event, Ids
<1>2. IsFiniteSet(Older(e)) BY FS_Subset
<1>3. Cardinality(Older(d)) <= Cardinality(Older(e)) BY <1>1, <1>2, FS_Subset
<1>4. Cardinality(Older(d)) \in Nat /\ Cardinality(Older(e)) \in Nat
  BY <1>1, <1>2, FS_Subset, FS_CardinalityType
<1>5. Cardinality(Older(e)) < Batch BY DEF Oldest
<1>6. Cardinality(Older(d)) < Batch BY <1>3, <1>4, <1>5, OutboxAssumption
<1> QED BY <1>6 DEF Oldest

(* A fetch of a non-empty set is not empty.                                *)
LEMMA OldestIsNotEmpty ==
  ASSUME NEW S \in SUBSET Event, S # {}
  PROVE  Oldest(S, Batch) # {}
<1>1. PICK e \in S : \A d \in S : e.id <= d.id BY HasOldest
<1>2. {d \in S : d.id < e.id} = {} BY <1>1 DEF Event, Ids
<1>3. e \in Oldest(S, Batch) BY <1>2, FS_EmptySet, OutboxAssumption DEF Oldest
<1> QED BY <1>3

(* What the broker does with a message: the stream keeps what it had and    *)
(* gains the message at the end, or had it already.                        *)
LEMMA Stored ==
  ASSUME stream \in Seq(Event), window \subseteq InStream, NEW e \in Event, Store(e)
  PROVE  /\ stream' \in Seq(Event)
         /\ InStream' = InStream \cup {e}
         /\ window' \subseteq InStream'
         /\ \A i \in DOMAIN stream : i \in DOMAIN stream' /\ stream'[i] = stream[i]
         /\ \A i \in DOMAIN stream' :
              i \in DOMAIN stream \/ (i = Len(stream) + 1 /\ stream'[i] = e)
<1>1. CASE e \in window BY <1>1 DEF Store, InStream
<1>2. CASE e \notin window
  <2>1. stream' = Append(stream, e) /\ window' = window \cup {e} BY <1>2 DEF Store
  <2>2. /\ Len(stream) \in Nat
        /\ DOMAIN stream = 1 .. Len(stream)
        /\ DOMAIN stream' = 1 .. Len(stream) + 1
        /\ \A i \in DOMAIN stream : stream'[i] = stream[i]
        /\ stream'[Len(stream) + 1] = e
    BY <2>1
  <2>3. stream' \in Seq(Event) BY <2>1
  <2>4. InStream' = InStream \cup {e}
    <3>1. ASSUME NEW x \in InStream' PROVE x \in InStream \cup {e}
      <4>1. PICK i \in DOMAIN stream' : x = stream'[i] BY <3>1 DEF InStream
      <4> QED BY <2>2, <4>1 DEF InStream
    <3>2. ASSUME NEW x \in InStream PROVE x \in InStream'
      <4>1. PICK i \in DOMAIN stream : x = stream[i] BY <3>2 DEF InStream
      <4>2. i \in DOMAIN stream' /\ x = stream'[i] BY <2>2, <4>1
      <4> QED BY <4>2 DEF InStream
    <3>3. e \in InStream'
      <4>1. Len(stream) + 1 \in DOMAIN stream' BY <2>2
      <4> QED BY <2>2, <4>1 DEF InStream
    <3> QED BY <3>1, <3>2, <3>3
  <2> QED BY <2>1, <2>2, <2>3, <2>4
<1> QED BY <1>1, <1>2

(* Publishing an event whose history is in the stream keeps every history  *)
(* in order.                                                               *)
LEMMA OrderKept ==
  ASSUME stream \in Seq(Event), window \subseteq InStream, NEW e \in Event, Store(e),
         HistoryOrder, UNCHANGED committed,
         \A d \in committed : Before(d, e) => d \in InStream
  PROVE  HistoryOrder'
<1> SUFFICES ASSUME NEW i \in DOMAIN stream', NEW d \in committed, Before(d, stream'[i])
             PROVE  \E j \in 1 .. i - 1 : stream'[j] = d
  BY DEF HistoryOrder, Before
<1>0. DOMAIN stream = 1 .. Len(stream) /\ Len(stream) \in Nat OBVIOUS
<1>1. CASE i \in DOMAIN stream
  <2>1. stream'[i] = stream[i] BY <1>1, Stored
  <2>2. PICK j \in 1 .. i - 1 : stream[j] = d BY <1>1, <2>1 DEF HistoryOrder
  <2>3. j \in DOMAIN stream BY <1>0, <1>1, <2>2
  <2> QED BY <2>2, <2>3, Stored
<1>2. CASE i = Len(stream) + 1 /\ stream'[i] = e
  <2>1. d \in InStream BY <1>2
  <2>2. PICK j \in DOMAIN stream : stream[j] = d BY <2>1 DEF InStream
  <2>3. j \in 1 .. i - 1 BY <1>0, <1>2, <2>2
  <2> QED BY <2>2, <2>3, Stored
<1> QED BY <1>1, <1>2, Stored

(* The outbox table and the open transactions hold finitely many rows.     *)
RowsAreFinite == IsFiniteSet(committed) /\ \A w \in Writer : IsFiniteSet(open[w])

\* DrainInv is inductive once the rows are known to be finite.
Inv == DrainInv /\ RowsAreFinite

(* The row a replica is about to publish has its history in the stream.    *)
LEMMA HeadIsNext ==
  ASSUME Inv, NEW r \in Replica, NEW e \in batch[r], IsHead(e, batch[r])
  PROVE  e \in committed /\ \A d \in committed : Before(d, e) => d \in InStream
BY DEF Inv, DrainInv, TypeOK, Event, Ids, BatchIsClosed, IsHead, Before

(* A step either leaves the stream alone, or delivers one event whose      *)
(* history is already there.                                               *)
LEMMA StreamStep ==
  ASSUME Inv, [Next]_vars
  PROVE  \/ UNCHANGED stream /\ window' \subseteq window
         \/ /\ UNCHANGED <<nextId, open, committed, published>>
            /\ \E e \in committed :
                 /\ Store(e)
                 /\ \A d \in committed : Before(d, e) => d \in InStream
<1>1. CASE Transact BY <1>1 DEF Transact, Insert, Commit, Rollback
<1>2. CASE Drain
  <2> PICK r \in Replica : \/ Fetch(r) \/ Publish(r) \/ PublishFailed(r)
                         \/ MarkPublished(r) \/ MarkFailed(r)
    BY <1>2 DEF Drain
  <2>1. CASE Publish(r) BY <2>1, HeadIsNext DEF Publish
  <2> QED BY <2>1 DEF Fetch, PublishFailed, MarkPublished, MarkFailed
<1>3. CASE Broker
  <2>1. ASSUME NEW e \in wire, Arrive(e)
        PROVE  /\ UNCHANGED <<nextId, open, committed, published>>
               /\ e \in committed /\ Store(e)
               /\ \A d \in committed : Before(d, e) => d \in InStream
    BY <2>1 DEF Arrive, Inv, DrainInv, TypeOK, WireIsClosed
  <2> QED BY <1>3, <2>1 DEF Broker, Lose, Expire
<1>4. CASE UNCHANGED vars BY <1>4 DEF vars
<1> QED BY <1>1, <1>2, <1>3, <1>4 DEF Next

(* Nothing ever leaves the stream.                                         *)
LEMMA StreamGrows ==
  ASSUME Inv, [Next]_vars
  PROVE  /\ stream' \in Seq(Event)
         /\ InStream \subseteq InStream'
         /\ InStream' \subseteq committed'
         /\ window' \subseteq InStream'
<1> USE DEF Inv, DrainInv, TypeOK
<1>1. CASE UNCHANGED stream /\ window' \subseteq window
  <2>1. committed \subseteq committed'
    BY DEF Next, vars, Transact, Drain, Broker, Insert, Commit, Rollback, Fetch, Publish,
           PublishFailed, MarkPublished, MarkFailed, Arrive, Lose, Expire
  <2> QED BY <1>1, <2>1 DEF InStream
<1>2. ASSUME UNCHANGED <<nextId, open, committed, published>>,
             NEW e \in committed, Store(e)
      PROVE  /\ stream' \in Seq(Event)
             /\ InStream \subseteq InStream'
             /\ InStream' \subseteq committed'
             /\ window' \subseteq InStream'
  BY <1>2, Stored
<1> QED BY <1>1, <1>2, StreamStep

(* The rows, open and committed.                                           *)
LEMMA RowsStep ==
  ASSUME Inv, [Next]_vars
  PROVE  (IdsAreSpent /\ OpenIsNewer /\ RowsAreFinite)'
<1> USE DEF Inv, DrainInv, TypeOK, IdsAreSpent, OpenIsNewer, RowsAreFinite, Event, Ids, Before
<1>1. ASSUME NEW w \in Writer, NEW n \in Entity, Insert(w, n)
      PROVE  (IdsAreSpent /\ OpenIsNewer /\ RowsAreFinite)'
  <2> DEFINE e == [id |-> nextId, entity |-> n]
  <2>1. open' = [open EXCEPT ![w] = @ \cup {e}] /\ nextId' = nextId + 1 /\ committed' = committed
    BY <1>1 DEF Insert
  <2>2. RowsAreFinite' BY <2>1, FS_AddElement
  <2>3. IdsAreSpent' BY <2>1
  <2>4. OpenIsNewer' BY <1>1, <2>1 DEF Insert, Locked
  <2> QED BY <2>2, <2>3, <2>4
<1>2. ASSUME NEW w \in Writer, Commit(w)
      PROVE  (IdsAreSpent /\ OpenIsNewer /\ RowsAreFinite)'
  <2>1. RowsAreFinite' BY <1>2, FS_Union, FS_EmptySet DEF Commit
  <2>2. IdsAreSpent' BY <1>2 DEF Commit
  <2>3. OpenIsNewer' BY <1>2 DEF Commit
  <2> QED BY <2>1, <2>2, <2>3
<1>3. ASSUME NEW w \in Writer, Rollback(w)
      PROVE  (IdsAreSpent /\ OpenIsNewer /\ RowsAreFinite)'
  BY <1>3, FS_EmptySet DEF Rollback
<1>4. CASE UNCHANGED rows BY <1>4 DEF rows
<1>5. Drain \/ Broker \/ UNCHANGED vars => UNCHANGED rows
  BY DEF rows, vars, Drain, Broker, Fetch, Publish, PublishFailed, MarkPublished, MarkFailed,
         Arrive, Lose, Expire
<1> QED BY <1>1, <1>2, <1>3, <1>4, <1>5 DEF Next, Transact

(* The shape of the state.                                                 *)
LEMMA TypeStep == ASSUME Inv, [Next]_vars PROVE TypeOK'
<1> USE OutboxAssumption DEF Inv, DrainInv, TypeOK
<1>1. /\ stream' \in Seq(Event)
      /\ InStream' \subseteq committed'
      /\ window' \subseteq InStream'
  BY StreamGrows
<1>2. ASSUME NEW w \in Writer, NEW n \in Entity, Insert(w, n) PROVE TypeOK'
  BY <1>1, <1>2 DEF Insert, Event, Ids
<1>3. ASSUME NEW w \in Writer, Commit(w) \/ Rollback(w) PROVE TypeOK'
  <2>1. open' \in [Writer -> SUBSET Event] BY <1>3 DEF Commit, Rollback
  <2>2. committed' \subseteq Event /\ committed \subseteq committed' BY <1>3 DEF Commit, Rollback
  <2>3. UNCHANGED <<nextId, published, step, batch, wire>> BY <1>3 DEF Commit, Rollback
  <2> QED BY <1>1, <2>1, <2>2, <2>3
<1>4. ASSUME NEW r \in Replica, Fetch(r) PROVE TypeOK'
  <2>1. Pending \subseteq Event BY DEF Pending
  <2>2. Oldest(Pending, Batch) # {} BY <1>4, <2>1, OldestIsNotEmpty DEF Fetch
  <2>3. Oldest(Pending, Batch) \subseteq committed BY DEF Oldest, Pending
  <2> QED BY <1>1, <1>4, <2>2, <2>3 DEF Fetch
<1>5. ASSUME NEW r \in Replica, Publish(r) PROVE TypeOK'
  BY <1>1, <1>5 DEF Publish
<1>6. ASSUME NEW r \in Replica, PublishFailed(r) PROVE TypeOK'
  BY <1>1, <1>6 DEF PublishFailed, Stop
<1>7. ASSUME NEW r \in Replica, MarkPublished(r) PROVE TypeOK'
  BY <1>1, <1>7 DEF MarkPublished
<1>8. ASSUME NEW r \in Replica, MarkFailed(r) PROVE TypeOK'
  BY <1>1, <1>8 DEF MarkFailed, Stop
<1>9. CASE Broker
  <2>1. wire' \subseteq wire /\ UNCHANGED <<nextId, open, committed, published, step, batch>>
    BY <1>9 DEF Broker, Arrive, Lose, Expire
  <2> QED BY <1>1, <2>1
<1>10. CASE UNCHANGED vars BY <1>1, <1>10 DEF vars
<1> QED BY <1>2, <1>3, <1>4, <1>5, <1>6, <1>7, <1>8, <1>9, <1>10 DEF Next, Transact, Drain

(* What a replica marks, and what is marked, is in the stream.             *)
LEMMA DeliveredStep == ASSUME Inv, [Next]_vars PROVE (MarkedIsDelivered /\ MarkIsEarned)'
<1> USE DEF Inv, DrainInv, TypeOK, MarkedIsDelivered, MarkIsEarned, IsHead
<1>1. InStream \subseteq InStream' BY StreamGrows
<1>2. ASSUME NEW r \in Replica, Fetch(r) PROVE (MarkedIsDelivered /\ MarkIsEarned)'
  BY <1>1, <1>2 DEF Fetch
<1>3. ASSUME NEW r \in Replica, Publish(r) PROVE (MarkedIsDelivered /\ MarkIsEarned)'
  <2>1. PICK e \in batch[r] : IsHead(e, batch[r]) /\ Store(e) BY <1>3 DEF Publish
  <2>2. e \in InStream' BY <2>1, Stored
  <2>3. \A d \in batch[r] : IsHead(d, batch[r]) => d = e
    BY <2>1 DEF IdsAreSpent, Event, Ids
  <2> QED BY <1>1, <1>3, <2>2, <2>3 DEF Publish
<1>4. ASSUME NEW r \in Replica, PublishFailed(r) PROVE (MarkedIsDelivered /\ MarkIsEarned)'
  BY <1>1, <1>4 DEF PublishFailed, Stop
<1>5. ASSUME NEW r \in Replica, MarkPublished(r) PROVE (MarkedIsDelivered /\ MarkIsEarned)'
  BY <1>1, <1>5 DEF MarkPublished
<1>6. ASSUME NEW r \in Replica, MarkFailed(r) PROVE (MarkedIsDelivered /\ MarkIsEarned)'
  BY <1>1, <1>6 DEF MarkFailed, Stop
<1>7. Transact \/ Broker \/ UNCHANGED vars => UNCHANGED <<published, step, batch>>
  BY DEF vars, Transact, Broker, Insert, Commit, Rollback, Arrive, Lose, Expire
<1> QED BY <1>1, <1>2, <1>3, <1>4, <1>5, <1>6, <1>7 DEF Next, Drain

(* What a replica or the wire may still deliver is closed under history.   *)
LEMMA ClosedStep == ASSUME Inv, [Next]_vars PROVE (BatchIsClosed /\ WireIsClosed)'
<1> USE DEF Inv, DrainInv, TypeOK, BatchIsClosed, WireIsClosed
<1>1. InStream \subseteq InStream' BY StreamGrows
<1>2. ASSUME NEW w \in Writer, Commit(w) PROVE (BatchIsClosed /\ WireIsClosed)'
  <2>1. ASSUME NEW d \in open[w], NEW e \in committed PROVE ~ Before(d, e)
    BY DEF OpenIsNewer
  <2> QED BY <1>1, <1>2, <2>1 DEF Commit, Before
<1>3. ASSUME NEW r \in Replica, Fetch(r) PROVE (BatchIsClosed /\ WireIsClosed)'
  <2>1. ASSUME NEW e \in Oldest(Pending, Batch), NEW d \in committed, Before(d, e)
        PROVE  d \in InStream \/ d \in Oldest(Pending, Batch)
    <3>1. CASE d \in published BY <3>1 DEF MarkedIsDelivered
    <3>2. CASE d \in Pending
      <4>1. Pending \in SUBSET Event /\ IsFiniteSet(Pending)
        BY FS_Difference DEF Pending, RowsAreFinite
      <4> QED BY <2>1, <3>2, <4>1, OldestIsClosed DEF Before
    <3> QED BY <3>1, <3>2 DEF Pending
  <2>2. batch' = [batch EXCEPT ![r] = Oldest(Pending, Batch)]
        /\ UNCHANGED <<committed, stream, wire>>
    BY <1>3 DEF Fetch
  <2> QED BY <1>1, <2>1, <2>2 DEF Before
<1>4. ASSUME NEW r \in Replica, Publish(r) PROVE (BatchIsClosed /\ WireIsClosed)'
  BY <1>1, <1>4 DEF Publish, Before
<1>5. ASSUME NEW r \in Replica, PublishFailed(r) PROVE (BatchIsClosed /\ WireIsClosed)'
  <2>1. PICK e \in batch[r] : IsHead(e, batch[r]) /\ wire' \subseteq wire \cup {e}
    BY <1>5 DEF PublishFailed
  <2>2. \A d \in committed : Before(d, e) => d \in InStream BY <2>1, HeadIsNext
  <2> QED BY <1>1, <1>5, <2>1, <2>2 DEF PublishFailed, Stop, Before
<1>6. ASSUME NEW r \in Replica, MarkPublished(r) PROVE (BatchIsClosed /\ WireIsClosed)'
  <2>1. PICK e \in batch[r] : IsHead(e, batch[r]) /\ batch' = [batch EXCEPT ![r] = @ \ {e}]
    BY <1>6 DEF MarkPublished
  <2>2. e \in InStream BY <1>6, <2>1 DEF MarkPublished, MarkIsEarned
  <2> QED BY <1>1, <1>6, <2>1, <2>2 DEF MarkPublished, Before
<1>7. ASSUME NEW r \in Replica, MarkFailed(r) PROVE (BatchIsClosed /\ WireIsClosed)'
  BY <1>1, <1>7 DEF MarkFailed, Stop, Before
<1>8. ASSUME UNCHANGED <<committed, batch>>, wire' \subseteq wire
      PROVE  (BatchIsClosed /\ WireIsClosed)'
  BY <1>1, <1>8 DEF Before
<1>9. Broker \/ UNCHANGED vars \/ (\E w \in Writer : Rollback(w) \/ \E n \in Entity : Insert(w, n))
      => UNCHANGED <<committed, batch>> /\ wire' \subseteq wire
  BY DEF vars, Broker, Insert, Rollback, Arrive, Lose, Expire
<1> QED BY <1>2, <1>3, <1>4, <1>5, <1>6, <1>7, <1>8, <1>9 DEF Next, Transact, Drain

(* The stream's order.                                                     *)
LEMMA OrderStep == ASSUME Inv, [Next]_vars PROVE HistoryOrder'
<1> USE DEF Inv, DrainInv, TypeOK
<1>1. ASSUME UNCHANGED <<nextId, open, committed, published>>, NEW e \in committed,
             Store(e), \A d \in committed : Before(d, e) => d \in InStream
      PROVE  HistoryOrder'
  BY <1>1, OrderKept
<1>2. CASE UNCHANGED <<stream, committed>> BY <1>2 DEF HistoryOrder, Before
<1>3. ASSUME NEW w \in Writer, Commit(w) PROVE HistoryOrder'
  <2>1. ASSUME NEW d \in open[w], NEW i \in DOMAIN stream PROVE ~ Before(d, stream[i])
    <3>1. stream[i] \in committed BY DEF InStream
    <3> QED BY <3>1 DEF OpenIsNewer
  <2> QED BY <1>3, <2>1 DEF Commit, HistoryOrder, Before
<1>4. UNCHANGED stream => (UNCHANGED committed \/ \E w \in Writer : Commit(w))
  BY DEF Next, vars, Transact, Drain, Broker, Insert, Rollback, Fetch, Publish,
         PublishFailed, MarkPublished, MarkFailed, Arrive, Lose, Expire
<1> QED BY <1>1, <1>2, <1>3, <1>4, StreamStep

(* The table and the stream are empty.                                     *)
LEMMA InvInit == Init => Inv
<1> SUFFICES ASSUME Init PROVE Inv OBVIOUS
<1>1. InStream = {} BY DEF Init, InStream
<1>2. stream \in Seq(Event) BY DEF Init
<1> QED BY <1>1, <1>2, OutboxAssumption, FS_EmptySet
        DEF Init, Inv, DrainInv, RowsAreFinite, TypeOK, IdsAreSpent, OpenIsNewer,
            MarkedIsDelivered, BatchIsClosed, MarkIsEarned, WireIsClosed, HistoryOrder

(* The drain's inductive invariant: whatever failed, was lost, arrived late *)
(* or ran on another replica since a row was read, publishing it next does  *)
(* not run ahead of its entity's history, and marking it loses nothing.     *)
THEOREM DrainInvHolds == Spec => [](DrainInv /\ RowsAreFinite)
<1>1. Init => Inv BY InvInit
<1>2. Inv /\ [Next]_vars => Inv'
  <2> SUFFICES ASSUME Inv, [Next]_vars PROVE Inv' OBVIOUS
  <2> QED BY TypeStep, RowsStep, DeliveredStep, ClosedStep, OrderStep DEF Inv, DrainInv
<1> QED BY <1>1, <1>2, PTL DEF Spec, Inv

(* Each entity's events first reach the stream in the order of its history  *)
(* (drain stops at the row that fails, fetch reads ORDER BY id).            *)
THEOREM HistoryOrderHolds == Spec => []HistoryOrder
<1>1. Inv => HistoryOrder BY DEF Inv, DrainInv
<1> QED BY <1>1, DrainInvHolds, PTL DEF Inv

(* published_at is never set on an event the broker does not hold           *)
(* (MarkPublished only follows a publish that returned).                    *)
THEOREM MarkedIsDeliveredHolds == Spec => []MarkedIsDelivered
<1>1. Inv => MarkedIsDelivered BY DEF Inv, DrainInv
<1> QED BY <1>1, DrainInvHolds, PTL DEF Inv

(* Every step of the transactions, the replicas and the broker writes a     *)
(* batch of events, delivers one whose history is delivered, or changes     *)
(* nothing a consumer can tell: the outbox implements EventPromise.         *)
THEOREM KeepsPromiseHolds == Spec => KeepsPromise
<1>1. Init => Promise!Init BY DEF Init, Promise!Init, InStream
<1>2. Inv /\ [Next]_vars => [Promise!Next]_(Promise!vars)
  <2> SUFFICES ASSUME Inv, [Next]_vars PROVE [Promise!Next]_(Promise!vars) OBVIOUS
  <2> USE DEF Inv, DrainInv, TypeOK
  <2>1. ASSUME NEW w \in Writer, Commit(w) PROVE Promise!Next
    <3>1. open[w] \in SUBSET Event /\ open[w] \cap committed = {} BY DEF OpenIsNewer
    <3>2. committed' = committed \cup open[w] /\ InStream' = InStream
      BY <2>1 DEF Commit, InStream
    <3>3. \A e \in open[w], d \in committed : d.id # e.id /\ ~ Before(e, d)
      BY DEF OpenIsNewer
    <3>4. Promise!Write(open[w])
      BY <3>1, <3>2, <3>3 DEF Promise!Write, Promise!Event, Event, Promise!Before, Before
    <3> QED BY <3>1, <3>4 DEF Promise!Next, Promise!Event, Event
  <2>2. ASSUME UNCHANGED <<nextId, open, committed, published>>, NEW e \in committed,
               Store(e), \A d \in committed : Before(d, e) => d \in InStream
        PROVE  [Promise!Next]_(Promise!vars)
    <3>1. InStream' = InStream \cup {e} BY <2>2, Stored
    <3>2. CASE e \in InStream
      <4>1. UNCHANGED <<committed, InStream>> BY <2>2, <3>1, <3>2
      <4> QED BY <4>1 DEF Promise!vars
    <3>3. CASE e \notin InStream
      <4>1. Promise!Deliver(e) BY <2>2, <3>1, <3>3 DEF Promise!Deliver, Promise!Before, Before
      <4> QED BY <4>1 DEF Promise!Next, Promise!Event, Event
    <3> QED BY <3>2, <3>3
  <2>3. CASE UNCHANGED <<stream, committed>>
    BY <2>3 DEF Promise!vars, InStream
  <2>4. UNCHANGED stream => (UNCHANGED committed \/ \E w \in Writer : Commit(w))
    BY DEF Next, vars, Transact, Drain, Broker, Insert, Rollback, Fetch, Publish,
           PublishFailed, MarkPublished, MarkFailed, Arrive, Lose, Expire
  <2> QED BY <2>1, <2>2, <2>3, <2>4, StreamStep
<1> QED BY <1>1, <1>2, DrainInvHolds, PTL DEF Spec, Inv, KeepsPromise, Promise!SafeSpec
=============================================================================
