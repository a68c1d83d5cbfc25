-------------------------- MODULE Reaction_proofs --------------------------
(***************************************************************************)
(* For any Cores, handlers, bounds and root events: one transaction of a   *)
(* Core applies an event, nothing that was acked is lost, and nobody acts  *)
(* twice on one causal path.  The invariant is ReactionInv; what carries   *)
(* it is that a handler past MarkProcessed holds its key alone.            *)
(***************************************************************************)
EXTENDS Reaction, FiniteSetTheorems, TLAPS

\* What NextCausation returns is a chain no longer than its bound that repeats
\* nobody.
LEMMA NextChain ==
  ASSUME NEW p \in Principal, NEW c \in Event, MayAct(p, c)
  PROVE  LET n == Append(c, p) IN
         /\ n \in Event
         /\ n # <<>> /\ n[Len(n)] = p
         /\ Len(n) <= MaxDepth[p]
         /\ IsInjective(n)
PROOF
<1> DEFINE n == Append(c, p)
<1>1. /\ n \in Seq(Actor)
      /\ Len(n) = Len(c) + 1
      /\ DOMAIN n = 1 .. Len(c) + 1
      /\ \A i \in 1 .. Len(c) : n[i] = c[i]
      /\ n[Len(c) + 1] = p
      /\ Len(c) \in Nat
  BY ReactionAssumption DEF Event
<1>2. Len(n) <= MaxDepth[p]
  BY <1>1 DEF MayAct
<1>3. ASSUME NEW i \in DOMAIN n, NEW j \in DOMAIN n, n[i] = n[j] PROVE i = j
  <2>1. DOMAIN c = 1 .. Len(c)
    BY DEF Event
  <2>2. \A k \in DOMAIN c : c[k] # p
    BY DEF MayAct, Range
  <2>3. \A k, l \in DOMAIN c : c[k] = c[l] => k = l
    BY DEF MayAct, ValidChain, IsInjective
  <2> QED BY <1>1, <1>3, <2>1, <2>2, <2>3
<1>4. IsInjective(n)
  BY <1>3 DEF IsInjective
<1> QED BY <1>1, <1>2, <1>4 DEF Event

---------------------------------------------------------------------------
(* What a step does to the history and to the tables.                      *)

\* A transaction that applied an event stays one.
LEMMA AppliedGrows ==
  ASSUME [ReactionNext]_reactionVars
  PROVE  /\ effects \subseteq effects'
         /\ \A p, e : Applied(p, e) => Applied(p, e)'
PROOF
<1>1. effects \subseteq effects'
  BY DEF ReactionNext, reactionVars, brokerVars, handlerVars, tableVars, Broker, StreamCreated, Subscribe, Bind, BindFails,
         Retry, Cancel, Crash, Restart, Republish, Deliver, Handle, Refuse, MarkProcessed,
         Fails, Commit, Ack, AckLost
<1> QED BY <1>1 DEF Applied

\* Only a commit touches the tables.
LEMMA OnlyCommits ==
  ASSUME [ReactionNext]_reactionVars, \A w \in Worker : ~ Commit(w)
  PROVE  UNCHANGED tableVars
PROOF
  BY DEF ReactionNext, reactionVars, brokerVars, handlerVars, tableVars, Broker, StreamCreated, Subscribe, Bind, BindFails,
         Retry, Cancel, Crash, Restart, Republish, Deliver, Handle, Refuse, MarkProcessed,
         Fails, Ack, AckLost

---------------------------------------------------------------------------
(* The invariant holds at first, and every step keeps each of its parts.   *)

LEMMA InvInit == ReactionInit => ReactionInv
PROOF
<1> SUFFICES ASSUME ReactionInit PROVE ReactionInv
  OBVIOUS
<1> USE ReactionAssumption DEF ReactionInit
<1>1. <<>> \in Event
  BY DEF Event
<1>2. ReactionTypeOK
  BY <1>1 DEF ReactionTypeOK, Event
<1>3. HandlersOK /\ TablesOK /\ ChainsOK /\ AppliedOnce /\ AckedIsHandled
  BY DEF HandlersOK, TablesOK, ChainsOK, AppliedOnce, AckedIsHandled
<1> QED BY <1>2, <1>3 DEF ReactionInv

\* A handler that has marked its event may act on it, so its commit appends a
\* chain; everything else is by definition.
LEMMA TypeStep == ReactionInv /\ [ReactionNext]_reactionVars => ReactionTypeOK'
PROOF
<1> SUFFICES ASSUME ReactionInv, [ReactionNext]_reactionVars PROVE ReactionTypeOK'
  OBVIOUS
<1> USE ReactionAssumption DEF ReactionInv, ReactionTypeOK
<1>1. <<>> \in Event
  BY DEF Event
<1>2. CASE UNCHANGED reactionVars
  BY <1>2 DEF reactionVars, brokerVars, handlerVars, tableVars
<1>3. CASE Broker \/ StreamCreated
  BY <1>3 DEF Broker, StreamCreated, handlerVars, tableVars
<1>4. ASSUME NEW p \in Principal, Subscribe(p) PROVE ReactionTypeOK'
  <2>1. CASE Crash(p)
    BY <1>1, <2>1 DEF Crash, brokerVars, tableVars
  <2>2. CASE Bind(p) \/ BindFails(p)
    BY <2>2 DEF Bind, BindFails, brokerVars, handlerVars, tableVars
  <2>3. CASE Retry(p) \/ Cancel(p) \/ Restart(p)
    BY <2>3 DEF Retry, Cancel, Restart, brokerVars, handlerVars, tableVars
  <2> QED BY <1>4, <2>1, <2>2, <2>3 DEF Subscribe
<1>5. ASSUME NEW e \in committed, Republish(e) PROVE ReactionTypeOK'
  <2>1. copies + 1 \in 0 .. MaxCopies
    BY <1>5 DEF Republish
  <2> QED BY <1>5, <2>1 DEF Republish, handlerVars, tableVars
<1>6. ASSUME NEW w \in Worker, NEW e \in committed, Deliver(w, e) PROVE ReactionTypeOK'
  BY <1>6 DEF Deliver, brokerVars, tableVars
<1>7. ASSUME NEW w \in Worker, Handle(w) PROVE ReactionTypeOK'
  <2>1. Core[w] \in Principal
    OBVIOUS
  <2>2. CASE Refuse(w) \/ MarkProcessed(w)
    BY <2>2 DEF Refuse, MarkProcessed, brokerVars, tableVars
  <2>3. CASE Fails(w) \/ AckLost(w)
    BY <1>1, <2>3 DEF Fails, AckLost, Ends, brokerVars, tableVars
  <2>4. CASE Ack(w)
    <3>1. on[w] \in committed
      BY <2>4 DEF Ack, HandlersOK
    <3> QED BY <1>1, <2>1, <2>4, <3>1 DEF Ack, Ends, brokerVars, tableVars
  <2>5. CASE Commit(w)
    <3> DEFINE p == Core[w]
               earlier == {x \in effects : x.by = p /\ x.of = on[w]}
               m == Cardinality(earlier) + 1
    <3>1. on[w] \in Event /\ MayAct(p, on[w]) /\ Append(on[w], p) \in Event
      BY <2>1, <2>5, NextChain DEF Commit, HandlersOK
    <3>2. m \in Nat
      <4>1. earlier = {}
        BY <2>5 DEF Commit, HandlersOK, TablesOK
      <4> HIDE DEF earlier
      <4> QED BY <4>1, FS_EmptySet
    <3>3. effects' \subseteq [by : Principal, of : Event, nth : Nat]
      <4>1. effects' = effects \cup {[by |-> p, of |-> on[w], nth |-> m]}
        BY <2>5 DEF Commit
      <4> HIDE DEF m
      <4> QED BY <2>1, <3>1, <3>2, <4>1
    <3>4. /\ committed' \subseteq Event /\ committed \subseteq committed'
          /\ processed' \in [Principal -> SUBSET Event]
      BY <2>1, <2>5, <3>1 DEF Commit
    <3>5. at' \in [Worker -> {"idle", "got", "marked", "done"}] /\ on' \in [Worker -> Event]
      BY <1>1, <2>5 DEF Commit, Ends
    <3>6. acked' \in [Principal -> SUBSET committed']
      BY <2>5, <3>4 DEF Commit
    <3>7. UNCHANGED <<created, up, copies, sub>>
      BY <2>5 DEF Commit, brokerVars
    <3> QED BY <3>3, <3>4, <3>5, <3>6, <3>7
  <2> QED BY <1>7, <2>2, <2>3, <2>4, <2>5 DEF Handle
<1> QED BY <1>2, <1>3, <1>4, <1>5, <1>6, <1>7 DEF ReactionNext

\* A commit adds one chain to the outboxes, of the principal that may act.
LEMMA ChainsStep == ReactionInv /\ [ReactionNext]_reactionVars => ChainsOK'
PROOF
<1> SUFFICES ASSUME ReactionInv, [ReactionNext]_reactionVars PROVE ChainsOK'
  OBVIOUS
<1> USE ReactionAssumption DEF ReactionInv
<1>1. CASE \A w \in Worker : ~ Commit(w)
  BY <1>1, OnlyCommits DEF tableVars, ChainsOK
<1>2. ASSUME NEW w \in Worker, Commit(w) PROVE ChainsOK'
  <2> DEFINE n == Append(on[w], Core[w])
  <2>1. Core[w] \in Principal /\ on[w] \in Event /\ MayAct(Core[w], on[w])
    BY <1>2 DEF Commit, HandlersOK, ReactionTypeOK
  <2>2. n # <<>> /\ n[Len(n)] = Core[w] /\ Len(n) <= MaxDepth[Core[w]] /\ IsInjective(n)
    BY <2>1, NextChain
  <2>3. committed' = committed \cup {n}
    BY <1>2 DEF Commit
  <2> HIDE DEF n
  <2> QED BY <2>1, <2>2, <2>3 DEF ChainsOK
<1> QED BY <1>1, <1>2

\* A commit records the mark and the effect together.
LEMMA TablesStep == ReactionInv /\ [ReactionNext]_reactionVars => TablesOK'
PROOF
<1> SUFFICES ASSUME ReactionInv, [ReactionNext]_reactionVars PROVE TablesOK'
  OBVIOUS
<1> USE ReactionAssumption DEF ReactionInv
<1>1. CASE \A w \in Worker : ~ Commit(w)
  BY <1>1, OnlyCommits DEF tableVars, TablesOK, Applied
<1>2. ASSUME NEW w \in Worker, Commit(w) PROVE TablesOK'
  <2> DEFINE p == Core[w]
             m == Cardinality({x \in effects : x.by = p /\ x.of = on[w]}) + 1
  <2>1. p \in Principal /\ MayAct(p, on[w])
    BY <1>2 DEF Commit, HandlersOK, ReactionTypeOK
  <2>2. /\ effects' = effects \cup {[by |-> p, of |-> on[w], nth |-> m]}
        /\ processed' = [processed EXCEPT ![p] = @ \cup {on[w]}]
        /\ processed \in [Principal -> SUBSET Event]
    BY <1>2 DEF Commit, ReactionTypeOK
  <2> HIDE DEF m
  <2>3. \A x \in effects' : x.of \in processed'[x.by] /\ MayAct(x.by, x.of)
    BY <2>1, <2>2 DEF TablesOK, ReactionTypeOK
  <2>4. \A q \in Principal : \A e \in processed'[q] : \E x \in effects' : x.by = q /\ x.of = e
    <3> SUFFICES ASSUME NEW q \in Principal, NEW e \in processed'[q]
                 PROVE  \E x \in effects' : x.by = q /\ x.of = e
      OBVIOUS
    <3> DEFINE r == [by |-> p, of |-> on[w], nth |-> m]
    <3>1. r \in effects' /\ r.by = p /\ r.of = on[w]
      BY <2>2
    <3>2. (q = p /\ e = on[w]) \/ e \in processed[q]
      BY <2>1, <2>2
    <3>3. ASSUME e \in processed[q] PROVE \E x \in effects : x.by = q /\ x.of = e
      BY <3>3 DEF TablesOK, Applied
    <3> HIDE DEF r
    <3> QED BY <2>2, <3>1, <3>2, <3>3
  <2> QED BY <2>3, <2>4 DEF TablesOK, Applied
<1> QED BY <1>1, <1>2

\* The handler that commits is the first to: its key was not in the table.
LEMMA OnceStep == ReactionInv /\ [ReactionNext]_reactionVars => AppliedOnce'
PROOF
<1> SUFFICES ASSUME ReactionInv, [ReactionNext]_reactionVars PROVE AppliedOnce'
  OBVIOUS
<1> USE DEF ReactionInv
<1>1. CASE \A w \in Worker : ~ Commit(w)
  BY <1>1, OnlyCommits DEF tableVars, AppliedOnce
<1>2. ASSUME NEW w \in Worker, Commit(w) PROVE AppliedOnce'
  <2> DEFINE m == Cardinality({x \in effects : x.by = Core[w] /\ x.of = on[w]}) + 1
  <2>1. effects' = effects \cup {[by |-> Core[w], of |-> on[w], nth |-> m]}
    BY <1>2 DEF Commit
  <2> HIDE DEF m
  <2>2. \A x \in effects : ~ (x.by = Core[w] /\ x.of = on[w])
    BY <1>2 DEF Commit, HandlersOK, TablesOK
  <2> QED BY <2>1, <2>2 DEF AppliedOnce
<1> QED BY <1>1, <1>2

\* A step that commits nothing keeps the tables; no other handler can hold the
\* key that a commit takes.
LEMMA HandlersStep == ReactionInv /\ [ReactionNext]_reactionVars => HandlersOK'
PROOF
<1> SUFFICES ASSUME ReactionInv, [ReactionNext]_reactionVars PROVE HandlersOK'
  OBVIOUS
<1> USE ReactionAssumption DEF ReactionInv
<1> USE DEF HandlersOK
<1>1. CASE UNCHANGED <<at, on, committed, processed, effects>>
  BY <1>1 DEF Applied
<1>2. ASSUME NEW p \in Principal, Subscribe(p) PROVE HandlersOK'
  <2>1. CASE Crash(p)
    BY <2>1 DEF Crash, tableVars, Applied, ReactionTypeOK
  <2>2. CASE Bind(p) \/ BindFails(p) \/ Retry(p) \/ Cancel(p) \/ Restart(p)
    BY <1>1, <2>2 DEF Bind, BindFails, Retry, Cancel, Restart, handlerVars, tableVars
  <2> QED BY <1>2, <2>1, <2>2 DEF Subscribe
<1>3. ASSUME NEW w \in Worker, NEW e \in committed, Deliver(w, e) PROVE HandlersOK'
  BY <1>3 DEF Deliver, tableVars, Applied, ReactionTypeOK
<1>4. ASSUME NEW w \in Worker, Handle(w) PROVE HandlersOK'
  <2>1. CASE Refuse(w)
    BY <2>1 DEF Refuse, tableVars, Applied, ReactionTypeOK
  <2>2. CASE MarkProcessed(w)
    <3>1. /\ MayAct(Core[w], on[w])
          /\ \A v \in Worker : ~ (Core[v] = Core[w] /\ at[v] = "marked" /\ on[v] = on[w])
          /\ at[w] = "got"
          /\ UNCHANGED <<on, committed, processed, effects>>
      BY <2>2 DEF MarkProcessed, tableVars
    <3>2. \/ at' = [at EXCEPT ![w] = "done"] /\ on[w] \in processed[Core[w]]
          \/ at' = [at EXCEPT ![w] = "marked"] /\ on[w] \notin processed[Core[w]]
      BY <2>2 DEF MarkProcessed
    <3>3. on[w] \in processed[Core[w]] => Applied(Core[w], on[w])
      BY DEF TablesOK
    <3>4. \A p, e : Applied(p, e) => Applied(p, e)'
      BY AppliedGrows
    <3>5. /\ \A v \in Worker : v # w => at'[v] = at[v]
          /\ on' = on /\ committed' = committed /\ processed' = processed
      BY <3>1, <3>2 DEF ReactionTypeOK
    <3>6. \/ at'[w] = "done" /\ Applied(Core[w], on[w])
          \/ at'[w] = "marked" /\ on[w] \notin processed[Core[w]]
      BY <3>2, <3>3 DEF ReactionTypeOK
    <3> DEFINE Alone == \A u, v \in Worker :
                 Core[u] = Core[v] /\ at[u] = "marked" /\ at[v] = "marked" /\ on[u] = on[v] => u = v
               Held == \A v \in Worker : at[v] # "idle" => on[v] \in committed
               Marked == \A v \in Worker :
                 at[v] = "marked" => MayAct(Core[v], on[v]) /\ on[v] \notin processed[Core[v]]
               Finished == \A v \in Worker :
                 at[v] = "done" /\ MayAct(Core[v], on[v]) => Applied(Core[v], on[v])
    <3>11. Alone'
      BY <3>1, <3>5, <3>6
    <3>12. Held'
      BY <3>1, <3>5, <3>6
    <3>13. Marked'
      BY <3>1, <3>5, <3>6
    <3>14. Finished'
      BY <3>1, <3>5, <3>6 DEF Applied
    <3> QED BY <3>11, <3>12, <3>13, <3>14 DEF Applied
  <2>3. ASSUME Ends(w), UNCHANGED <<committed, processed, effects>> PROVE HandlersOK'
    BY <2>3 DEF Ends, Applied, ReactionTypeOK
  <2>4. CASE Fails(w) \/ Ack(w) \/ AckLost(w)
    BY <2>3, <2>4 DEF Fails, Ack, AckLost, tableVars
  <2>5. CASE Commit(w)
    <3>1. \A p, e : Applied(p, e) => Applied(p, e)'
      BY AppliedGrows
    <3>2. committed \subseteq committed'
      BY <2>5 DEF Commit
    <3>3. \A v \in Worker : v # w => at'[v] = at[v] /\ on'[v] = on[v]
      BY <2>5 DEF Commit, Ends, ReactionTypeOK
    <3>4. \/ at'[w] = "done" /\ on'[w] = on[w]
          \/ at'[w] = "idle"
      BY <2>5 DEF Commit, Ends, ReactionTypeOK
    <3>5. \E x \in effects' : x.by = Core[w] /\ x.of = on[w]
      <4>1. TablesOK'
        BY TablesStep
      <4>2. on[w] \in processed'[Core[w]] /\ Core[w] \in Principal
        BY <2>5 DEF Commit, ReactionTypeOK
      <4> QED BY <4>1, <4>2 DEF TablesOK, Applied
    <3>6. \A v \in Worker : at'[v] = "marked" => on'[v] \notin processed'[Core[v]]
      <4> SUFFICES ASSUME NEW v \in Worker, at'[v] = "marked" PROVE on'[v] \notin processed'[Core[v]]
        OBVIOUS
      <4>1. v # w /\ at[v] = "marked" /\ on'[v] = on[v]
        BY <3>3, <3>4
      <4>2. Core[v] = Core[w] => on[v] # on[w]
        BY <2>5, <4>1 DEF Commit
      <4>3. processed' = [processed EXCEPT ![Core[w]] = @ \cup {on[w]}]
        BY <2>5 DEF Commit
      <4> QED BY <4>1, <4>2, <4>3 DEF ReactionTypeOK
    <3>7. effects \subseteq effects'
      BY AppliedGrows
    <3>8. \A v \in Worker : at'[v] = "done" /\ MayAct(Core[v], on'[v]) =>
            \E x \in effects' : x.by = Core[v] /\ x.of = on'[v]
      BY <3>3, <3>4, <3>5, <3>7 DEF Applied
    <3> DEFINE Alone == \A u, v \in Worker :
                 Core[u] = Core[v] /\ at[u] = "marked" /\ at[v] = "marked" /\ on[u] = on[v] => u = v
               Held == \A v \in Worker : at[v] # "idle" => on[v] \in committed
               Marked == \A v \in Worker :
                 at[v] = "marked" => MayAct(Core[v], on[v]) /\ on[v] \notin processed[Core[v]]
               Finished == \A v \in Worker :
                 at[v] = "done" /\ MayAct(Core[v], on[v]) => Applied(Core[v], on[v])
    <3>11. Alone'
      BY <3>3, <3>4
    <3>10. on[w] \in committed
      BY <2>5 DEF Commit
    <3>12. Held'
      BY <3>2, <3>3, <3>4, <3>10
    <3>13. Marked'
      BY <3>3, <3>4, <3>6
    <3>14. Finished'
      BY <3>8 DEF Applied
    <3> QED BY <3>11, <3>12, <3>13, <3>14 DEF Applied
  <2> QED BY <1>4, <2>1, <2>2, <2>4, <2>5 DEF Handle
<1>5. CASE UNCHANGED reactionVars \/ Broker \/ StreamCreated \/ \E e \in committed : Republish(e)
  BY <1>1, <1>5 DEF reactionVars, handlerVars, tableVars, Broker, StreamCreated, Republish
<1> QED BY <1>2, <1>3, <1>4, <1>5 DEF ReactionNext

\* Only a handler that is done acks: its event was applied, or refused.
LEMMA AckStep == ReactionInv /\ [ReactionNext]_reactionVars => AckedIsHandled'
PROOF
<1> SUFFICES ASSUME ReactionInv, [ReactionNext]_reactionVars PROVE AckedIsHandled'
  OBVIOUS
<1> USE ReactionAssumption DEF ReactionInv
<1>1. \A p, e : Applied(p, e) => Applied(p, e)'
  BY AppliedGrows
<1>2. CASE \A p \in Principal : acked'[p] \subseteq acked[p]
  BY <1>1, <1>2 DEF AckedIsHandled
<1>3. ASSUME NEW w \in Worker, Ack(w) PROVE AckedIsHandled'
  <2>1. acked' = [acked EXCEPT ![Core[w]] = @ \cup {on[w]}]
    BY <1>3 DEF Ack
  <2>2. MayAct(Core[w], on[w]) => Applied(Core[w], on[w])
    BY <1>3 DEF Ack, HandlersOK
  <2> QED BY <1>1, <2>1, <2>2 DEF AckedIsHandled, ReactionTypeOK
<1>4. CASE \A w \in Worker : ~ Ack(w)
  <2>1. acked' = acked \/ \E e \in committed : Republish(e)
    BY <1>4 DEF ReactionNext, reactionVars, brokerVars, handlerVars, tableVars, Broker, StreamCreated, Subscribe, Bind,
       BindFails, Retry, Cancel, Crash, Restart, Deliver, Handle, Refuse, MarkProcessed,
       Fails, Commit, AckLost
  <2> QED BY <1>2, <2>1 DEF Republish, ReactionTypeOK
<1> QED BY <1>3, <1>4

---------------------------------------------------------------------------
\* The invariant of the handlers, the tables, the chains and the acks.
THEOREM ReactionInvHolds == ReactionSpec => []ReactionInv
PROOF
<1>1. ReactionInv /\ [ReactionNext]_reactionVars => ReactionInv'
  BY TypeStep, HandlersStep, TablesStep, ChainsStep, OnceStep, AckStep DEF ReactionInv
<1> QED BY InvInit, <1>1, PTL DEF ReactionSpec

\* "The uniqueness of the primary key is what makes this race-free"
\* (MarkProcessed): one transaction of a Core applies an event.
THEOREM AppliedOnceHolds == ReactionSpec => []AppliedOnce
PROOF
<1>1. ReactionInv => AppliedOnce
  BY DEF ReactionInv
<1> QED BY ReactionInvHolds, <1>1, PTL

\* What a durable has been acked was applied, unless the loop guard refused it.
THEOREM AckedIsHandledHolds == ReactionSpec => []AckedIsHandled
PROOF
<1>1. ReactionInv => AckedIsHandled
  BY DEF ReactionInv
<1> QED BY ReactionInvHolds, <1>1, PTL

\* The loop guard (NextCausation): who applied an event is on the chain of all
\* that follows from it, and so may not act on any of that.
THEOREM ActsOnceHolds == ReactionSpec => []ActsOnce
PROOF
<1>1. ReactionInv => ActsOnce
  <2> SUFFICES ASSUME ReactionInv, NEW x \in effects, NEW y \in effects,
                      Len(x.of) < Len(y.of),
                      SubSeq(y.of, 1, Len(x.of) + 1) = Append(x.of, x.by)
               PROVE  x.by # y.by
    BY DEF ActsOnce
  <2>1. /\ x.of \in Seq(Actor) /\ y.of \in Seq(Actor)
        /\ x.by \in Actor
        /\ MayAct(y.by, y.of)
    BY ReactionAssumption DEF ReactionInv, ReactionTypeOK, TablesOK, Event
  <2> DEFINE i == Len(x.of) + 1
  <2>2. i \in 1 .. Len(y.of) /\ DOMAIN y.of = 1 .. Len(y.of)
    BY <2>1
  <2>3. Append(x.of, x.by)[i] = x.by
    BY <2>1
  <2>4. SubSeq(y.of, 1, i)[i] = y.of[i]
    BY <2>1, <2>2
  <2>5. x.by \in Range(y.of)
    BY <2>2, <2>3, <2>4 DEF Range
  <2> QED BY <2>1, <2>5 DEF MayAct
<1> QED BY ReactionInvHolds, <1>1, PTL
=============================================================================
