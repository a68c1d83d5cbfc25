----------------------------- MODULE Neighbours -----------------------------
(* What a Core asks of two neighbours and never keeps: whether suppliers    *)
(* exist and are active (parties), and what a policy says of a batch of     *)
(* items (pdp). Both neighbours change while a call is under way. The order *)
(* and the repetition of the ids of a lookup do not matter, so a lookup is  *)
(* of a set. Gate has the single check and PlatformClient the identity a    *)
(* call goes out with; either may refuse, which is Unsent here.             *)
EXTENDS Integers, Sequences, FiniteSets

CONSTANTS
  SupplierIds,   \* the ids core-clients may give, which fit its width
  Width,         \* its ids are below 2^Width: 32 in the contract
  Lookups,       \* the batches of ids a Core looks up, which are 64 bits wide
  LookupCap,     \* the most ids core-clients answers for
  Subjects,      \* <<tenant, subject, type>>
  Resources,     \* what is asked about, with the action
  Batches,       \* the sequences of [subject, resource] a Core asks about
  MaxBatch,      \* the most items of one batch
  Nobody,        \* no call is under way
  NotYet,        \* the neighbour has not answered
  Failed,        \* the error of a call
  MaxShifts      \* bound: how often a neighbour changes what it would say

ASSUME NeighboursAssumption ==
  /\ Width \in Nat /\ SupplierIds \subseteq 1 .. 2 ^ Width - 1
  /\ MaxBatch \in Nat \ {0} /\ LookupCap \in Nat
  /\ \A items \in Batches : items \in Seq({items[i] : i \in DOMAIN items})

VARIABLES
  suppliers,   \* core-clients: a supplier's id to whether it is active
  ledger,      \* the PDP: what is granted, revision by revision
  lookup,      \* a lookup under way, with what suppliers was meanwhile
  batch,       \* a batch under way, and what it was asked with
  decidedAt,   \* the token of the freshest decision the Core has been given
  heard        \* what the last step told the Core of its call

neighboursVars == <<suppliers, ledger, lookup, batch, decidedAt, heard>>

-----------------------------------------------------------------------------
(* The neighbours, as their contracts describe them. *)
Block ==
  /\ lookup # Nobody => Cardinality(lookup.during) <= MaxShifts
  /\ \E id \in SupplierIds, active \in BOOLEAN :
       suppliers' = [s \in DOMAIN suppliers \cup {id} |-> IF s = id THEN active ELSE suppliers[s]]
  /\ suppliers' # suppliers
  /\ lookup' = IF lookup = Nobody THEN Nobody ELSE [lookup EXCEPT !.during = @ \cup {suppliers'}]
  /\ heard' = NotYet
  /\ UNCHANGED <<ledger, batch, decidedAt>>

Grant ==
  /\ Len(ledger) <= MaxShifts
  /\ \E granted \in SUBSET (Subjects \X Resources) : ledger' = Append(ledger, granted)
  /\ heard' = NotYet
  /\ UNCHANGED <<suppliers, lookup, batch, decidedAt>>

\* core-clients reads its table once; what is no supplier is left out.
ClientsServe ==
  /\ lookup # Nobody /\ lookup.reply = NotYet
  /\ lookup' = [lookup EXCEPT !.reply =
       IF Cardinality(lookup.wire) > LookupCap THEN Failed
       ELSE [id \in lookup.wire \cap DOMAIN suppliers |-> suppliers[id]]]
  /\ heard' = NotYet
  /\ UNCHANGED <<suppliers, ledger, batch, decidedAt>>

Denied == [allowed |-> FALSE, decidedAt |-> 0]

\* An instance of the PDP decides on a revision it has, not before the one the
\* token names; a token ahead of what it has is denied.
Decides(item, revision) ==
  IF item.token > revision THEN Denied
  ELSE [allowed |-> <<item.subject, item.resource>> \in ledger[revision], decidedAt |-> revision]

\* An older PDP has no such call, and one with a fault leaves a result out.
PdpServe ==
  /\ batch # Nobody /\ batch.reply = NotYet
  /\ \E revision \in DOMAIN ledger :
       LET results == [i \in DOMAIN batch.wire |-> Decides(batch.wire[i], revision)]
       IN \E reply \in {results, Tail(results), Failed} : batch' = [batch EXCEPT !.reply = reply]
  /\ heard' = NotYet
  /\ UNCHANGED <<suppliers, ledger, lookup, decidedAt>>

-----------------------------------------------------------------------------
(* The lookup. *)
\* Mutant: every id goes out, cut to its width.
CutIds(ids) == {id % 2 ^ Width : id \in ids}

\* An id that core-clients cannot have is not asked about.
WireIds(ids) == {id \in ids : 0 < id /\ id <= 2 ^ Width - 1}

Hears(of, said) == heard' = [of |-> of, said |-> said]

\* No backend (Stub), no bearer and no service token: an empty batch needs none.
LookupSuppliers(ids) ==
  /\ lookup = Nobody
  /\ IF ids = {}
     THEN /\ Hears([call |-> "lookup", ids |-> {}, during |-> {suppliers}], << >>)
          /\ UNCHANGED lookup
     ELSE /\ lookup' = [call |-> "lookup", ids |-> ids, wire |-> WireIds(ids),
                        during |-> {suppliers}, reply |-> NotYet]
          /\ heard' = NotYet
  /\ UNCHANGED <<suppliers, ledger, batch, decidedAt>>

\* What came back is held by the ids it names.
LookedUp ==
  /\ lookup # Nobody /\ lookup.reply # NotYet
  /\ Hears([call |-> "lookup", ids |-> lookup.ids, during |-> lookup.during], lookup.reply)
  /\ lookup' = Nobody
  /\ UNCHANGED <<suppliers, ledger, batch, decidedAt>>

\* Refused here, or the neighbour is down (which fails at once), or the ten
\* seconds are over, whatever core-clients did meanwhile.
LookupFails ==
  /\ lookup # Nobody
  /\ Hears([call |-> "lookup", ids |-> lookup.ids, during |-> lookup.during], Failed)
  /\ lookup' = Nobody
  /\ UNCHANGED <<suppliers, ledger, batch, decidedAt>>

-----------------------------------------------------------------------------
(* The batch of permissions. *)
SameSubject(items) == \A i \in DOMAIN items : items[i].subject = items[1].subject

ToProto(item, token) == [subject |-> item.subject, resource |-> item.resource, token |-> token]

\* Each item asks for a decision as fresh as the token, 0 being none; more than
\* MaxBatch and a mixture of subjects do not leave the Core.
BatchAllowed(items, token) ==
  /\ batch = Nobody
  /\ IF items = << >> \/ Len(items) > MaxBatch \/ ~SameSubject(items)
     THEN /\ Hears([call |-> "batch", items |-> items, token |-> token],
                   IF items = << >> THEN << >> ELSE Failed)
          /\ UNCHANGED batch
     ELSE /\ batch' = [call |-> "batch", items |-> items, token |-> token,
                       wire |-> [i \in DOMAIN items |-> ToProto(items[i], token)], reply |-> NotYet]
          /\ heard' = NotYet
  /\ UNCHANGED <<suppliers, ledger, lookup, decidedAt>>

\* All or nothing.
FromProto(items, reply) ==
  IF reply = Failed THEN Failed ELSE IF Len(reply) # Len(items) THEN Failed ELSE reply

Latest(decisions) ==
  {decisions[i].decidedAt : i \in DOMAIN decisions} \cup {decidedAt}

BatchDone ==
  /\ batch # Nobody /\ batch.reply # NotYet
  /\ LET said == FromProto(batch.items, batch.reply)
     IN /\ Hears([call |-> "batch", items |-> batch.items, token |-> batch.token], said)
        /\ decidedAt' = IF said = Failed THEN decidedAt
                        ELSE CHOOSE d \in Latest(said) : \A e \in Latest(said) : d >= e
  /\ batch' = Nobody
  /\ UNCHANGED <<suppliers, ledger, lookup>>

\* The five seconds are over, which a PDP that is down is waited for.
BatchFails ==
  /\ batch # Nobody
  /\ Hears([call |-> "batch", items |-> batch.items, token |-> batch.token], Failed)
  /\ batch' = Nobody
  /\ UNCHANGED <<suppliers, ledger, lookup, decidedAt>>

NeighboursInit ==
  /\ suppliers = << >> /\ ledger = << {} >>
  /\ lookup = Nobody /\ batch = Nobody
  /\ decidedAt = 0 /\ heard = NotYet

LookupNext ==
  Block \/ ClientsServe \/ LookedUp \/ LookupFails \/ \E ids \in Lookups : LookupSuppliers(ids)

BatchNext ==
  \/ Grant \/ PdpServe \/ BatchDone \/ BatchFails
  \/ \E items \in Batches, token \in {0, decidedAt} : BatchAllowed(items, token)

NeighboursNext == LookupNext \/ BatchNext

NeighboursSpec == NeighboursInit /\ [][NeighboursNext]_neighboursVars

-----------------------------------------------------------------------------
\* One table of suppliers, as it was at some moment of the call, has exactly
\* those of the asked ids that the answer has, and says the same of them.
LookupIsTrue(of, said) ==
  \E table \in of.during : said = [id \in of.ids \cap DOMAIN table |-> table[id]]

\* There is a decision for each item, made of that item, and no older than the
\* token it was asked with, unless it denies.
BatchIsTrue(of, said) ==
  /\ DOMAIN said = DOMAIN of.items
  /\ \A i \in DOMAIN said :
       said[i] = Denied \/
         /\ said[i].decidedAt >= of.token
         /\ said[i].allowed = (<<of.items[i].subject, of.items[i].resource>> \in ledger[said[i].decidedAt])

\* What a neighbour is reported to have said is what it knew while the call
\* lasted, of what was asked and of nothing else; a revocation that the Core
\* has already been told of is not undone by an answer that lags; and a call
\* that got no whole answer says so (parties/client.go:8-18, 45-49;
\* pdp/client.go:40-43, 139-154).
NeighboursAreHeard ==
  heard # NotYet /\ heard.said # Failed =>
    IF heard.of.call = "lookup" THEN LookupIsTrue(heard.of, heard.said)
    ELSE BatchIsTrue(heard.of, heard.said)

Ledgers == Seq(SUBSET (Subjects \X Resources))
Tables == UNION {[ids -> BOOLEAN] : ids \in SUBSET SupplierIds}
LookupReply(ids, table) == [id \in WireIds(ids) \cap DOMAIN table |-> table[id]]
BatchReply(items, token, revision) ==
  [i \in DOMAIN items |-> Decides(ToProto(items[i], token), revision)]

\* What is under way is what was asked for, and what has come back of it is
\* of a table or a revision that the neighbour had.
LookupUnderWay ==
  lookup # Nobody =>
    /\ lookup.wire = WireIds(lookup.ids)
    /\ suppliers \in lookup.during /\ lookup.during \subseteq Tables
    /\ lookup.reply \in {NotYet, Failed} \cup {LookupReply(lookup.ids, t) : t \in lookup.during}

BatchUnderWay ==
  batch # Nobody =>
    /\ batch.items \in Batches /\ batch.items # << >>
    /\ batch.token \in Nat
    /\ batch.wire = [i \in DOMAIN batch.items |-> ToProto(batch.items[i], batch.token)]
    /\ \/ batch.reply \in {NotYet, Failed}
       \/ \E revision \in DOMAIN ledger :
            LET results == BatchReply(batch.items, batch.token, revision)
            IN batch.reply \in {results, Tail(results)}

NeighboursInv ==
  /\ suppliers \in Tables /\ ledger \in Ledgers /\ decidedAt \in Nat
  /\ LookupUnderWay /\ BatchUnderWay /\ NeighboursAreHeard
=============================================================================
