----------------------------- MODULE References -----------------------------
(* What a consumer is told of the catalogs of core-divisions. The client    *)
(* holds the tree of divisions, the cost centres and the asset types of a   *)
(* tenant whole, each fetched and running out on its own, while             *)
(* core-divisions goes on changing them; a check of coherence reads two of  *)
(* them, one after the other, and a fetch takes its time: what arrives may  *)
(* have changed since it was read. OrgTree has the walks over one snapshot  *)
(* and PlatformClient the ages of tenants' snapshots; the cost centres are  *)
(* their anchors here, the asset types whether they are active: their axes  *)
(* never change.                                                            *)
EXTENDS Naturals, Sequences, FiniteSets

CONSTANTS
  Ids, Days, Windows, NotFound, Broken, Endless,   \* as in OrgTree
  Centers,       \* the ids of cost centres
  Types,         \* the ids of asset types
  SnapshotTTL,   \* for how long a snapshot is served
  MaxWait,       \* for how long one call may take
  Askers,        \* the callers that may be fetching at once
  NoShot,        \* no snapshot is held, no fetch under way, nothing read yet
  NoTask,        \* no check of coherence is under way
  MaxEdits       \* bound: how often core-divisions changes a catalog

ASSUME ReferencesAssumption ==
  /\ SnapshotTTL \in Nat \ {0} /\ MaxWait \in Nat
  /\ Ids \subseteq Nat \ {0} /\ IsFiniteSet(Ids) /\ {1, 2} \subseteq Ids
  /\ \A ids \in SUBSET Ids : ids \notin {NotFound, Endless}
  /\ \A n \in 0 .. Cardinality(Ids) : \A path \in [1 .. n -> Ids] : path \notin {NotFound, Broken}

VARIABLES
  store,   \* the catalogs of core-divisions
  past,    \* what they were, and how long ago
  held,    \* the client's snapshots, and how long ago each was stored
  asked,   \* the fetches under way, each with what was read, and for how long
  task,    \* a check of coherence that has the anchor and goes on to the tree
  edits

referencesVars == <<store, past, held, asked, task, edits>>

Walks(nodes) == INSTANCE OrgTree

-----------------------------------------------------------------------------
(* core-divisions, as its interface describes it. *)
Division(parent, active) == [parent |-> parent, active |-> active, window |-> <<0, 0>>]

\* From a node up to the root.
Lineage(tree, id) ==
  LET up[n \in DOMAIN tree] ==
        {n} \cup (IF tree[n].parent = 0 THEN {} ELSE up[tree[n].parent])
  IN up[id]

\* ListDescendants: the node itself and all that hangs below it.
ListDescendants(tree, root) == {id \in DOMAIN tree : root \in Lineage(tree, id)}

\* ValidateRefs: it exists, and it and the whole chain above it are active.
ValidateRefs(tree, id) == id \in DOMAIN tree /\ \A a \in Lineage(tree, id) : tree[a].active

Level(tree, id) == Cardinality(Lineage(tree, id))

Write(catalog, content) ==
  /\ content # store[catalog]
  /\ store' = [store EXCEPT ![catalog] = content]
  /\ past' = [past EXCEPT ![catalog] = @ \cup {[content |-> store[catalog], gone |-> 0]}]
  /\ edits' = edits + 1
  /\ UNCHANGED <<held, asked, task>>

Fresh == Ids \ DOMAIN store.org

Added(content, id, value) ==
  [x \in DOMAIN content \cup {id} |-> IF x = id THEN value ELSE content[x]]

CreateDivision(parent) ==
  \E id \in Fresh : Write("org", Added(store.org, id, Division(parent, TRUE)))

\* Under another parent of the same level, with its subtree, without a cycle.
MoveDivision(id, parent) ==
  /\ store.org[id].parent # 0
  /\ Level(store.org, parent) = Level(store.org, store.org[id].parent)
  /\ parent \notin ListDescendants(store.org, id)
  /\ Write("org", [store.org EXCEPT ![id].parent = parent])

SetDivisionActive(id, active) ==
  /\ store.org[id].parent # 0
  /\ Write("org", [store.org EXCEPT ![id].active = active])

\* The children of the nodes of split hang below bridges, and these below them.
Split(tree, split, bridge) ==
  LET bridges == {bridge[p] : p \in split}
  IN [id \in DOMAIN tree \cup bridges |->
        IF id \in bridges THEN Division(CHOOSE p \in split : bridge[p] = id, TRUE)
        ELSE IF tree[id].parent \in split THEN [tree[id] EXCEPT !.parent = bridge[@]]
        ELSE tree[id]]

\* A bridge below each node of a level that has children, and they below it.
InsertLevel(level) ==
  LET split == {store.org[id].parent : id \in DOMAIN store.org} \cap
               {id \in DOMAIN store.org : Level(store.org, id) = level}
  IN \E bridge \in [split -> Fresh] :
       /\ \A p, q \in split : bridge[p] = bridge[q] => p = q
       /\ Write("org", Split(store.org, split, bridge))

CreateCostCenter(center, anchor) ==
  /\ center \notin DOMAIN store.centers
  /\ Write("centers", Added(store.centers, center, anchor))

UpdateCostCenter(center, anchor) ==
  /\ center \in DOMAIN store.centers
  /\ Write("centers", [store.centers EXCEPT ![center] = anchor])

CreateAssetType(type) ==
  /\ type \notin DOMAIN store.types
  /\ Write("types", Added(store.types, type, TRUE))

SetAssetTypeActive(type, active) ==
  Write("types", [store.types EXCEPT ![type] = active])

Edit ==
  /\ edits < MaxEdits
  /\ \/ \E id \in DOMAIN store.org :
          \/ CreateDivision(id)
          \/ \E parent \in DOMAIN store.org : MoveDivision(id, parent)
          \/ \E active \in BOOLEAN : SetDivisionActive(id, active)
     \/ \E level \in 1 .. Cardinality(Ids) : InsertLevel(level)
     \/ \E center \in Centers, anchor \in DOMAIN store.org :
          CreateCostCenter(center, anchor) \/ UpdateCostCenter(center, anchor)
     \/ \E type \in Types : CreateAssetType(type)
     \/ \E type \in DOMAIN store.types, active \in BOOLEAN : SetAssetTypeActive(type, active)

-----------------------------------------------------------------------------
(* The client. *)
ListAssetTypes(includeInactive) ==
  [type \in {t \in DOMAIN store.types : includeInactive \/ store.types[t]} |-> store.types[type]]

GetTree == store.org
GetCostCenterTree == store.centers

\* Mutant: only the active types are asked for.
FetchActive(catalog) ==
  CASE catalog = "org" -> GetTree
    [] catalog = "centers" -> GetCostCenterTree
    [] catalog = "types" -> ListAssetTypes(FALSE)

\* The whole of a catalog, with the types that are no longer active.
Fetch(catalog) ==
  CASE catalog = "org" -> GetTree
    [] catalog = "centers" -> GetCostCenterTree
    [] catalog = "types" -> ListAssetTypes(TRUE)

\* treeFor, costCentersFor and assetTypesFor. A snapshot that is held answers;
\* else a request goes out with the mutex free, maybe beside another caller's,
Content(catalog) == held[catalog].content

FetchBegins(caller, catalog) ==
  /\ asked[caller] = NoShot /\ held[catalog] = NoShot
  /\ asked' = [asked EXCEPT ![caller] = [catalog |-> catalog, content |-> NoShot, waited |-> 0]]
  /\ UNCHANGED <<store, past, held, task, edits>>

\* core-divisions reads what it has by then,
FetchReads(caller) ==
  /\ asked[caller] # NoShot /\ asked[caller].content = NoShot
  /\ asked' = [asked EXCEPT ![caller].content = Fetch(asked[caller].catalog)]
  /\ UNCHANGED <<store, past, held, task, edits>>

\* and the reply is stored when it arrives, stamped with that moment, over
\* whatever another caller's left there; its own caller answers from it.
FetchLands(caller) ==
  /\ asked[caller] # NoShot /\ asked[caller].content # NoShot
  /\ held' = [held EXCEPT ![asked[caller].catalog] =
                 [content |-> asked[caller].content, age |-> 0]]
  /\ asked' = [asked EXCEPT ![caller] = NoShot]
  /\ UNCHANGED <<store, past, task, edits>>

\* The call fails, or runs into callTimeout: nothing is stored.
FetchFails(caller) ==
  /\ asked[caller] # NoShot
  /\ asked' = [asked EXCEPT ![caller] = NoShot]
  /\ UNCHANGED <<store, past, held, task, edits>>

\* What is said of what is held.
ValidateDivision(id) == Walks(Content("org"))!Validate(id, 1) = "valid"
Subtree(root) == Walks(Content("org"))!Subtree(root)
PathTo(id) == Walks(Content("org"))!Ancestors(id)
ListTypes == DOMAIN Content("types")

\* An item may keep a type that is no longer active, but not get one.
GetType(type) == type \in ListTypes
ValidateType(type) == type \in ListTypes /\ Content("types")[type]

\* CheckCoherence(division, center): the anchor of the centre first, and then
\* whether the division is in its subtree.
Anchor(center) == IF center \in DOMAIN Content("centers") THEN Content("centers")[center] ELSE NotFound
Covers(division, anchor) == Walks(Content("org"))!CheckCoherence(division, anchor)

BeginCheck(division, center) ==
  /\ task = NoTask /\ held["centers"] # NoShot
  /\ Anchor(center) # NotFound
  /\ task' = [division |-> division, center |-> center, anchor |-> Anchor(center), waited |-> 0]
  /\ UNCHANGED <<store, past, held, asked, edits>>

\* With the tree that is held, or when the one it fetched has landed.
EndCheck ==
  /\ task # NoTask /\ held["org"] # NoShot
  /\ task' = NoTask
  /\ UNCHANGED <<store, past, held, asked, edits>>

\* The fetch of the tree fails: nothing is assumed of the reference.
FailCheck ==
  /\ task # NoTask
  /\ task' = NoTask
  /\ UNCHANGED <<store, past, held, asked, edits>>

\* For how long what a catalog was is of interest: a fetch, the life of the
\* snapshot it leaves, and a check that has an anchor from it.
Memory == SnapshotTTL + MaxWait + MaxWait

Older(x) == IF x = NoShot THEN NoShot ELSE [x EXCEPT !.waited = @ + 1]

\* No call outlasts callTimeout; a snapshot of the age of the TTL is not served.
Pass ==
  /\ task # NoTask => task.waited < MaxWait
  /\ \A c \in Askers : asked[c] # NoShot => asked[c].waited < MaxWait
  /\ task' = IF task = NoTask THEN task ELSE [task EXCEPT !.waited = @ + 1]
  /\ asked' = [c \in Askers |-> Older(asked[c])]
  /\ held' = [c \in DOMAIN held |->
                IF held[c] # NoShot /\ held[c].age + 1 < SnapshotTTL
                THEN [held[c] EXCEPT !.age = @ + 1] ELSE NoShot]
  /\ past' = [c \in DOMAIN past |->
                {[p EXCEPT !.gone = @ + 1] : p \in {q \in past[c] : q.gone < Memory}}]
  /\ UNCHANGED <<store, edits>>

Catalogs == {"org", "centers", "types"}

\* The root division and one below it; no asset type, and no cost centre but
\* the root, which is left out.
ReferencesInit ==
  /\ store = [org |-> [id \in {1, 2} |-> Division(id - 1, TRUE)],
              centers |-> << >>, types |-> << >>]
  /\ past = [c \in Catalogs |-> {}]
  /\ held = [c \in Catalogs |-> NoShot]
  /\ asked = [c \in Askers |-> NoShot]
  /\ task = NoTask /\ edits = 0

ReferencesNext ==
  \/ Edit \/ Pass \/ EndCheck \/ FailCheck
  \/ \E caller \in Askers :
       \/ \E catalog \in Catalogs : FetchBegins(caller, catalog)
       \/ FetchReads(caller) \/ FetchLands(caller) \/ FetchFails(caller)
  \/ \E division \in Ids, center \in Centers : BeginCheck(division, center)

ReferencesSpec == ReferencesInit /\ [][ReferencesNext]_referencesVars

-----------------------------------------------------------------------------
\* What a catalog was when a snapshot may have been read that was still served
\* some time ago.
Recent(catalog, ago) ==
  {store[catalog]} \cup
    {p.content : p \in {q \in past[catalog] : q.gone < SnapshotTTL + MaxWait + ago}}

\* PathTo lists each node after its parent, from the root to id.
IsPath(tree, id, chain) ==
  /\ {chain[i] : i \in DOMAIN chain} \subseteq DOMAIN tree
  /\ chain[Len(chain)] = id /\ tree[chain[1]].parent = 0
  /\ \A i \in 2 .. Len(chain) : tree[chain[i]].parent = chain[i - 1]

DivisionsAreTrue ==
  held["org"] # NoShot =>
    \A id \in Ids :
       /\ \E tree \in Recent("org", 0) : ValidateDivision(id) = ValidateRefs(tree, id)
       /\ \E tree \in Recent("org", 0) :
            Subtree(id) = IF id \in DOMAIN tree THEN ListDescendants(tree, id) ELSE NotFound
       /\ \E tree \in Recent("org", 0) :
            IF id \in DOMAIN tree THEN PathTo(id) \notin {NotFound, Broken} /\ IsPath(tree, id, PathTo(id))
            ELSE PathTo(id) = NotFound

TypesAreTrue ==
  held["types"] # NoShot => \E types \in Recent("types", 0) :
    /\ ListTypes = DOMAIN types
    /\ \A type \in Types :
         /\ GetType(type) = (type \in DOMAIN types)
         /\ ValidateType(type) = (type \in DOMAIN types /\ types[type])

\* A check that takes a while takes the anchor from an older catalog than the
\* tree, each of them one that was.
CoherenceIsTrue ==
  /\ held["centers"] # NoShot =>
       \A center \in Centers : \E centers \in Recent("centers", 0) :
         Anchor(center) = IF center \in DOMAIN centers THEN centers[center] ELSE NotFound
  /\ task # NoTask /\ held["org"] # NoShot =>
       \E tree \in Recent("org", 0), centers \in Recent("centers", task.waited) :
         /\ task.center \in DOMAIN centers
         /\ Covers(task.division, task.anchor) =
              IF centers[task.center] \notin DOMAIN tree THEN NotFound
              ELSE task.division \in ListDescendants(tree, centers[task.center])

\* Every answer is one that core-divisions itself would have given, of each
\* catalog as it was less than a TTL and a call ago: a snapshot is stamped when
\* it arrives and not when it was read, so that the minute of client.go:22-24
\* is a minute and callTimeout. A type that is no longer active is still what it
\* was to the items that have it (catalogs.go:63-73, 168-180).
ReferencesWereTrue == DivisionsAreTrue /\ TypesAreTrue /\ CoherenceIsTrue

\* Every division is below a root: no set of them holds the parent of each.
IsTree(tree) ==
  /\ DOMAIN tree \subseteq Ids
  /\ tree \in [DOMAIN tree -> [parent : DOMAIN tree \cup {0}, active : BOOLEAN, window : {<<0, 0>>}]]
  /\ \A ids \in SUBSET DOMAIN tree : ids # {} => \E id \in ids : tree[id].parent \notin ids

IsCatalog(catalog, content) ==
  CASE catalog = "org" -> IsTree(content)
    [] catalog = "centers" -> content \in [DOMAIN content -> Ids]
    [] catalog = "types" -> content \in [DOMAIN content -> BOOLEAN]

\* What core-divisions had some time ago or has had since.
Had(catalog, content, ago) ==
  content = store[catalog] \/ \E p \in past[catalog] : p.content = content /\ p.gone <= ago

CatalogsOK ==
  \A c \in Catalogs :
    /\ IsCatalog(c, store[c])
    /\ \A p \in past[c] :
         /\ p \in [content : {p.content}, gone : 0 .. Memory]
         /\ IsCatalog(c, p.content)

\* A reply is of a catalog that there was since it was asked for, ...
AskedOK ==
  /\ DOMAIN asked = Askers
  /\ \A a \in Askers : asked[a] # NoShot =>
       /\ asked[a] \in [catalog : Catalogs, content : {asked[a].content}, waited : 0 .. MaxWait]
       /\ asked[a].content # NoShot => Had(asked[a].catalog, asked[a].content, asked[a].waited)

\* a snapshot of one of no longer ago than its age and a call, ...
HeldOK ==
  \A c \in Catalogs : held[c] # NoShot =>
    /\ held[c] \in [content : {held[c].content}, age : 0 .. SnapshotTTL - 1]
    /\ Had(c, held[c].content, held[c].age + MaxWait)

\* and the anchor under way was that of its centre in one that was held.
TaskOK ==
  task # NoTask =>
    /\ task \in [division : Ids, center : Centers, anchor : {task.anchor}, waited : 0 .. MaxWait]
    /\ \E centers \in Recent("centers", task.waited) :
         task.center \in DOMAIN centers /\ task.anchor = centers[task.center]

ReferencesInv ==
  /\ DOMAIN store = Catalogs /\ DOMAIN past = Catalogs /\ DOMAIN held = Catalogs
  /\ CatalogsOK /\ AskedOK /\ HeldOK /\ TaskOK
=============================================================================
