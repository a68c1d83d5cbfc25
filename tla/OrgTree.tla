------------------------------ MODULE OrgTree ------------------------------
(* What the divisions client answers from one snapshot of a tenant's tree:  *)
(* the organizational tree (divisions/client.go) and the tree of cost       *)
(* centres (divisions/catalogs.go), which walk alike. A node of the first   *)
(* has no window and no anchor that counts. The snapshot is what GetTree or *)
(* GetCostCenterTree last returned; its freshness is PlatformClient's       *)
(* subject. The client checks nothing of it, so a parent may be missing and *)
(* a chain may be a cycle.                                                  *)
EXTENDS Naturals, FiniteSets, Sequences

CONSTANTS
  Ids,      \* the ids of nodes; 0 is the parent of a root
  Days,     \* the civil days on which references are validated
  Windows,  \* <<starts, ends>> of a node; 0 stands for no limit
  NotFound, \* the answer for an id the snapshot lacks
  Broken,   \* the error of a chain of ancestors that does not end in a root
  Endless   \* the loop does not end

ASSUME IdsAssumption == Ids \subseteq Nat \ {0} /\ IsFiniteSet(Ids)
ASSUME DaysAssumption == Days \subseteq Nat \ {0}
ASSUME WindowsAssumption == Windows \subseteq Nat \X Nat
ASSUME ErrorsAssumption ==
  Broken \notin Seq(Ids) /\ \A ids \in SUBSET Ids : ids \notin {NotFound, Endless}

VARIABLE nodes   \* the snapshot: a function from the ids it has to nodes

Node == [parent : Ids \cup {0}, active : BOOLEAN, window : Windows]

-----------------------------------------------------------------------------
(* The walks. *)
Known == DOMAIN nodes
Size == Cardinality(Known)

\* buildTree's index: the parent pointers turned round.
Children(parent) == {id \in Known : nodes[id].parent = parent}

\* The ids met when following parents from id, by number of steps. The walk
\* stays at 0 above a root and at an id the snapshot does not have.
Chain(id) ==
  LET up[k \in 0 .. Size + 1] ==
        IF k = 0 THEN id
        ELSE IF up[k - 1] \in Known THEN nodes[up[k - 1]].parent ELSE up[k - 1]
  IN up

\* The nodes of a subtree, one layer of children after the other; the queue
\* of the code holds the layers end to end and never empties on a cycle.
Layers(root) ==
  LET layer[k \in 0 .. Size] ==
        IF k = 0 THEN {root} ELSE UNION {Children(id) : id \in layer[k - 1]}
  IN layer

Subtree(root) ==
  IF root \notin Known THEN NotFound
  ELSE IF Layers(root)[Size] # {} THEN Endless
  ELSE UNION {Layers(root)[k] : k \in 0 .. Size}

\* Mutant: one round too few for a chain through every node.
OneRoundShort == IF Size = 0 THEN 0 ELSE Size - 1

\* How many rounds the loop of Path and Ancestors may take.
StepBound == Size + 1

\* From the root down to id itself, as Path's codes are.
Ancestors(id) ==
  LET chain == Chain(id)
      roots == {k \in 1 .. StepBound : chain[k] = 0}
  IN IF id \notin Known THEN NotFound
     ELSE IF roots = {} THEN Broken
     ELSE LET top == CHOOSE k \in roots : \A j \in roots : k <= j
          IN [i \in 1 .. top |-> chain[top - i]]

\* windowReason: the node is not open on that day.
Closed(id, today) ==
  LET starts == nodes[id].window[1]
      ends == nodes[id].window[2]
  IN \/ starts # 0 /\ today < starts
     \/ ends # 0 /\ today > ends

Rejects(id, today) == id \notin Known \/ ~nodes[id].active \/ Closed(id, today)

\* validate asks the same of the node and of each ancestor, and has no bound
\* on its steps.
Validate(id, today) ==
  LET chain == Chain(id)
      asked == {k \in DOMAIN chain : chain[k] # 0}
  IN IF \E k \in asked : Rejects(chain[k], today) THEN "invalid"
     ELSE IF asked = DOMAIN chain THEN Endless
     ELSE "valid"

\* A cost centre anchored at anchor may be used in that division.
CheckCoherence(division, anchor) ==
  LET below == Subtree(anchor)
  IN IF below \in {NotFound, Endless} THEN below ELSE division \in below

-----------------------------------------------------------------------------
(* The owner of the tree creates, moves, switches or re-dates one node, or  *)
(* removes it; the client sees the next snapshot.                           *)
Init == nodes = << >>

Put(id, node) ==
  nodes' = [other \in Known \cup {id} |-> IF other = id THEN node ELSE nodes[other]]
Delete(id) == id \in Known /\ nodes' = [other \in Known \ {id} |-> nodes[other]]

Edit(id) == Delete(id) \/ \E node \in Node : Put(id, node)

Next == \E id \in Ids : Edit(id)

Spec == Init /\ [][Next]_nodes

\* The nodes of a snapshot are nodes.
SnapshotInv == Known \subseteq Ids /\ \A id \in Known : nodes[id] \in Node

-----------------------------------------------------------------------------
(* The tree the client means: what is above a node is in every set that has *)
(* the node's parent and is closed under "is the parent of".                *)
ClosedUp(ids, id) == \A node \in Known \cap (ids \cup {id}) : nodes[node].parent \in ids \cup {0}

Above(id) == {a \in Ids : \A ids \in SUBSET Ids : ClosedUp(ids, id) => a \in ids}

WellFormed ==
  /\ \A id \in Known : nodes[id].parent \in Known \cup {0}
  /\ \A id \in Ids : id \notin Above(id)

\* Subtree answers with exactly the node and what hangs below it, whatever
\* the depth (client.go:202-205, catalogs.go:135-138).
SubtreeIsBelow ==
  WellFormed => \A root \in Known :
    Subtree(root) = {root} \cup {id \in Ids : root \in Above(id)}

\* Ancestors lists exactly what lies above a node, each after its own parent,
\* and answers with an error, and not with part of a chain, when that chain is
\* a cycle or has a hole (client.go:244-257).
AncestorsAreAbove ==
  \A id \in Known :
    LET chain == Ancestors(id)
        above == {id} \cup Above(id)
        whole == above \subseteq Known /\ \A a \in above : a \notin Above(a)
    IN IF ~whole THEN chain = Broken
       ELSE /\ chain # Broken
            /\ {chain[i] : i \in DOMAIN chain} = above
            /\ Len(chain) = Cardinality(above)
            /\ nodes[chain[1]].parent = 0
            /\ \A i \in 2 .. Len(chain) : nodes[chain[i]].parent = chain[i - 1]

\* Whatever closes a node, its own state or its window, closes all that its
\* subtree holds (client.go:332-334, catalogs.go:360-362): two walks in
\* opposite directions agree.
ClosesSubtree ==
  WellFormed => \A today \in Days, root \in Known :
    Validate(root, today) # "valid" =>
      \A id \in Subtree(root) : Validate(id, today) # "valid"

\* The equivalence CheckCoherence rests on (catalogs.go:180-182): the anchor is
\* the division or one of its ancestors exactly when the division is in the
\* anchor's subtree.
CoherentIsAnchored ==
  WellFormed => \A division \in Known, anchor \in Known :
    LET chain == Ancestors(division)
    IN /\ chain # Broken
       /\ CheckCoherence(division, anchor) = (\E i \in DOMAIN chain : chain[i] = anchor)

\* The walks over a snapshot, up and down, are walks of the one tree it is.
WalksAgree == SubtreeIsBelow /\ AncestorsAreAbove /\ ClosesSubtree /\ CoherentIsAnchored
=============================================================================
