---------------------------- MODULE MCReaction ----------------------------
(* Small instances of Reaction for TLC. *)
EXTENDS Reaction, TLC

CONSTANTS p1, p2, outsider, w1, w2, w3

TwoCores == {p1, p2}
Actors == {p1, p2, outsider}

\* Two handlers of p1, one of p2.
ThreeWorkers == {w1, w2, w3}
TwoOfOne == (w1 :> p1) @@ (w2 :> p1) @@ (w3 :> p2)
TwoWorkers == {w1, w3}
OneEach == (w1 :> p1) @@ (w3 :> p2)

\* p1 may extend a chain of one, p2 only react to a root.
Depths == (p1 :> 2) @@ (p2 :> 1)
\* Deep enough for the search of the chain to matter beyond the bound.
DeepEnough == (p1 :> 3) @@ (p2 :> 3)

\* What both made of a person's request; and what p2 made of one, beside an event
\* whose chain already has a cycle.
OfBoth == {<<p1>>, <<p2>>}
OfP2AndACycle == {<<p2>>, <<outsider, outsider>>}

Symmetry == Permutations({w1, w2})
===========================================================================
