----------------------------- MODULE MCOutbox -----------------------------
(* Small instances of Outbox for TLC. *)
EXTENDS Outbox, TLC

CONSTANTS w1, w2, r1, r2, n1, n2

TwoWriters == {w1, w2}
TwoReplicas == {r1, r2}
TwoEntities == {n1, n2}

\* The row that stops a drain has rows before and after it, and may commit
\* after the latter.
SecondIsPoison == {2}
===========================================================================
