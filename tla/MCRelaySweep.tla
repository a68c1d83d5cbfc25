--------------------------- MODULE MCRelaySweep ---------------------------
(* Small instances of RelaySweep for TLC. *)
EXTENDS RelaySweep, TLC

CONSTANTS t1, t2

OneTenant == {t1}
NoTenant == {}

\* How the transactions of an instance commit.
AllInsert == {"Insert"}
AllInsertWith == {"InsertWith"}
AnyCommit == CommitKind
===========================================================================
