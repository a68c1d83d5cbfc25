------------------------------ MODULE MCPools ------------------------------
(* Small instances of Pools for TLC. *)
EXTENDS Pools, TLC

CONSTANTS t1, t2, c1, c2, c3

OneTenant == {t1}
TwoTenants == {t1, t2}
TwoCallers == {c1, c2}
ThreeCallers == {c1, c2, c3}

Symmetry == Permutations(TwoTenants) \cup Permutations(ThreeCallers)
===========================================================================
