------------------------- MODULE MCPlatformClient -------------------------
(* Small instances of PlatformClient for TLC. *)
EXTENDS PlatformClient, TLC

CONSTANTS t1, t2, c1, c2

TwoTenants == {t1, t2}
TwoCallers == {c1, c2}
OneCatalog == {"tree"}

\* In units of ten seconds, as the timeouts and the margin: one minute.
LongEnough == {6}
===========================================================================
