------------------------------ MODULE MCAccess ------------------------------
(* Small instances of Access for TLC. *)
EXTENDS Access, TLC

CONSTANTS k1, k2, c1, c2, read, lookup, write, m1, m2

TwoKeys == {k1, k2}
TwoCalls == {c1, c2}
TwoClients == {m1, m2}

\* A plain read, a lookup that keeps a record of itself, and a write.
Actions == {read, lookup, write}
Verbs == (read :> "read") @@ (lookup :> "lookup") @@ (write :> "update")
Readers == {read}

\* A gate with an allowlist, and one with a catalog.
ListOf(a) == IF a = write THEN {m1} ELSE TwoClients
TwoGates ==
  {[own |-> Actions, cataloged |-> FALSE, reads |-> {},
    allowlisted |-> TRUE, listed |-> [a \in Actions |-> ListOf(a)]],
   [own |-> {read, lookup}, cataloged |-> TRUE, reads |-> {read},
    allowlisted |-> FALSE, listed |-> [a \in Actions |-> {}]]}

Person == [principal_type |-> "user", client |-> m1, isClient |-> FALSE, via |-> FALSE,
           installed |-> FALSE, entitled |-> TRUE, scope |-> {}]
Assistant == [Person EXCEPT !.via = TRUE]
OldMachine == [Person EXCEPT !.principal_type = "", !.isClient = TRUE, !.entitled = FALSE,
                             !.scope = {ScopeWrite}]
Reader == [OldMachine EXCEPT !.principal_type = "service", !.client = m2, !.scope = {ScopeRead, write}]
Agent == [Reader EXCEPT !.principal_type = "agent", !.installed = TRUE, !.entitled = TRUE]

\* A caller who may be anyone, and a machine with a token of the old kind.
SomePrincipals ==
  (c1 :> {Person, Assistant, Reader, Agent, [Agent EXCEPT !.entitled = FALSE],
          [Agent EXCEPT !.installed = FALSE], [OldMachine EXCEPT !.principal_type = "unheard"]})
  @@ (c2 :> {OldMachine})
=============================================================================
