--------------------------- MODULE MCCalculations ---------------------------
(* What the kit computes without I/O, on small inputs: OrgTree's walks over *)
(* every snapshot of up to three nodes, Brackets' months over every         *)
(* well-formed table of two or three tiers, stored in any order, the rules  *)
(* of human capital over sound and broken rows, the kardex of an item,      *)
(* capcheck's verdict on small catalogs, and what a Core makes of its       *)
(* environment; and, beside them, Cores that react to one another. They     *)
(* share no state, and a behaviour is about one of them.                    *)
EXTENDS OrgTree, Brackets, HcmRules, SeededRows, Measure, Catalog, Environment,
        MCReaction

VARIABLE part    \* what the behaviour is about

ThreeIds == {1, 2, 3}
TwoDays == {1, 2}
SomeWindows == {<<0, 0>>, <<2, 0>>, <<0, 1>>}

\* A table's tiers meet end to end, and every deduction makes the tier go on
\* where the one below it ends. Rates need not rise: a contribution may fall.
Tier(lower, upper, rate, deduction) ==
  [lower |-> lower, upper |-> upper, rate |-> rate, deduction |-> deduction]

TwoTiers(start, cut, top, r1, r2) ==
  LET d1 == start * r1
      d2 == d1 + cut * (r2 - r1)
  IN <<Tier(start, cut, r1, d1), Tier(cut, top, r2, d2)>>

ThreeTiers(start, cut, top, r1, r2, r3) ==
  LET two == TwoTiers(start, cut, cut + 1, r1, r2)
  IN two \o <<Tier(cut + 1, top, r3, two[2].deduction + (cut + 1) * (r3 - r2))>>

Orders(tiers) ==
  {[i \in DOMAIN tiers |-> tiers[order[i]]] :
    order \in {f \in [DOMAIN tiers -> DOMAIN tiers] :
                 \A i, j \in DOMAIN tiers : f[i] = f[j] => i = j}}

Rates == 0 .. 2
SomePayments == 1 .. 3
WellFormedTables ==
  UNION {Orders(TwoTiers(start, 2, top, r1, r2)) :
           start \in 0 .. 1, top \in {4, Uncapped}, r1 \in Rates, r2 \in Rates}
  \cup
  UNION {Orders(ThreeTiers(start, 2, top, r1, r2, r3)) :
           start \in 0 .. 1, top \in {5, Uncapped}, r1 \in Rates, r2 \in Rates, r3 \in Rates}

KindRows(kind) ==
  CASE kind = "preaviso_cr" -> PreavisoRows
    [] kind = "absence_employer_share" -> AbsenceRows
    [] kind = "cesantia_cr" -> LegacyRows
    [] kind = "cesantia_cr_art29" -> Art29Rows
    [] kind = "calendar" -> CalendarRows(BadDate)
    [] OTHER -> UNION {Typed(r, {-2, 1, 2}) : r \in Simple(kind)}

\* Units of two dimensions and a container, a factor of zero, and factors that
\* are too long by their exponent or by their digits. Two were sent without a
\* code.
Unit(code, dimension, factor, digits, exponent) ==
  [code |-> code, dimension |-> dimension, factor |-> factor, digits |-> digits,
   exponent |-> exponent]

SomeUnits ==
  {Unit("g", "mass", 1, 1, 0), Unit("", "mass", 4, 1, 0), Unit("", "mass", 3, 1, 0),
   Unit("ml", "volume", 1, 1, 0), Unit("sack", "container", 7, 1, 0),
   Unit("zero", "mass", 0, 1, 0), Unit("huge", "mass", 5, 1, 9),
   Unit("fine", "mass", 5, 1, -9), Unit("pad", "mass", 5, 4, -2)}
SomeContents == {0, 6, 12, 30}
SomeAmounts == {1, 3}
MinusTwo == -2

\* A service of two RPCs, whose messages have namesakes in an outer package.
Billing == <<"billing", "v1">>
Ref(name) == [absolute |-> FALSE, name |-> name]
Method(name, input) ==
  [name |-> <<"Invoices", name>>, input |-> input, output |-> Ref(<<"Answer">>)]
Proto(pkg, messages, methods) == [pkg |-> pkg, messages |-> messages, methods |-> methods]

BillingMessages == {Billing \o <<"Ask">>, Billing \o <<"Answer">>, Billing \o <<"Ask", "Line">>}
Vendor ==
  Proto(<<"billing">>, {<<"billing", "Ask">>, <<"billing", "Ask", "Line">>},
        {Method("Sync", Ref(<<"Ask">>))})
Listing == Method("List", Ref(<<"Ask">>))

SomeTrees ==
  {{Proto(Billing, BillingMessages, methods), Vendor} : methods \in
     {{}, {Listing},
      {Listing, Method("Pay", [absolute |-> TRUE, name |-> <<"billing", "Ask">>])},
      {Listing, Method("Pay", Ref(<<"google", "Empty">>))},
      {Method("List", Ref(<<"Ask", "Line">>)), Method("Pay", Ref(<<"v1", "Ask">>))}}}

CatalogEntry(id, method, action, effect, risk, request) ==
  [id |-> id, rpc |-> Billing \o <<"Invoices", method>>, action |-> action,
   effect |-> effect, risk |-> risk, request |-> request,
   response |-> Billing \o <<"Answer">>]

SomeEntries ==
  LET list == <<"billing", "list">>
      pay == <<"billing", "pay">>
      empty == <<"google", "Empty">>
  IN {CatalogEntry(list \o suffix, method, list, effect, risk, request) :
        suffix \in {<< >>, <<"pay">>}, method \in {"List", "Pay"},
        effect \in {"read", "delete"}, risk \in {"low", "high"},
        request \in {Billing \o <<"Ask">>, <<"billing", "Ask">>}}
     \cup
     {CatalogEntry(<<"claims">>, "Pay", << >>, "write", "low", empty),
      CatalogEntry(pay, "Pay", <<"billing">>, "write", "low", empty),
      CatalogEntry(<<"parts", "list">>, "Pay", <<"parts", "list">>, "write", "low", empty),
      CatalogEntry(pay, "Pay", pay, "purge", "low", empty),
      CatalogEntry(<<"billing", "line">>, "List", <<"billing", "line">>, "read", "low",
                   Billing \o <<"Ask", "Line">>)}

SomeCatalogs == UNION {[1 .. n -> SomeEntries] : n \in 0 .. 2}
CorePackages == {Billing}
CoreModules == {"billing"}

\* One service per name, and every way to set, and to half set, a credential.
SomeNames == {<< >>, <<"a">>, <<"b">>, <<"a", "b">>, <<"*">>}
SomeNatsEnvs ==
  [creds : {Unset, "missing", "there"}, seed : {Unset, Junk, "there"}, user : {Unset, "u"},
   pass : {Unset, "p"}, option : {<<"a">>}, service : {<<"b">>}]
  \cup
  [creds : {Unset}, seed : {Unset}, user : {Unset}, pass : {Unset},
   option : {<< >>, <<"a">>}, service : SomeNames]

\* Eight connections and more do not fit a pool that counts in four bits.
SomePoolEnvs ==
  [max : {Unset, Junk, -1, 1, 2, 5, 9}, min : {Unset, Junk, -1, 1, 3, 4, 8}, idle : {Unset, 0},
   name : {Unset, "x"}, service : {Unset, "y"}, pod : {Unset, "z"}, url : {Unset, "w"}]

MCInit ==
  /\ Init /\ MonthInit /\ RulesInit /\ MeasureInit /\ CatalogInit /\ EnvironmentInit
  /\ ReactionInit
  /\ part \in {"tree", "month", "rule", "item", "commit", "nats", "pool", "reaction"}
  /\ part # "reaction" => ~created /\ ~up

MCNext ==
  /\ UNCHANGED part
  /\ \/ /\ part = "tree" /\ Next
        /\ UNCHANGED <<monthVars, rule, measureVars, catalogVars, environmentVars, reactionVars>>
     \/ /\ part = "month" /\ MonthNext
        /\ UNCHANGED <<nodes, rule, measureVars, catalogVars, environmentVars, reactionVars>>
     \/ /\ part = "rule" /\ RulesNext
        /\ UNCHANGED <<nodes, monthVars, measureVars, catalogVars, environmentVars, reactionVars>>
     \/ /\ part = "item" /\ MeasureNext
        /\ UNCHANGED <<nodes, monthVars, rule, catalogVars, environmentVars, reactionVars>>
     \/ /\ part = "commit" /\ CatalogNext
        /\ UNCHANGED <<nodes, monthVars, rule, measureVars, environmentVars, reactionVars>>
     \/ /\ part = "nats" /\ DialNext
        /\ UNCHANGED <<nodes, monthVars, rule, measureVars, catalogVars, reactionVars>>
     \/ /\ part = "pool" /\ PoolNext
        /\ UNCHANGED <<nodes, monthVars, rule, measureVars, catalogVars, reactionVars>>
     \/ /\ part = "reaction" /\ ReactionNext
        /\ UNCHANGED <<nodes, monthVars, rule, measureVars, catalogVars, environmentVars>>

MCSpec ==
  MCInit /\
  [][MCNext]_<<nodes, monthVars, rule, measureVars, catalogVars, environmentVars, reactionVars, part>>
=============================================================================
