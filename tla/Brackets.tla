------------------------------ MODULE Brackets ------------------------------
(* Progressive bracket tables (hcmrules/bracket.go) and the tax of a month  *)
(* withheld payment by payment with EvalBracketIncremental. Exact decimals  *)
(* are integers here: amounts in the smallest unit of base, rates in the    *)
(* smallest unit of rate.                                                   *)
EXTENDS Integers, Sequences

CONSTANTS
  Tables,     \* sequences of tiers in the order they are stored
  Payments,   \* the taxable bases of single payments
  MaxBase,    \* bound: no month's base goes beyond it
  Uncapped,   \* the upper bound of a tier that has none
  NoTier      \* the error of a base that no tier contains

\* A table a rule set may hold: tiers that meet end to end, of which only the
\* last may be uncapped, with the deduction by which each goes on where the one
\* below it ends. Rates need not rise: a contribution may fall.
MeetEndToEnd(tiers) ==
  /\ \A i \in DOMAIN tiers :
       /\ tiers[i].lower \in Nat /\ tiers[i].rate \in Nat /\ tiers[i].deduction \in Int
       /\ \/ tiers[i].upper \in Nat /\ tiers[i].lower < tiers[i].upper
          \/ tiers[i].upper = Uncapped /\ i = Len(tiers)
  /\ tiers[1].deduction = tiers[1].lower * tiers[1].rate
  /\ \A i \in DOMAIN tiers \ {1} :
       /\ tiers[i - 1].upper = tiers[i].lower
       /\ tiers[i].deduction
            = tiers[i - 1].deduction + tiers[i].lower * (tiers[i].rate - tiers[i - 1].rate)

\* Tables are stored in any order.
ASSUME BracketsAssumption ==
  /\ MaxBase \in Nat /\ Uncapped \notin Int
  /\ Payments \subseteq Nat
  /\ \A tiers \in Tables :
       /\ Len(tiers) \in Nat \ {0} /\ DOMAIN tiers = 1 .. Len(tiers)
       /\ \E order \in [DOMAIN tiers -> DOMAIN tiers] :
            /\ \A i \in DOMAIN tiers : \E j \in DOMAIN tiers : order[j] = i
            /\ MeetEndToEnd([i \in 1 .. Len(tiers) |-> tiers[order[i]]])

VARIABLES
  table,      \* the table of the month, << >> before it is known
  paid,       \* the base of the payments made so far
  withheld    \* what was withheld on them

monthVars == <<table, paid, withheld>>

\* sortedByLowerBound, whose sort is stable.
Sorted(tiers) ==
  LET order == CHOOSE order \in [DOMAIN tiers -> DOMAIN tiers] :
        \A i, j \in DOMAIN tiers : i < j =>
          \/ tiers[order[i]].lower < tiers[order[j]].lower
          \/ tiers[order[i]].lower = tiers[order[j]].lower /\ order[i] < order[j]
  IN [i \in DOMAIN tiers |-> tiers[order[i]]]

\* The part of base inside a tier.
Portion(tier, base) ==
  IF base <= tier.lower THEN 0
  ELSE (IF tier.upper # Uncapped /\ tier.upper < base THEN tier.upper ELSE base)
       - tier.lower

\* evalBracketMarginal.
Marginal(tiers, base) ==
  LET total[n \in 0 .. Len(tiers)] ==
        IF n = 0 THEN 0 ELSE total[n - 1] + Portion(tiers[n], base) * tiers[n].rate
  IN total[Len(tiers)]

Covers(tier, base) == tier.lower <= base /\ (tier.upper = Uncapped \/ base <= tier.upper)

\* evalBracketQuickDeduction: the first tier that contains base decides.
QuickDeduction(tiers, base) ==
  LET containing == {i \in DOMAIN tiers : Covers(tiers[i], base)}
      first == CHOOSE i \in containing : \A j \in containing : i <= j
  IN IF containing = {} THEN NoTier
     ELSE base * tiers[first].rate - tiers[first].deduction

EvalBracket(tiers, base) == Marginal(Sorted(tiers), base)

\* Mutant: each payment is taxed on its own.
EvalPayment(tiers, before, after) == EvalBracket(tiers, after - before)

EvalBracketIncremental(tiers, before, after) ==
  EvalBracket(tiers, after) - EvalBracket(tiers, before)

-----------------------------------------------------------------------------
MonthInit == table = << >> /\ paid = 0 /\ withheld = 0

\* The month's table arrives with the rule set; an empty one is an error.
Load(tiers) ==
  /\ table = << >> /\ tiers # << >>
  /\ table' = tiers
  /\ UNCHANGED <<paid, withheld>>

\* One payment of the month.
Pay(amount) ==
  /\ table # << >>
  /\ paid + amount <= MaxBase
  /\ paid' = paid + amount
  /\ withheld' = withheld + EvalBracketIncremental(table, paid, paid + amount)
  /\ UNCHANGED table

MonthNext == (\E tiers \in Tables : Load(tiers)) \/ (\E amount \in Payments : Pay(amount))

MonthSpec == MonthInit /\ [][MonthNext]_monthVars

-----------------------------------------------------------------------------
(* What a bracket table promises. *)
FirstLower == Sorted(table)[1].lower
Top == Sorted(table)[Len(table)].upper
TopRate == CHOOSE rate \in {table[i].rate : i \in DOMAIN table} :
             \A i \in DOMAIN table : table[i].rate <= rate

\* The two algorithms agree on a well-formed table, on every base the table
\* covers and in whatever order the tiers are stored, and beyond a capped table
\* the tax stays what it is at the cap while the shortcut has no answer
\* (bracket.go:25-43).
MethodsAgree ==
  table # << >> => \A base \in FirstLower .. MaxBase :
    IF Top = Uncapped \/ base <= Top
    THEN EvalBracket(table, base) = QuickDeduction(Sorted(table), base)
    ELSE /\ EvalBracket(table, base) = EvalBracket(table, Top)
         /\ QuickDeduction(Sorted(table), base) = NoTier

\* However a month's base is split into payments, what was withheld on them is
\* the tax of the month's total (bracket.go:57-64).
MonthAddsUp == table # << >> => withheld = EvalBracket(table, paid)

\* Crossing a tier's bound has no cliff: no payment is taxed at more than the
\* table's highest rate, or gives anything back (bracket.go:27-30).
NoCliff ==
  table # << >> => \A amount \in {a \in Payments : paid + a <= MaxBase} :
    EvalBracketIncremental(table, paid, paid + amount) \in 0 .. amount * TopRate

\* A month's tax is the tax of its total, by either algorithm and however the
\* tiers are stored and the month is split, and grows with the total, gently
\* (bracket.go:25-43, 57-64).
MonthIsOne == MethodsAgree /\ MonthAddsUp /\ NoCliff

\* A month's table is one of the tables, and what was withheld is the tax of
\* what was paid.
MonthInv ==
  /\ paid \in Nat
  /\ table = << >> => paid = 0 /\ withheld = 0
  /\ table # << >> => table \in Tables
  /\ MonthAddsUp
=============================================================================
