------------------------------ MODULE Measure ------------------------------
(* Units, presentations and purchase lines of the package measure, and the  *)
(* bounds of the package decimals, around one item: a tenant declares the   *)
(* unit it is bought in and what that holds, and every purchase line adds   *)
(* to the stock. Factors are integers; quantities are integers in units of  *)
(* 10 ^ -divisionScale, called Scale here; amounts bought are whole.        *)
EXTENDS Integers, Sequences

CONSTANTS
  Units,           \* unit records as a tenant sends them: code, dimension, factor, digits, exponent
  Declared,        \* contents a presentation may declare, 0 for none
  Amounts,         \* amounts of a purchase line
  Contents,        \* contents per container a purchase line may give, 0 for none
  Scale,           \* 10 ^ divisionScale
  MaxDigits, MinExponent,   \* decimals.Factor
  MaxLines,        \* bound: purchase lines of the item
  Refused,         \* any of the package's errors
  NoItem           \* nothing is declared yet

ASSUME MeasureAssumption ==
  /\ Scale \in Nat \ {0} /\ MaxDigits \in Nat \ {0} /\ MinExponent \in Int
  /\ MinExponent <= 0 /\ MaxLines \in Nat
  /\ Units \subseteq [code : STRING, dimension : STRING, factor : Int, digits : Nat, exponent : Int]
  /\ \A a, b \in Units : a.code # "" /\ a.code = b.code => a = b   \* a code names one unit
  /\ Declared \subseteq Int /\ Amounts \subseteq Nat /\ Contents \subseteq Int

VARIABLES
  item,     \* the item: its presentation, its consumption unit and the content as it was typed
  stock,    \* the kardex: its quantity, in the consumption unit
  lines     \* the purchase lines that went into it

measureVars == <<item, stock, lines>>

Dimensions == {"mass", "volume", "count", "container"}
IsContainer(unit) == unit.dimension = "container"

\* decimals.CheckWith.
CheckWith(digits, exponent) == exponent >= MinExponent /\ digits + exponent <= MaxDigits

\* ValidateUnit: a container's factor is 1 whatever was sent.
ValidateUnit(unit) ==
  LET sound == IF IsContainer(unit)
               THEN [unit EXCEPT !.factor = 1, !.digits = 1, !.exponent = 0] ELSE unit
  IN IF /\ unit.dimension \in Dimensions
        /\ sound.factor > 0
        /\ CheckWith(sound.digits, sound.exponent)
     THEN sound ELSE Refused

\* DivRound of two values that are not negative.
Rounded(n, d) == (2 * n + d) \div (2 * d)

\* Convert. A zero factor has been refused by ValidateUnit.
Convert(quantity, from, to) ==
  IF from.code # "" /\ from.code = to.code THEN quantity
  ELSE IF IsContainer(from) \/ IsContainer(to) \/ from.dimension # to.dimension THEN Refused
  ELSE Rounded(quantity * from.factor, to.factor)

\* The content of a presentation that declares none.
Implied(purchase, content) ==
  IF IsContainer(purchase) THEN Scale ELSE Convert(Scale, purchase, content)

\* ValidatePresentation, with a name that is not empty: the content it holds.
ContentQuantity(purchase, content, declared, consumption) ==
  LET quantity == IF declared = 0 THEN Implied(purchase, content) ELSE declared
  IN IF \/ IsContainer(content)
        \/ content.dimension # consumption.dimension
        \/ ~IsContainer(purchase) /\ purchase.dimension # consumption.dimension
     THEN Refused
     ELSE IF quantity > 0 THEN quantity ELSE Refused

\* Mutant: the placeholder counts as a content.
PerUnitOrPlaceholder(presentation, given) ==
  IF IsContainer(presentation.purchase) /\ given > 0 THEN given ELSE presentation.holds

\* What one purchase unit of a line holds: for a container what the line says,
\* else what was declared, unless that is the placeholder 1.
PerUnit(presentation, given) ==
  IF ~IsContainer(presentation.purchase) THEN presentation.holds
  ELSE IF given > 0 THEN given
  ELSE IF presentation.holds > Scale THEN presentation.holds
  ELSE Refused

ToConsumptionUnit(amount, presentation, given, consumption) ==
  LET perUnit == PerUnit(presentation, given)
  IN IF perUnit = Refused THEN Refused
     ELSE Convert(amount * perUnit, presentation.content, consumption)

-----------------------------------------------------------------------------
MeasureInit == item = NoItem /\ stock = 0 /\ lines = << >>

Declare(purchase, content, declared, consumption) ==
  LET units == {ValidateUnit(purchase), ValidateUnit(content), ValidateUnit(consumption)}
      p == ValidateUnit(purchase)
      c == ValidateUnit(content)
      used == ValidateUnit(consumption)
  IN /\ item = NoItem
     /\ Refused \notin units
     /\ ContentQuantity(p, c, declared, used) # Refused
     /\ item' = [presentation |-> [purchase |-> p, content |-> c,
                                   holds |-> ContentQuantity(p, c, declared, used)],
                 consumption |-> used, declared |-> declared]
     /\ UNCHANGED <<stock, lines>>

Buy(amount, given) ==
  /\ item # NoItem /\ Len(lines) < MaxLines
  /\ LET quantity == ToConsumptionUnit(amount, item.presentation, given, item.consumption)
     IN /\ quantity # Refused
        /\ stock' = stock + quantity
  /\ lines' = Append(lines, [amount |-> amount, given |-> given])
  /\ UNCHANGED item

MeasureNext ==
  \/ \E purchase, content, consumption \in Units, declared \in Declared :
       Declare(purchase, content, declared, consumption)
  \/ \E amount \in Amounts, given \in Contents : Buy(amount, given)

MeasureSpec == MeasureInit /\ [][MeasureNext]_measureVars
-----------------------------------------------------------------------------
(* Properties. Base quantities are in the base unit of a dimension, times Scale. *)
SumOf(values) ==
  LET upTo[n \in 0 .. Len(values)] == IF n = 0 THEN 0 ELSE upTo[n - 1] + values[n]
  IN upTo[Len(values)]

\* What a line says was bought, going by the factor of a physical unit and by
\* the content of a container.
BaseOf(line) ==
  LET p == item.presentation
      content == IF line.given > 0 THEN line.given ELSE item.declared
  IN IF IsContainer(p.purchase) THEN line.amount * content * p.content.factor
     ELSE line.amount * p.purchase.factor * Scale

Bought == SumOf([i \in DOMAIN lines |-> BaseOf(lines[i])])
Amount == SumOf([i \in DOMAIN lines |-> lines[i].amount])

\* Twice what the roundings of an implied content and of each line may be off.
Slack ==
  Amount * item.presentation.content.factor + Len(lines) * item.consumption.factor

Near(a, b) == 2 * (a - b) \in -Slack .. Slack

\* The kardex holds what was bought: in whatever units an item is bought,
\* contained and consumed, the stock is that quantity but for the rounding of
\* the 12th decimal, and never the placeholder of a container, "3 sacks" as 3
\* grams (measure.go:14-16, 180-184). A content declared for a physical unit
\* takes the place of the derived one (measure.go:160), and is not looked at.
KardexHoldsWhatWasBought ==
  item # NoItem /\ (IsContainer(item.presentation.purchase) \/ item.declared = 0) =>
    Near(stock * item.consumption.factor, Bought)

\* What a validated unit's factor takes to write down is bounded, whatever its
\* coefficient and its exponent (decimals.go:1-22).
Written(digits, exponent) ==
  IF exponent >= 0 THEN digits + exponent
  ELSE 1 + (IF digits > 1 - exponent THEN digits ELSE 1 - exponent)

FactorsAreShort ==
  item # NoItem =>
    \A unit \in {item.presentation.purchase, item.presentation.content, item.consumption} :
      Written(unit.digits, unit.exponent) <= MaxDigits - MinExponent + 1

\* What is bought in any validated unit stays that quantity in the kardex, and
\* no unit of it has a factor that is long to write (measure.go:180-184;
\* decimals.go:1-22). The amounts and contents it is bought in are not bounded.
KardexIsSound == KardexHoldsWhatWasBought /\ FactorsAreShort

Sound == {ValidateUnit(unit) : unit \in Units} \ {Refused}

\* The units of an item are validated, and so is what its presentation holds.
ItemIsSound ==
  item # NoItem =>
    LET p == item.presentation
    IN /\ p.purchase \in Sound /\ p.content \in Sound /\ item.consumption \in Sound
       /\ item.declared \in Declared
       /\ p.holds # Refused
       /\ p.holds = ContentQuantity(p.purchase, p.content, item.declared, item.consumption)

\* The error of the stock, twice over, is no more than that of its roundings.
MeasureInv ==
  /\ ItemIsSound /\ stock \in Int /\ lines \in Seq([amount : Amounts, given : Contents])
  /\ item = NoItem => stock = 0 /\ lines = << >>
  /\ KardexHoldsWhatWasBought
=============================================================================
