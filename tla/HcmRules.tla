------------------------------ MODULE HcmRules ------------------------------
(* The registries of hcmrules: EvalFormula (formula.go), CheckEligibility   *)
(* (eligibility.go), their reading of coefficients (values.go) and          *)
(* ResolveCalendar (calendar.go).                                           *)
(*                                                                          *)
(* Exact decimals are integers: a value v stands for v / One, a product of  *)
(* two for 1 / (One * One), a rounded quotient for 1 / Precision. Map keys  *)
(* with a number in them (band1_rate, band2_rate, ...) are a sequence of    *)
(* records; a key that is missing is a field that is.                       *)
EXTENDS Integers, Sequences, FiniteSets, SequencesExt

CONSTANTS
  Kinds,       \* the formula kinds rows are seeded for
  RowsOf(_),   \* the rows of coefficients seeded for a kind
  FactsOf(_),  \* the inputs a kind is evaluated on, all of them well formed
  One,         \* the smallest units in 1
  MaxCount,    \* maxCount: no rule has more bands or rows
  Precision,   \* 10 ^ internalScale
  Error,       \* a formula's error
  Panic,       \* a division by zero inside the decimal library
  NoRow,       \* nothing is seeded yet
  BadDate      \* a date that does not parse

Formulas == Kinds \ {"fmla_us", "vacation_vesting_br", "calendar"}
StepTables == {"preaviso_cr", "cesantia_cr_art29", "absence_employer_share"}

\* The coefficients a formula reads, those of each of its bands, and the facts.
Coefficients(kind) ==
  CASE kind \in {"aguinaldo_cr", "thirteenth_br"} -> {"divisor"}
    [] kind = "cesantia_cr" -> {"cap_years", "band_count"}
    [] kind = "cesantia_cr_art29" ->
         {"sub_year_band_count", "row_count", "cap_years", "fraction_min_months",
          "fraction_inclusive"}
    [] kind \in {"preaviso_cr", "absence_employer_share"} -> {"band_count"}
    [] kind = "fixed_term_indemnity_cr" ->
         {"block_days", "days_per_block", "min_days", "min_days_long", "long_contract_months"}
    [] kind = "aviso_previo_br" -> {"base_days", "per_year_days", "cap_days"}
    [] kind = "fgts_br" -> {"rate"}
    [] kind = "overtime" -> {"multiplier"}
    [] kind \in {"vacation_accrual_cr", "vacation_proportional"} ->
         {"entitlement_days", "weeks_base"}
    [] kind = "vacation_period_vesting" -> {"days_per_period", "period_months"}
    [] OTHER -> {}

BandFields(kind) ==
  CASE kind = "preaviso_cr" -> {"min_years", "notice_days", "exclusive"}
    [] kind = "cesantia_cr_art29" -> {"min_months", "days", "inclusive"}
    [] kind = "absence_employer_share" -> {"from_day", "rate"}
    [] kind = "cesantia_cr" -> {"upto_years", "days_per_year"}
    [] OTHER -> {}

Facts(kind) ==
  CASE kind = "aguinaldo_cr" -> {"total_annual_salary"}
    [] kind = "thirteenth_br" -> {"monthly_salary", "months_worked"}
    [] kind \in {"preaviso_cr", "cesantia_cr", "aviso_previo_br"} -> {"years_of_service"}
    [] kind = "cesantia_cr_art29" -> {"completed_years", "remainder_months"}
    [] kind = "fixed_term_indemnity_cr" -> {"days_worked", "contract_months"}
    [] kind = "absence_employer_share" -> {"absence_day_index"}
    [] kind = "fgts_br" -> {"base"}
    [] kind = "overtime" -> {"ordinary_hourly_rate", "overtime_hours"}
    [] kind \in {"vacation_accrual_cr", "vacation_proportional"} -> {"weeks_worked"}
    [] kind = "vacation_period_vesting" -> {"months_of_service"}
    [] OTHER -> {}

\* A row has nothing its formula does not know; what it should have may be
\* missing, or any number. An input is well formed: a month is not counted as
\* a year, no time is negative, and the first day of an absence is day 1.
ASSUME RulesAssumption ==
  /\ One \in Nat \ {0} /\ MaxCount \in Nat \ {0} /\ Precision \in Nat \ {0}
  /\ Error \notin Int \cup [min : Int, exclusive : BOOLEAN, value : Int]
  /\ Panic \notin Int \cup {Error}
ASSUME RowsAssumption ==
  \A kind \in Formulas : \A c \in RowsOf(kind) :
    /\ DOMAIN c \subseteq Coefficients(kind) \cup {"bands", "rows"}
    /\ \A name \in DOMAIN c \ {"bands", "rows"} : c[name] \in Int
    /\ kind \in StepTables =>
         /\ "bands" \in DOMAIN c /\ Len(c.bands) \in Nat /\ DOMAIN c.bands = 1 .. Len(c.bands)
         /\ \A i \in DOMAIN c.bands :
              /\ DOMAIN c.bands[i] \subseteq BandFields(kind)
              /\ \A name \in DOMAIN c.bands[i] : c.bands[i][name] \in Int
    /\ kind = "cesantia_cr_art29" =>
         /\ "rows" \in DOMAIN c
         /\ \A i \in DOMAIN c.rows : i \in Nat /\ c.rows[i] \in Int
ASSUME FactsAssumption ==
  \A kind \in Formulas : \A x \in FactsOf(kind) :
    /\ Facts(kind) \subseteq DOMAIN x /\ DOMAIN x # {} /\ IsFiniteSet(DOMAIN x)
    /\ \A name \in DOMAIN x : x[name] \in Int
    /\ kind \in {"cesantia_cr_art29", "fixed_term_indemnity_cr", "vacation_period_vesting"} =>
         \A name \in DOMAIN x : x[name] >= 0
    /\ kind = "cesantia_cr_art29" =>
         x.completed_years % One = 0 /\ x.remainder_months < 12 * One
    /\ kind = "absence_employer_share" =>
         x.absence_day_index % One = 0 /\ x.absence_day_index >= One

VARIABLE rule       \* the rule in force: its kind and its coefficients

Given(values, names) == names \subseteq DOMAIN values
Without(values, name) == [n \in DOMAIN values \ {name} |-> values[n]]
Whole(v) == v % One = 0

\* requireCount.
IsCount(values, name, atLeast) ==
  /\ Given(values, {name})
  /\ Whole(values[name])
  /\ values[name] \in atLeast * One .. MaxCount * One

CountOf(values, name) == values[name] \div One

\* requireFlag and optionalFlag.
IsFlag(values, name) == Given(values, {name}) /\ values[name] \in {0, One}
IsOptionalFlag(values, name) == name \in DOMAIN values => IsFlag(values, name)
Raised(values, name) == name \in DOMAIN values /\ values[name] = One

\* Decimal.DivRound: half away from zero.
DivRound(a, b, unit) ==
  LET Half(n, d) == (2 * n + d) \div (2 * d)
      Abs(v) == IF v < 0 THEN -v ELSE v
  IN IF b = 0 THEN Panic
     ELSE IF (a < 0) = (b < 0) THEN Half(Abs(a) * unit, Abs(b))
     ELSE -Half(Abs(a) * unit, Abs(b))

Checked(ok, result) == IF ok THEN result ELSE Error
Least(a, b) == IF a < b THEN a ELSE b
Greatest(a, b) == IF a > b THEN a ELSE b

-----------------------------------------------------------------------------
(* The step lookup shared by preaviso, art. 29 and the absence share. *)
Step(min, exclusive, value) == [min |-> min, exclusive |-> exclusive, value |-> value]

MetBy(band, x) == IF band.exclusive THEN x > band.min ELSE x >= band.min

Outranks(b, o) ==
  IF b.min # o.min THEN b.min > o.min ELSE b.exclusive /\ ~o.exclusive

\* The bands reached, by their places in the table.
Met(bands, x) == {i \in DOMAIN bands : MetBy(bands[i], x)}

\* Mutant: the last band met wins, whatever its threshold.
LastMet(bands, x, none) ==
  LET met == Met(bands, x)
      last == CHOOSE i \in met : \A j \in met : j <= i
  IN IF met = {} THEN none ELSE bands[last].value

\* highestMet: of the bands no other outranks the first one wins.
Wins(bands, met, i) ==
  /\ i \in met
  /\ \A j \in met : ~Outranks(bands[j], bands[i]) /\ (j < i => Outranks(bands[i], bands[j]))

HighestMet(bands, x, none) ==
  LET met == Met(bands, x)
      best == CHOOSE i \in met : Wins(bands, met, i)
  IN IF met = {} THEN none ELSE bands[best].value

\* The bands a count coefficient promises, each with the fields its kind reads.
HasBands(c, count, atLeast, names) ==
  /\ IsCount(c, count, atLeast)
  /\ CountOf(c, count) <= Len(c.bands)
  /\ \A i \in 1 .. CountOf(c, count) : Given(c.bands[i], names)

FirstBands(c, count) == [i \in 1 .. CountOf(c, count) |-> c.bands[i]]

PreavisoStep(b) == Step(b.min_years, Raised(b, "exclusive"), b.notice_days)

PreavisoCR(c, x) ==
  LET bands == FirstBands(c, "band_count")
      steps == [i \in DOMAIN bands |-> PreavisoStep(bands[i])]
  IN Checked(/\ Given(x, {"years_of_service"})
             /\ HasBands(c, "band_count", 0, {"min_years", "notice_days"})
             /\ \A i \in DOMAIN bands : IsOptionalFlag(bands[i], "exclusive"),
       HighestMet(steps, x.years_of_service, 0))

\* A day below every band is an error, not a zero share.
AbsenceEmployerShare(c, x) ==
  LET bands == FirstBands(c, "band_count")
      steps == [i \in DOMAIN bands |-> Step(bands[i].from_day, FALSE, bands[i].rate)]
  IN Checked(/\ Given(x, {"absence_day_index"})
             /\ Whole(x.absence_day_index) /\ x.absence_day_index >= One
             /\ HasBands(c, "band_count", 1, {"from_day", "rate"})
             /\ \A i \in DOMAIN bands : Whole(bands[i].from_day) /\ bands[i].from_day >= One
             /\ \A i, j \in DOMAIN bands : bands[i].from_day = bands[j].from_day => i = j,
       HighestMet(steps, x.absence_day_index, Error))

-----------------------------------------------------------------------------
(* Cesantia. The legacy kind reads a band only when the tenure reaches it.  *)

LegacyBand(c, i, years, state) ==
  LET reached == years > state.bound
      band == c.bands[i]
      top == Least(band.upto_years, years)
  IN IF state.days = Error \/ ~reached THEN state
     ELSE IF i > Len(c.bands) THEN [state EXCEPT !.days = Error]
     ELSE IF ~Given(band, {"upto_years", "days_per_year"}) THEN [state EXCEPT !.days = Error]
     ELSE [days |-> state.days + Greatest(top - state.bound, 0) * band.days_per_year,
           bound |-> band.upto_years]

CesantiaCR(c, x) ==
  LET years == Least(x.years_of_service, c.cap_years)
      count == c.band_count \div One
  IN Checked(Given(x, {"years_of_service"}) /\ Given(c, {"cap_years", "band_count"}),
       FoldLeft(LAMBDA state, i : LegacyBand(c, i, years, state),
                [days |-> 0, bound |-> 0], [i \in 1 .. count |-> i]).days)

\* What art. 29 needs of its row, all of it read before the tenure decides.
Art29Row(c) ==
  /\ HasBands(c, "sub_year_band_count", 0, {"min_months", "days"})
  /\ \A i \in 1 .. CountOf(c, "sub_year_band_count") : IsFlag(c.bands[i], "inclusive")
  /\ IsCount(c, "row_count", 1) /\ Given(c.rows, 1 .. CountOf(c, "row_count"))
  /\ Given(c, {"cap_years", "fraction_min_months"}) /\ c.cap_years > 0
  /\ IsFlag(c, "fraction_inclusive")

Art29Tenure(x) ==
  /\ Given(x, {"completed_years", "remainder_months"})
  /\ Whole(x.completed_years) /\ x.completed_years >= 0
  /\ x.remainder_months >= 0 /\ x.remainder_months < 12 * One

Art29Step(b) == Step(b.min_months, ~Raised(b, "inclusive"), b.days)

Art29SubYear(c, months) ==
  LET bands == FirstBands(c, "sub_year_band_count")
  IN One * HighestMet([i \in DOMAIN bands |-> Art29Step(bands[i])], months, 0)

\* The row of the completed years; the last row covers all longer tenures.
Art29Rate(c, years) ==
  c.rows[Least(CountOf(c, "row_count"), years \div One)]

\* Mutant: the cap is applied before the fraction adds its year.
Art29CappedEarly(c, years, months) ==
  LET fraction == Step(c.fraction_min_months, ~Raised(c, "fraction_inclusive"), 0)
      capped == Least(years, c.cap_years)
  IN IF MetBy(fraction, months) THEN capped + One ELSE capped

\* The years counted: a fraction adds one, and then the cap holds.
Art29Counted(c, years, months) ==
  LET fraction == Step(c.fraction_min_months, ~Raised(c, "fraction_inclusive"), 0)
  IN Least(IF MetBy(fraction, months) THEN years + One ELSE years, c.cap_years)

\* Mutant: a row that is missing pays nothing.
CesantiaCRArt29Papered(c, x) ==
  LET Paid(i) == IF i \in DOMAIN c.rows THEN c.rows[i] ELSE 0
      full == [c EXCEPT !.rows = [i \in 1 .. MaxCount |-> Paid(i)]]
  IN Checked(Art29Tenure(x) /\ Art29Row(full),
       IF x.completed_years = 0 THEN Art29SubYear(full, x.remainder_months)
       ELSE Art29Rate(full, x.completed_years)
              * Art29Counted(full, x.completed_years, x.remainder_months))

CesantiaCRArt29(c, x) ==
  Checked(Art29Tenure(x) /\ Art29Row(c),
    IF x.completed_years = 0 THEN Art29SubYear(c, x.remainder_months)
    ELSE Art29Rate(c, x.completed_years)
           * Art29Counted(c, x.completed_years, x.remainder_months))

-----------------------------------------------------------------------------
(* The other formulas. *)
AguinaldoCR(c, x) ==
  Checked(Given(x, {"total_annual_salary"}) /\ Given(c, {"divisor"}),
    DivRound(x.total_annual_salary, c.divisor, Precision))

ThirteenthBR(c, x) ==
  LET twelfth == DivRound(x.monthly_salary, c.divisor, Precision)
  IN Checked(Given(x, {"monthly_salary", "months_worked"}) /\ Given(c, {"divisor"}),
       IF twelfth = Panic THEN Panic ELSE twelfth * x.months_worked)

\* Blocks of days worked, the last one even when only begun.
BlocksBegun(days, block) == days \div block + (IF days % block > 0 THEN 1 ELSE 0)

FixedTermIndemnityCR(c, x) ==
  Checked(/\ Given(x, {"days_worked", "contract_months"})
          /\ x.days_worked >= 0 /\ x.contract_months >= 0
          /\ Given(c, {"block_days", "days_per_block", "min_days", "min_days_long",
                       "long_contract_months"})
          /\ c.block_days > 0,
    Greatest(BlocksBegun(x.days_worked, c.block_days) * c.days_per_block,
             IF x.contract_months >= c.long_contract_months THEN c.min_days_long
             ELSE c.min_days))

AvisoPrevioBR(c, x) ==
  Checked(Given(x, {"years_of_service"}) /\ Given(c, {"base_days", "per_year_days", "cap_days"}),
    Least(One * c.base_days + c.per_year_days * x.years_of_service, One * c.cap_days))

FgtsBR(c, x) == Checked(Given(x, {"base"}) /\ Given(c, {"rate"}), x.base * c.rate)

Overtime(c, x) ==
  Checked(Given(x, {"ordinary_hourly_rate", "overtime_hours"}) /\ Given(c, {"multiplier"}),
    x.ordinary_hourly_rate * c.multiplier * x.overtime_hours)

\* The floors are all the inputs there are, whatever their names.
MinWageHigherOfUS(c, x) ==
  Checked(DOMAIN x # {},
    CHOOSE v \in {x[name] : name \in DOMAIN x} : \A name \in DOMAIN x : x[name] <= v)

VacationProportional(c, x) ==
  Checked(Given(x, {"weeks_worked"}) /\ Given(c, {"entitlement_days", "weeks_base"})
            /\ c.weeks_base > 0,
    DivRound(c.entitlement_days * x.weeks_worked, One * c.weeks_base, Precision))

\* Div rounds to Precision before Floor.
PeriodsCompleted(months, period) == DivRound(months, period, Precision) \div Precision

VacationPeriodVesting(c, x) ==
  Checked(/\ Given(x, {"months_of_service"}) /\ Given(c, {"days_per_period", "period_months"})
          /\ c.period_months > 0 /\ x.months_of_service >= 0,
    c.days_per_period * PeriodsCompleted(x.months_of_service, c.period_months))

EvalFormula(kind, c, x) ==
  CASE kind = "aguinaldo_cr" -> AguinaldoCR(c, x)
    [] kind = "thirteenth_br" -> ThirteenthBR(c, x)
    [] kind = "cesantia_cr" -> CesantiaCR(c, x)
    [] kind = "cesantia_cr_art29" -> CesantiaCRArt29(c, x)
    [] kind = "preaviso_cr" -> PreavisoCR(c, x)
    [] kind = "fixed_term_indemnity_cr" -> FixedTermIndemnityCR(c, x)
    [] kind = "absence_employer_share" -> AbsenceEmployerShare(c, x)
    [] kind = "aviso_previo_br" -> AvisoPrevioBR(c, x)
    [] kind = "fgts_br" -> FgtsBR(c, x)
    [] kind = "overtime" -> Overtime(c, x)
    [] kind = "min_wage_higher_of_us" -> MinWageHigherOfUS(c, x)
    [] kind \in {"vacation_accrual_cr", "vacation_proportional"} -> VacationProportional(c, x)
    [] kind = "vacation_period_vesting" -> VacationPeriodVesting(c, x)
    [] OTHER -> Error

-----------------------------------------------------------------------------
(* Eligibility: each fact against its threshold. *)
FmlaUS(params, facts) ==
  Checked(Given(params, {"min_headcount", "min_tenure_months", "min_hours"})
            /\ Given(facts, {"headcount", "tenure_months", "hours_worked"}),
    /\ facts.headcount >= params.min_headcount
    /\ facts.tenure_months >= params.min_tenure_months
    /\ facts.hours_worked >= params.min_hours)

VacationVestingBR(params, facts) ==
  Checked(Given(params, {"min_continuous_months"}) /\ Given(facts, {"continuous_months"}),
    facts.continuous_months >= params.min_continuous_months)

CheckEligibility(kind, params, facts) ==
  CASE kind = "fmla_us" -> FmlaUS(params, facts)
    [] kind = "vacation_vesting_br" -> VacationVestingBR(params, facts)
    [] OTHER -> Error

-----------------------------------------------------------------------------
(* The calendar: a date is the number of its day. *)
ByDate(entries) ==
  LET order == SortSeq([i \in DOMAIN entries |-> i],
        LAMBDA i, j : \/ entries[i].date < entries[j].date
                      \/ entries[i].date = entries[j].date /\ i < j)
  IN [i \in DOMAIN entries |-> entries[order[i]]]

InRange(e, from, to) == from <= e.date /\ e.date <= to

ResolveCalendar(entries, from, to) ==
  Checked(/\ BadDate \notin {from, to} /\ from <= to
          /\ \A i \in DOMAIN entries : entries[i].date # BadDate,
    ByDate(SelectSeq(entries, LAMBDA e : InRange(e, from, to))))

-----------------------------------------------------------------------------
\* A rule is published with its coefficients, as whoever typed them left them.
RulesInit == rule = NoRow

Seed(kind, row) ==
  /\ rule = NoRow
  /\ rule' = [kind |-> kind, row |-> row]

RulesNext == \E kind \in Kinds : \E row \in RowsOf(kind) : Seed(kind, row)

RulesSpec == RulesInit /\ [][RulesNext]_rule

\* The rule in force is one that was seeded.
RulesInv == rule # NoRow => rule.kind \in Kinds /\ rule.row \in RowsOf(rule.kind)

-----------------------------------------------------------------------------
(* Properties, of every row that may be seeded and every input. *)
Owed(c, x) == EvalFormula(rule.kind, c, x)

\* The bands a row says it has, the last of them by its count.
CountKey(kind) == IF kind = "cesantia_cr_art29" THEN "sub_year_band_count" ELSE "band_count"

Counted(kind, c) ==
  {i \in DOMAIN c.bands : Given(c, {CountKey(kind)}) /\ One * i <= c[CountKey(kind)]}

\* A day the table of an absence says nothing of (formula.go:406-408).
BeforeEveryBand(kind, c, x) ==
  /\ kind = "absence_employer_share"
  /\ \A i \in Counted(kind, c) : x.absence_day_index < c.bands[i].from_day

\* A row that is broken fails for every employee, and not only for those whose
\* tenure reaches the broken part (formula.go:264-266): when one of two gets an
\* answer and the other does not, then only because the table of an absence
\* begins later. The legacy cesantia_cr reads a band when it is reached:
\* LegacyReadsWhatItReaches.
RowFailsForAll ==
  rule # NoRow /\ rule.kind \in Formulas \ {"cesantia_cr"} =>
    \A x, y \in FactsOf(rule.kind) :
      Owed(rule.row, x) = Error =>
        Owed(rule.row, y) = Error \/ BeforeEveryBand(rule.kind, rule.row, x)

\* A legal parameter that is missing is never papered over (values.go:19-24):
\* without any one of the coefficients of its own that a formula reads, of those
\* of a band that is counted, or of those of a row that is, no employee gets an
\* answer. Only "exclusive" has a value when it is absent (values.go:64-65).
MissingIsLoud ==
  rule # NoRow /\ rule.kind \in Formulas =>
    \A x \in FactsOf(rule.kind) :
      /\ \A name \in Coefficients(rule.kind) : Owed(Without(rule.row, name), x) = Error
      /\ rule.kind \in StepTables =>
           \A i \in Counted(rule.kind, rule.row), name \in BandFields(rule.kind) \ {"exclusive"} :
             Owed([rule.row EXCEPT !.bands[i] = Without(@, name)], x) = Error
      /\ rule.kind = "cesantia_cr_art29" /\ Given(rule.row, {"row_count"}) =>
           \A i \in 1 .. CountOf(rule.row, "row_count") :
             Owed([rule.row EXCEPT !.rows = Without(@, i)], x) = Error

\* In whatever order the bands of a step table are stored, everybody is owed
\* the same (formula.go:159-163, 511-513), unless two bands have one threshold
\* or some are beyond the count.
StepOf(b) ==
  CASE Given(b, {"min_years", "notice_days"}) -> PreavisoStep(b)
    [] Given(b, {"min_months", "days"}) -> Art29Step(b)
    [] OTHER -> Error

Tied(b, c) ==
  LET s == StepOf(b)
      t == StepOf(c)
  IN s # Error /\ t # Error /\ s.min = t.min /\ s.exclusive = t.exclusive

Permuted(bands, order) == [i \in DOMAIN bands |-> bands[order[i]]]

BandOrderFree ==
  rule # NoRow /\ rule.kind \in StepTables =>
    LET places == DOMAIN rule.row.bands
        counted == \E name \in {"band_count", "sub_year_band_count"} :
                     Given(rule.row, {name}) /\ rule.row[name] = One * Len(rule.row.bands)
    IN counted /\ (\A i, j \in places : Tied(rule.row.bands[i], rule.row.bands[j]) => i = j) =>
       \A x \in FactsOf(rule.kind) :
         \A order \in {f \in [places -> places] : \A i, j \in places : f[i] = f[j] => i = j} :
           Owed([rule.row EXCEPT !.bands = Permuted(@, order)], x) = Owed(rule.row, x)

\* The tables of a law that gives more for more: nothing is negative, and a
\* higher threshold has a higher value.
Rising(c) ==
  /\ \A name \in DOMAIN c \ {"bands", "rows"} : c[name] >= 0
  /\ "bands" \in DOMAIN c => \A i, j \in DOMAIN c.bands :
       LET s == StepOf(c.bands[i])
           t == StepOf(c.bands[j])
       IN s # Error /\ t # Error =>
            s.value >= 0 /\ (Outranks(s, t) => s.value >= t.value)
  /\ "rows" \in DOMAIN c /\ Art29Row(c) =>
       /\ \A i, j \in DOMAIN c.rows : 0 <= c.rows[i] /\ (i < j => c.rows[i] <= c.rows[j])
       /\ \A i \in DOMAIN c.bands : "days" \in DOMAIN c.bands[i] =>
            One * c.bands[i].days <= c.rows[1] * Least(One, c.cap_years)
  /\ {"min_days", "min_days_long"} \subseteq DOMAIN c => c.min_days <= c.min_days_long

\* y is at least as long in service as x.
NoLess(x, y) ==
  IF "completed_years" \in DOMAIN x
  THEN \/ x.completed_years < y.completed_years
       \/ x.completed_years = y.completed_years /\ x.remainder_months <= y.remainder_months
  ELSE \A name \in DOMAIN x : x[name] <= y[name]

\* Under such a law nobody is owed less, or loses a right, for longer service
\* or a higher salary: no threshold, cap, fraction or rounding has a step down
\* (formula.go:194-203, 318-328, 437-445; eligibility.go:28-40).
NeverOwesLess ==
  rule # NoRow =>
    /\ rule.kind \in Formulas \ {"absence_employer_share"} /\ Rising(rule.row) =>
         \A x, y \in FactsOf(rule.kind) :
           LET before == Owed(rule.row, x)
               after == Owed(rule.row, y)
           IN NoLess(x, y) /\ before \notin {Error, Panic} /\ after \notin {Error, Panic}
                => before <= after
    /\ rule.kind \in {"fmla_us", "vacation_vesting_br"} =>
         \A x, y \in FactsOf(rule.kind) :
           NoLess(x, y) /\ CheckEligibility(rule.kind, rule.row, x) = TRUE
             => CheckEligibility(rule.kind, rule.row, y) = TRUE

\* The legacy cesantia adds up what each moment of service earned in the band
\* it fell in, up to the cap (formula.go:85-99), when its count is one: a
\* band_count of 2.5 is read as 2 (formula.go:122), which values.go:39-43 calls an
\* error, and is left out here.
RateAt(bands, moment) ==
  LET containing == SelectInSeq(bands, LAMBDA b : moment <= b.upto_years)
  IN IF containing = 0 THEN 0 ELSE bands[containing].days_per_year

ProratesWithinBands ==
  rule # NoRow /\ rule.kind = "cesantia_cr" /\ IsCount(rule.row, "band_count", 0) =>
    \A x \in FactsOf(rule.kind) :
      LET days == CesantiaCR(rule.row, x)
          bands == SubSeq(rule.row.bands, 1, Least(Len(rule.row.bands), rule.row.band_count \div One))
          served == Least(x.years_of_service, rule.row.cap_years)
      IN /\ days # Error
         /\ \A i \in DOMAIN bands : Given(bands[i], BandFields(rule.kind))
         /\ \A i, j \in DOMAIN bands : i < j => bands[i].upto_years < bands[j].upto_years
         => days = FoldLeft(LAMBDA sum, m : sum + RateAt(bands, m), 0, [m \in 1 .. served |-> m])

\* It reads a band for those alone whose service reaches it: a coefficient that
\* is missing there fails all of them, from one tenure on, and nobody else is
\* owed anything but what the whole row would give (formula.go:132-144).
LegacyReadsWhatItReaches ==
  rule # NoRow /\ rule.kind = "cesantia_cr" =>
    \A x, y \in FactsOf(rule.kind) :
      /\ NoLess(x, y) /\ Owed(rule.row, x) = Error => Owed(rule.row, y) = Error
      /\ \A i \in DOMAIN rule.row.bands, name \in BandFields(rule.kind) :
           Owed([rule.row EXCEPT !.bands[i] = Without(@, name)], x) \in {Error, Owed(rule.row, x)}

\* Rounded quotients decide nothing: whole months vest exactly the periods they
\* complete, and a full base of weeks earns exactly the entitlement
\* (formula.go:615-617, 645-648).
RoundingLosesNothing ==
  rule # NoRow =>
    /\ rule.kind = "vacation_period_vesting" /\ Given(rule.row, {"days_per_period", "period_months"}) =>
         \A x \in {x \in FactsOf(rule.kind) : Whole(x.months_of_service)} :
           Whole(rule.row.period_months) /\ rule.row.period_months > 0 =>
             VacationPeriodVesting(rule.row, x)
               = rule.row.days_per_period * (x.months_of_service \div rule.row.period_months)
    /\ /\ rule.kind = "vacation_proportional"
       /\ Given(rule.row, {"weeks_base", "entitlement_days"}) /\ rule.row.weeks_base > 0
       => VacationProportional(rule.row, [weeks_worked |-> rule.row.weeks_base]) * One
            = rule.row.entitlement_days * Precision

\* A range of days resolves to what its parts resolve to: no day on a seam is
\* lost or listed twice, and days of one date keep their order; an entry that
\* does not parse fails every range (calendar.go:32-39).
CalendarSplits ==
  rule # NoRow /\ rule.kind = "calendar" =>
    \A from, seam, to \in FactsOf(rule.kind) :
      from <= seam /\ seam < to =>
        LET all == ResolveCalendar(rule.row, from, to)
            first == ResolveCalendar(rule.row, from, seam)
            rest == ResolveCalendar(rule.row, seam + 1, to)
        IN IF \E i \in DOMAIN rule.row : rule.row[i].date = BadDate
           THEN all = Error /\ first = Error /\ rest = Error
           ELSE all = first \o rest

\* An answer depends on what a row says, not on how it is stored; a coefficient
\* missing in it, or in a band or row it counts, fails everybody; and so does any
\* other fault of it, of a day its table lacks and of the legacy cesantia_cr not
\* to speak (values.go:19-24, formula.go:159-163, 264-266).
OneRowForAll == RowFailsForAll /\ MissingIsLoud /\ BandOrderFree

\* No seam in what a row pays: not at a threshold, a cap, a band, a period, a
\* rounding or a day of the calendar (formula.go:85-99, 132-144, 318-328,
\* 615-617; calendar.go:32-39).
NoSeams ==
  /\ NeverOwesLess /\ ProratesWithinBands /\ LegacyReadsWhatItReaches
  /\ RoundingLosesNothing /\ CalendarSplits
=============================================================================
