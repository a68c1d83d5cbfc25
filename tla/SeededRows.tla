----------------------------- MODULE SeededRows -----------------------------
(* Rows of coefficients, sound and broken, and the facts they are evaluated *)
(* on, for MCCalculations. Values are in halves: 2 stands for 1.            *)
EXTENDS Integers, Sequences

\* A row as it should be, and with any one of its numbers missing or mistyped.
Typed(r, typos) ==
  LET plain == DOMAIN r \ {"bands", "rows"}
  IN {r} \cup {[n \in DOMAIN r \ {name} |-> r[n]] : name \in plain}
         \cup UNION {{[r EXCEPT ![name] = v] : v \in typos} : name \in plain}

Typos == {-2, 0, 1, 3, 5, 10}
UpTo(n, S) == UNION {[1 .. k -> S] : k \in 0 .. n}

PreavisoBands ==
  [min_years : {1, 2}, notice_days : {2, 4}, exclusive : {0, 2}]
    \cup [min_years : {2}, notice_days : {2, 6}]
    \cup {[min_years |-> 2, notice_days |-> 2, exclusive |-> 1], [min_years |-> 3]}

PreavisoRows ==
  {[band_count |-> 2 * Len(bands), bands |-> bands] : bands \in UpTo(2, PreavisoBands)}
    \cup {[band_count |-> n, bands |-> bands] :
            n \in {3, 4, 6, 8}, bands \in [1 .. 3 -> [min_years : 1 .. 3, notice_days : {2}]]}
    \cup {[band_count |-> 6, bands |->
            [i \in 1 .. 3 |-> [min_years |-> order[i], notice_days |-> 2 * order[i]]]] :
            order \in [1 .. 3 -> 1 .. 3]}

AbsenceRows ==
  UNION {Typed([band_count |-> 2 * Len(bands), bands |-> bands], Typos) :
           bands \in UpTo(2, [from_day : {2, 3, 4, 6}, rate : {0, 1}])}
    \cup {[band_count |-> 2 * n, bands |-> <<[from_day |-> 2, rate |-> 1], band>>] :
            n \in 1 .. 2, band \in {[from_day |-> 6], [rate |-> 1]}}

LegacyRows ==
  UNION {Typed([cap_years |-> 6, band_count |-> 4, bands |->
            <<[upto_years |-> u, days_per_year |-> r], [upto_years |-> v, days_per_year |-> s]>>],
            {0, 2, 3, 5}) : u \in {1, 2, 4}, v \in {2, 4, 6}, r \in 0 .. 2, s \in 0 .. 2}
    \cup {[cap_years |-> 6, band_count |-> 4, bands |->
            <<[upto_years |-> 4, days_per_year |-> 1], band>>] :
            band \in {[upto_years |-> 6], [days_per_year |-> 1]}}

Art29Row1(bands, rows, cap, fraction, flag) ==
  [sub_year_band_count |-> 2 * Len(bands), bands |-> bands, row_count |-> 2 * Len(rows),
   rows |-> rows, cap_years |-> cap, fraction_min_months |-> fraction,
   fraction_inclusive |-> flag]

Art29Bands == [min_months : {6, 12}, inclusive : {0, 2}, days : {2, 3}]
Art29Rows ==
  UNION {Typed(Art29Row1(bands, rows, 4, fraction, flag), Typos) :
    bands \in UpTo(1, Art29Bands), rows \in {<<4>>, <<4, 5>>}, fraction \in {0, 12}, flag \in {0, 2}}
  \cup {Art29Row1(bands, <<4, 6, 5>>, 6, 12, flag) : bands \in UpTo(2, Art29Bands), flag \in {0, 2}}
  \cup {Art29Row1(<<band>>, <<4, 5>>, 4, 12, 2) :
          band \in {[min_months |-> 6, days |-> 2], [min_months |-> 6, inclusive |-> 0]}}
  \cup {[Art29Row1(<< >>, <<4, 5>>, 4, 12, 2) EXCEPT !.rows = [i \in left |-> 4]] :
          left \in {{1}, {2}}}

Simple(kind) ==
  CASE kind = "aguinaldo_cr" -> {[divisor |-> d] : d \in {2, 6, 24}}
    [] kind = "thirteenth_br" -> {[divisor |-> d] : d \in {2, 6, 24}}
    [] kind = "fixed_term_indemnity_cr" ->
         [block_days : {4, 7}, days_per_block : {2}, min_days : {2, 4}, min_days_long : {4, 8},
          long_contract_months : {6}]
    [] kind = "aviso_previo_br" -> [base_days : {4}, per_year_days : {2, 3}, cap_days : {6, 9}]
    [] kind = "fgts_br" -> {[rate |-> r] : r \in {0, 1}}
    [] kind = "overtime" -> {[multiplier |-> r] : r \in {2, 3}}
    [] kind = "min_wage_higher_of_us" -> {<< >>}
    [] kind \in {"vacation_accrual_cr", "vacation_proportional"} ->
         [entitlement_days : {4, 5}, weeks_base : {6, 14}]
    [] kind = "vacation_period_vesting" ->
         [days_per_period : {4}, period_months : {2, 3, 4, 6, 8, 12, 14, 24}]
    [] kind = "fmla_us" -> [min_headcount : {2, 3}, min_tenure_months : {2}, min_hours : {2, 4}]
    [] kind = "vacation_vesting_br" -> {[min_continuous_months |-> m] : m \in {2, 3}}
    [] OTHER -> {}

\* Three days of a calendar at most, one of them possibly with a broken date.
CalendarRows(bad) == UpTo(3, [date : 1 .. 3 \cup {bad}, name : {"a", "b"}])

RuleKinds ==
  {"aguinaldo_cr", "thirteenth_br", "cesantia_cr", "cesantia_cr_art29", "preaviso_cr",
   "fixed_term_indemnity_cr", "absence_employer_share", "aviso_previo_br", "fgts_br",
   "overtime", "min_wage_higher_of_us", "vacation_accrual_cr", "vacation_proportional",
   "vacation_period_vesting", "fmla_us", "vacation_vesting_br", "calendar"}

RuleFacts(kind) ==
  CASE kind = "aguinaldo_cr" -> [total_annual_salary : 0 .. 8]
    [] kind = "thirteenth_br" -> [monthly_salary : 0 .. 4, months_worked : 0 .. 6]
    [] kind \in {"preaviso_cr", "cesantia_cr", "aviso_previo_br"} -> [years_of_service : 0 .. 8]
    [] kind = "cesantia_cr_art29" ->
         [completed_years : {0, 2, 4, 6}, remainder_months : {0, 6, 11, 12, 13, 23}]
    [] kind = "fixed_term_indemnity_cr" -> [days_worked : 0 .. 15, contract_months : {0, 5, 6}]
    [] kind = "absence_employer_share" -> [absence_day_index : {2, 4, 6, 8}]
    [] kind = "fgts_br" -> [base : 0 .. 4]
    [] kind = "overtime" -> [ordinary_hourly_rate : 0 .. 3, overtime_hours : 0 .. 3]
    [] kind = "min_wage_higher_of_us" -> [federal : 0 .. 3, state : 0 .. 3]
    [] kind \in {"vacation_accrual_cr", "vacation_proportional"} -> [weeks_worked : 0 .. 14]
    [] kind = "vacation_period_vesting" -> [months_of_service : 0 .. 28]
    [] kind = "fmla_us" -> [headcount : 1 .. 4, tenure_months : 1 .. 3, hours_worked : 1 .. 4]
    [] kind = "vacation_vesting_br" -> [continuous_months : 0 .. 4]
    [] kind = "calendar" -> 0 .. 4
=============================================================================
