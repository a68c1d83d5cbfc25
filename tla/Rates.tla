------------------------------- MODULE Rates -------------------------------
(* fx/bccr: one call of Rate or Series of a client of the Banco Central's   *)
(* API (external). The client keeps nothing between calls. Days, indicators *)
(* and values are numbers; waits are seconds.                               *)
EXTENDS Integers, Sequences, FiniteSets

CONSTANTS
  Configs,       \* what New may be given
  Indicators,    \* indicators callers ask for, valid or not
  CalendarDays,  \* the days they ask for
  Replies,       \* statuses of the API with the Retry-After they carry
  Bodies,        \* bodies of a 2xx: series responses, sound or broken
  Null,          \* a value that is not there; a key that is missing
  Junk,          \* a value that is no number, a date that does not parse
  RateError,     \* any error but the next
  NotPublished   \* ErrNotPublished

\* Durations and statuses are numbers, and a body is what decodes into the
\* struct of parseSeries: lists of points whose date or value may be broken.
ASSUME RatesAssumption ==
  /\ \A cfg \in Configs : cfg.attempts \in Int /\ cfg.backoff \in Int /\ cfg.maxBackoff \in Int
  /\ \A reply \in Replies : reply.status \in Int /\ reply.retryAfter \in Int
  /\ \A body \in Bodies : body.datos # Null =>
       /\ Len(body.datos) \in Nat /\ DOMAIN body.datos = 1 .. Len(body.datos)
       /\ \A i \in DOMAIN body.datos :
            LET series == body.datos[i].series
            IN /\ Len(series) \in Nat /\ DOMAIN series = 1 .. Len(series)
               /\ \A j \in DOMAIN series :
                    series[j].day \in Int \cup {Junk} /\ series[j].value \in Int \cup {Null, Junk}
  /\ CalendarDays \subseteq Int
  /\ NotPublished \notin Int

VARIABLES
  client,   \* what New made of its Config
  fetch     \* the call under way

ratesVars == <<client, fetch>>

NoFetch == [pc |-> "idle"]
Lesser(a, b) == IF a < b THEN a ELSE b
Greater(a, b) == IF a > b THEN a ELSE b
OrDefault(value, default) == IF value = 0 THEN default ELSE value

\* New's checks and defaults.
Configured(cfg) ==
  /\ cfg.token /\ cfg.https
  /\ cfg.attempts >= 0 /\ cfg.backoff >= 0 /\ cfg.maxBackoff >= 0

WithDefaults(cfg) ==
  [attempts |-> OrDefault(cfg.attempts, 4), backoff |-> OrDefault(cfg.backoff, 1),
   maxBackoff |-> OrDefault(cfg.maxBackoff, 30)]

-----------------------------------------------------------------------------
(* What a body says. *)
Sound(point) ==
  point.day # Junk /\ (point.value # Null => point.value # Junk /\ point.value > 0)

\* Where a body has points of an indicator: in one series or in several.
Spots(body, indicator) ==
  UNION {{<<i, j>> : j \in DOMAIN body.datos[i].series} :
          i \in {i \in DOMAIN body.datos : body.datos[i].code = indicator}}
PointAt(body, spot) == body.datos[spot[1]].series[spot[2]]
Valued(points) == {point \in points : point.value # Null}

\* Mutant: the null of one entry and the value of another are one day.
ParseSeriesTwice(body, indicator) ==
  IF body.estado = FALSE \/ (body.estado = Null /\ body.datos = Null) THEN RateError
  ELSE IF body.datos \in {Null, << >>} THEN {}
  ELSE IF \/ \A i \in DOMAIN body.datos : body.datos[i].code # indicator
          \/ \E spot \in Spots(body, indicator) : ~Sound(PointAt(body, spot))
  THEN RateError
  ELSE Valued({PointAt(body, spot) : spot \in Spots(body, indicator)})

\* parseSeries. No day is there twice, so its points are a set: Series puts
\* them in order.
ParseSeries(body, indicator) ==
  IF body.estado = FALSE \/ (body.estado = Null /\ body.datos = Null) THEN RateError
  ELSE IF body.datos \in {Null, << >>} THEN {}
  ELSE IF \/ \A i \in DOMAIN body.datos : body.datos[i].code # indicator
          \/ \E spot \in Spots(body, indicator) : ~Sound(PointAt(body, spot))
          \/ \E spot, other \in Spots(body, indicator) :
               spot # other /\ PointAt(body, spot).day = PointAt(body, other).day
  THEN RateError
  ELSE Valued({PointAt(body, spot) : spot \in Spots(body, indicator)})

\* The sort by date at the end of Series.
ByDay(points) ==
  CHOOSE list \in [1 .. Cardinality(points) -> points] :
    /\ \A point \in points : \E i \in DOMAIN list : list[i] = point
    /\ \A i, j \in DOMAIN list : i < j => list[i].day <= list[j].day /\ list[i] # list[j]

\* Series, from a body that was received: by date, and nothing out of range.
SeriesOf(body, indicator, from, to) ==
  LET points == ParseSeries(body, indicator)
  IN IF points = RateError THEN RateError
     ELSE ByDay({point \in points : point.day \in from .. to})

\* Rate, from the series of one day.
RateOf(series, day) ==
  LET hits == {i \in DOMAIN series : series[i].day = day}
  IN IF series = RateError THEN RateError
     ELSE IF hits = {} THEN NotPublished
     ELSE series[CHOOSE i \in hits : \A j \in hits : i <= j].value

-----------------------------------------------------------------------------
RatesInit == client = Null /\ fetch = NoFetch

New(cfg) ==
  /\ client = Null /\ Configured(cfg)
  /\ client' = WithDefaults(cfg)
  /\ UNCHANGED fetch

\* Series checks its arguments before it asks; Rate asks for one day.
AskRates(op, indicator, from, to) ==
  /\ client # Null /\ fetch.pc = "idle"
  /\ op = "rate" => from = to
  /\ fetch' = [pc |-> IF indicator > 0 /\ from <= to THEN "request" ELSE "done",
               op |-> op, indicator |-> indicator, from |-> from, to |-> to, body |-> Null,
               attempt |-> 1, wait |-> client.backoff, pauses |-> << >>, result |-> RateError]
  /\ UNCHANGED client

Busy(status) == status = 429 \/ status >= 500

\* How long get sleeps before the next attempt.
Pause(reply) == Lesser(Greater(fetch.wait, reply.retryAfter), client.maxBackoff)

LastAttempt == fetch.attempt >= client.attempts

\* get, on a status that is no success: it sleeps, or gives the error.
Refuse(reply) ==
  /\ fetch.pc = "request" /\ ~reply.status \in 200 .. 299
  /\ IF Busy(reply.status) /\ ~LastAttempt
     THEN fetch' = [fetch EXCEPT !.pc = "sleep",
            !.pauses = Append(@, [for |-> Pause(reply), asked |-> reply.retryAfter,
                                  status |-> reply.status])]
     ELSE fetch' = [fetch EXCEPT !.pc = "done"]
  /\ UNCHANGED client

\* The answer is worked out from the body.
Reply ==
  /\ fetch.pc = "request"
  /\ \E body \in Bodies :
       LET series == SeriesOf(body, fetch.indicator, fetch.from, fetch.to)
       IN fetch' = [fetch EXCEPT !.pc = "done", !.body = body,
            !.result = IF fetch.op = "series" THEN series ELSE RateOf(series, fetch.from)]
  /\ UNCHANGED client

\* once: no connection, the attempt's timeout, a redirect, a body that is too
\* large or unreadable; get does not try again.
OnceFails ==
  /\ fetch.pc = "request"
  /\ fetch' = [fetch EXCEPT !.pc = "done"]
  /\ UNCHANGED client

Wake ==
  /\ fetch.pc = "sleep"
  /\ fetch' = [fetch EXCEPT !.pc = "request", !.attempt = @ + 1,
                            !.wait = Lesser(2 * @, client.maxBackoff)]
  /\ UNCHANGED client

\* The caller's context ends while get sleeps.
Cancelled ==
  /\ fetch.pc = "sleep"
  /\ fetch' = [fetch EXCEPT !.pc = "done"]
  /\ UNCHANGED client

ReturnRates == fetch.pc = "done" /\ fetch' = NoFetch /\ UNCHANGED client

RatesNext ==
  \/ \E cfg \in Configs : New(cfg)
  \/ \E op \in {"rate", "series"}, indicator \in Indicators, from, to \in CalendarDays :
       AskRates(op, indicator, from, to)
  \/ \E reply \in Replies : Refuse(reply)
  \/ Reply \/ OnceFails \/ Wake \/ Cancelled \/ ReturnRates

RatesSpec == RatesInit /\ [][RatesNext]_ratesVars

-----------------------------------------------------------------------------
Decided == fetch.pc = "done" /\ fetch.body # Null
PointsOf(body, indicator) ==
  UNION {{body.datos[i].series[j] : j \in DOMAIN body.datos[i].series} :
          i \in {i \in DOMAIN body.datos : body.datos[i].code = indicator}}

\* A rate is the one value the response has for that indicator and that very
\* day, never the previous day's, and "not published" is said of a body only
\* that is a series response without a value for the day (bccr.go:22-25,
\* 372-380).
ThatDaysRate ==
  Decided /\ fetch.op = "rate" /\ fetch.result # RateError =>
    LET points == IF fetch.body.datos = Null THEN {} ELSE PointsOf(fetch.body, fetch.indicator)
        values == {p.value : p \in {p \in points : p.day = fetch.from}}
    IN /\ fetch.body.estado # FALSE
       /\ IF fetch.result = NotPublished THEN values \subseteq {Null}
          ELSE values = {fetch.result} /\ fetch.result > 0

\* A series lists each day in its range that has a value, once and in order.
WholeSeries ==
  Decided /\ fetch.op = "series" /\ fetch.result # RateError =>
    LET listed == fetch.result
        points == IF fetch.body.datos = Null THEN {} ELSE PointsOf(fetch.body, fetch.indicator)
    IN /\ \A i, j \in DOMAIN listed : i < j => listed[i].day < listed[j].day
       /\ {listed[i] : i \in DOMAIN listed}
            = {p \in points : p.value # Null /\ p.day \in fetch.from .. fetch.to}

\* Only 429 and 5xx are asked again, no oftener than configured, after the
\* doubling backoff or the longer Retry-After, both under the cap
\* (bccr.go:30-31, 141-147).
Doubled[n \in 1 .. client.attempts] == IF n = 1 THEN client.backoff ELSE 2 * Doubled[n - 1]

Patient ==
  fetch # NoFetch =>
    /\ Len(fetch.pauses) < client.attempts
    /\ \A i \in DOMAIN fetch.pauses :
         LET pause == fetch.pauses[i]
         IN /\ Busy(pause.status)
            /\ pause.for = Lesser(Greater(pause.asked, Doubled[i]), client.maxBackoff)

\* Whatever the body of the response, and however it is broken: what the client
\* returns is that indicator's, that day's or that range's, whole; and it asks
\* again no oftener and no sooner than it should (bccr.go:30-31, 131-147).
RatesAreTheirs == ThatDaysRate /\ WholeSeries /\ Patient

\* get has slept once an attempt, and the next backoff is the doubled one,
\* which the cap cuts.
Waits ==
  /\ fetch.attempt \in Nat \ {0} /\ fetch.attempt <= client.attempts /\ fetch.wait \in Nat
  /\ Lesser(fetch.wait, client.maxBackoff) = Lesser(Doubled[fetch.attempt], client.maxBackoff)
  /\ fetch.pauses \in Seq([for : Int, asked : Int, status : Int])
  /\ fetch.pc = "request" => Len(fetch.pauses) = fetch.attempt - 1
  /\ fetch.pc = "sleep" => Len(fetch.pauses) = fetch.attempt /\ fetch.attempt < client.attempts

\* What was worked out, and from which body.
Answered ==
  fetch.body # Null =>
    LET series == SeriesOf(fetch.body, fetch.indicator, fetch.from, fetch.to)
    IN /\ fetch.pc = "done" /\ fetch.body \in Bodies
       /\ fetch.result = IF fetch.op = "series" THEN series ELSE RateOf(series, fetch.from)

FetchFields ==
  {"pc", "op", "indicator", "from", "to", "body", "attempt", "wait", "pauses", "result"}

RatesInv ==
  /\ client # Null =>
       client.attempts \in Nat \ {0} /\ client.backoff \in Nat /\ client.maxBackoff \in Nat
  /\ fetch # NoFetch =>
       /\ client # Null
       /\ DOMAIN fetch = FetchFields /\ fetch.pc \in {"request", "sleep", "done"}
       /\ fetch.from \in CalendarDays /\ fetch.to \in CalendarDays
       /\ fetch.op \in {"rate", "series"} /\ (fetch.op = "rate" => fetch.from = fetch.to)
       /\ Waits /\ Answered /\ Patient
=============================================================================
