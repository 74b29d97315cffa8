------------------------------- MODULE Trends -------------------------------
(***************************************************************************)
(* The deterministic figures of a metric: the facts of a month             *)
(* (compute/kpis.py), the cards of a quarter or a year                     *)
(* (compute/aggregate.py and _aggregated_facts in main.py), the comparison *)
(* of two months and the streak of one (compute/correlations.py).          *)
(*                                                                         *)
(* A month is its number counted from some January, a quarter and a year   *)
(* likewise, so that the period before k is k - 1.  A series is a function *)
(* from the months that have a row to its value and budget.  A percentage  *)
(* is a fraction <<numerator, positive denominator>>; rounding to two      *)
(* decimals is left out.                                                   *)
(***************************************************************************)
EXTENDS Values, FiniteSetsExt

CONSTANTS MinMonths     \* the shortest run that is a streak (min_months)

ASSUME MinMonthsAssumption == MinMonths \in Nat

-----------------------------------------------------------------------------
(* The facts of a month.                                                   *)

\* A change in per cent, none without a base.
Change(v, base) == IF base \in {None, 0} THEN None ELSE <<100 * (v - base), Abs(base)>>

Variance(v, budget) == IF budget = None THEN None ELSE v - budget

ValueAt(series, k) == IF k \in DOMAIN series THEN series[k].value ELSE None

\* compute_kpis for one month.
compute_kpis(series, m) ==
    LET v == series[m].value IN
    [value |-> v,
     prior |-> ValueAt(series, m - 1),
     mom |-> Change(v, ValueAt(series, m - 1)),
     yoy |-> Change(v, ValueAt(series, m - 12)),
     var |-> Variance(v, series[m].budget),
     varPct |-> Change(v, series[m].budget)]

-----------------------------------------------------------------------------
(* Quarters and years.                                                     *)

MonthsIn(granularity) == IF granularity = "quarter" THEN 3 ELSE 12

period_key(m, granularity) == m \div MonthsIn(granularity)

prior_key(k) == k - 1

year_ago_key(k, granularity) == k - 12 \div MonthsIn(granularity)

Bucket(series, granularity, k) == {m \in DOMAIN series : period_key(m, granularity) = k}

SumOf(series, months, field) ==
    LET known == {m \in months : series[m][field] # None} IN
    IF known = {} THEN None ELSE SumFunction([m \in known |-> series[m][field]])

\* The last month counts, whatever the figure.
ReduceToLast(series, months, kind) == series[Max(months)]

\* _reduce: flows are summed, of a balance the last month counts, and a ratio
\* of several months is not available.
Reduce(series, months, kind) ==
    CASE kind = "flow" -> [value |-> SumOf(series, months, "value"),
                           budget |-> SumOf(series, months, "budget")]
      [] kind = "balance" -> series[Max(months)]
      [] kind = "ratio" -> IF Cardinality(months) = 1
                           THEN series[Max(months)]
                           ELSE [value |-> None, budget |-> None]

aggregate_series(series, granularity, kind) ==
    [k \in {period_key(m, granularity) : m \in DOMAIN series} |->
        Reduce(series, Bucket(series, granularity, k), kind)]

\* The card of a quarter or year that has data.
AggregatedFact(series, granularity, kind, k) ==
    LET all == aggregate_series(series, granularity, kind)
        v == all[k].value IN
    [value |-> v,
     mom |-> Change(v, ValueAt(all, prior_key(k))),
     yoy |-> Change(v, ValueAt(all, year_ago_key(k, granularity))),
     var |-> Variance(v, all[k].budget),
     varPct |-> Change(v, all[k].budget)]

-----------------------------------------------------------------------------
(* Two periods side by side.                                               *)

\* The second of two changes less the first, none unless both are there.
Acceleration(a, b) ==
    IF None \in {a, b} THEN None ELSE <<b[1] * a[2] - a[1] * b[2], a[2] * b[2]>>

compare_periods(series, a, b) ==
    LET va == compute_kpis(series, a).value
        vb == compute_kpis(series, b).value
        accel == Acceleration(compute_kpis(series, a).mom, compute_kpis(series, b).mom) IN
    [abs |-> vb - va,
     pct |-> Change(vb, va),
     accel |-> accel,
     momentum |-> IF accel = None THEN None ELSE Sign(accel[1])]

-----------------------------------------------------------------------------
(* Streaks.                                                                *)

\* The months with a change against the month before.
History(series, p) ==
    {m \in DOMAIN series : m <= p /\ compute_kpis(series, m).mom # None}

Direction(series, m) == Sign(compute_kpis(series, m).mom[1])

\* A missing month does not end a run.
RunAcrossGaps(series, p) ==
    {m \in History(series, p) :
        \A k \in (m .. p) \cap History(series, p) : Direction(series, k) = Direction(series, p)}

\* The months before and with p, without a gap, that moved the way p did.
Run(series, p) ==
    {m \in History(series, p) :
        \A k \in m .. p : k \in History(series, p) /\ Direction(series, k) = Direction(series, p)}

\* streak_from_history: months and direction, 0 months when there is none.
streak_from_history(series, p) ==
    IF /\ p \in History(series, p)
       /\ Direction(series, p) # 0
       /\ Cardinality(Run(series, p)) >= MinMonths
    THEN [months |-> Cardinality(Run(series, p)), direction |-> Direction(series, p)]
    ELSE [months |-> 0, direction |-> 0]

=============================================================================
