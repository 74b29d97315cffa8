------------------------------- MODULE Sheets -------------------------------
(***************************************************************************)
(* From an uploaded sheet to rows of metric_values: dropping roll-ups,     *)
(* normalizing the three layouts (ingestion/mapping.py), summing to one    *)
(* row per metric and period with its price/volume/mix bridge              *)
(* (compute/pvm.py), and matching the lines of a budget file to metrics    *)
(* that exist.  Parsing of numbers and dates is abstracted away.           *)
(*                                                                         *)
(* A sheet is a set of lines.  A line has a label <<key, spelling>> or     *)
(* None, an identifier, a flag for a text column that begins with "Total", *)
(* the period it is of (None when the columns are periods), and by column  *)
(* its amount, its budget and its quantity and price detail.  A metric is  *)
(* <<key, measure, spelling>>: two metrics that differ in their spelling   *)
(* only have the same normalized name.                                     *)
(***************************************************************************)
EXTENDS Values, FiniteSetsExt

-----------------------------------------------------------------------------
(* Normalizing.                                                            *)

\* A roll-up told by its metric label alone.
MarkedLabel(line, idMapped) ==
    line.label = None \/ line.label[1] = "Total" \/ (idMapped /\ line.id = None)

\* _drop_total_rows: a total marker in any text column, no label, or a label
\* without an identifier where identifiers are mapped.
IsRollUp(line, idMapped) ==
    line.marked \/ line.label = None \/ (idMapped /\ line.id = None)

\* The columns of the wide layout are periods, those of the cross layout measures.
Metric(layout, row) ==
    <<row.line.label[1],
      IF layout = "cross" THEN row.column ELSE None,
      row.line.label[2]>>

Period(layout, row) == IF layout = "wide" THEN row.column ELSE row.line.at

Value(row) == row.line.cells[row.column]

Budget(row) == row.line.budgets[row.column]

\* One canonical row per line and column.
CanonicalRows(sheet, idMapped) ==
    UNION {{[line |-> line, column |-> c] : c \in DOMAIN line.cells} :
           line \in {l \in sheet : ~IsRollUp(l, idMapped)}}

\* Every metric exists, one without any value too.
AllMetrics(layout, rows) == {Metric(layout, r) : r \in rows}

Filled(rows) == {r \in rows : Value(r) # None}

Identifiers(layout, rows, metric) == {r.line.id : r \in {s \in rows : Metric(layout, s) = metric}}

\* An identifier of a metric's filled rows; the cross layout keeps none.
ExternalId(layout, rows, metric, idMapped) ==
    IF layout = "cross" \/ ~idMapped \/ Identifiers(layout, rows, metric) = {}
    THEN None
    ELSE CHOOSE id \in Identifiers(layout, rows, metric) : TRUE

-----------------------------------------------------------------------------
(* Storing.                                                                *)

OverItems(F(_), rows) == SumFunction([r \in rows |-> F(r.line.item)])

\* The price effect at the budgeted quantity, and no mix.
DecomposeAtBudget(rows) ==
    [volume |-> OverItems(LAMBDA i : (i.aq - i.bq) * i.bp, rows),
     price |-> OverItems(LAMBDA i : (i.ap - i.bp) * i.bq, rows),
     mix |-> 0]

\* decompose: price, volume and mix over the rows that have quantities and prices.
decompose(rows) ==
    LET total == OverItems(LAMBDA i : i.aq * i.ap - i.bq * i.bp, rows)
        volume == OverItems(LAMBDA i : (i.aq - i.bq) * i.bp, rows)
        price == OverItems(LAMBDA i : (i.ap - i.bp) * i.aq, rows) IN
    [volume |-> volume, price |-> price, mix |-> total - volume - price]

Keys(layout, rows) == {<<Metric(layout, r), Period(layout, r)>> : r \in rows}

Group(layout, rows, key) ==
    {r \in rows : Metric(layout, r) = key[1] /\ Period(layout, r) = key[2]}

\* _sum: nothing at all is no value, not zero.
SumKnown(amounts) ==
    LET known == {r \in DOMAIN amounts : amounts[r] # None} IN
    IF known = {} THEN None ELSE SumFunctionOnSet(amounts, known)

\* store_normalized: dimension-level rows are summed to the metric's total.
StoredRows(layout, rows) ==
    [k \in Keys(layout, rows) |->
        [value |-> SumKnown([r \in Group(layout, rows, k) |-> Value(r)]),
         budget |-> SumKnown([r \in Group(layout, rows, k) |-> Budget(r)])]]

Detailed(rows) == {r \in rows : r.line.item # None}

Bridges(layout, rows) ==
    [k \in Keys(layout, Detailed(rows)) |-> decompose(Group(layout, Detailed(rows), k))]

-----------------------------------------------------------------------------
(* Joining a budget file: a sequence of [label, period, id, value].        *)

GroupOf(line) == <<line.label, line.period, line.id>>

\* The lines of one label, period and identifier are one budget, their sum.
Groups(lines) == {GroupOf(lines[i]) : i \in DOMAIN lines}

GroupBudget(lines, g) ==
    SumFunction([i \in {j \in DOMAIN lines : GroupOf(lines[j]) = g} |-> lines[i].value])

ById(metrics, id) == {m \in DOMAIN metrics : id # None /\ metrics[m] = id}

\* _normalize_label: case and punctuation do not matter.
SameName(m, label) == m[1] = label[1] /\ m[2] = label[2]

BySpelling(metrics, label) == {m \in DOMAIN metrics : SameName(m, label)}

\* The name comes before the identifier.
MatchedByName(metrics, g) ==
    CASE BySpelling(metrics, g[1]) # {} -> CHOOSE m \in BySpelling(metrics, g[1]) : TRUE
      [] BySpelling(metrics, g[1]) = {} /\ ById(metrics, g[3]) # {}
           -> CHOOSE m \in ById(metrics, g[3]) : TRUE
      [] OTHER -> None

\* The metric a group is for: by identifier, by name, by the only name that is
\* spelt another way, or none.
Matched(metrics, g) ==
    LET byId == ById(metrics, g[3]) IN
    CASE byId # {} -> CHOOSE m \in byId : TRUE
      [] byId = {} /\ g[1] \in DOMAIN metrics -> g[1]
      [] /\ byId = {} /\ g[1] \notin DOMAIN metrics
         /\ Cardinality(BySpelling(metrics, g[1])) = 1
           -> CHOOSE m \in BySpelling(metrics, g[1]) : TRUE
      [] OTHER -> None

\* The groups that find a row with an actual, by that row.
Reaching(metrics, table, lines, key) ==
    {g \in Groups(lines) : key \in DOMAIN table /\ <<Matched(metrics, g), g[2]>> = key}

=============================================================================
