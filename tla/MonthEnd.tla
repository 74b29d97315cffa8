------------------------------ MODULE MonthEnd ------------------------------
(***************************************************************************)
(* A month-end, from the books to the narrative: the figures of a dataset  *)
(* come from an uploaded sheet in one of three layouts or from the rows a  *)
(* connector syncs, a budget file may be joined to them, and an insight or *)
(* an answer about the newest month is written by the model and checked by *)
(* the number guard.  Composes Sheets, Trends and Grounding.               *)
(*                                                                         *)
(* One dataset is modelled; a new upload replaces it (a new dataset that   *)
(* is activated at once).  A request works on the fact, the streak and the *)
(* context it loaded, so the dataset is left alone while one runs.         *)
(***************************************************************************)
EXTENDS Sheets, Trends, Grounding

CONSTANTS
    Items,          \* the items of the books: [account, product, month]
    Quantities,     \* quantities an item may have been sold in
    Price,          \* by product: its actual price
    Plan,           \* by item: [qty, price] budgeted, or None
    IdOf,           \* by account: its identifier
    Named,          \* by account: its unit, the figures and words in its name
    Feed,           \* the metric a connector delivers
    FeedRows,       \* the rows it may deliver: [month, value, budget]
    BudgetFiles,    \* the budget files that may be joined
    Contexts,       \* what retrieval may find: [size, top, semantic, figures]
    Texts,          \* what the model may say: [claim, limits, cites, saysYear]
    NoBook          \* the books are behind a connector

\* What is known of an item that was sold and budgeted.
Detailing(i, q) == [aq |-> q, ap |-> Price[i.product], bq |-> Plan[i].qty, bp |-> Plan[i].price]

\* No value is none of the values there are.
ASSUME NoneAssumption == None \notin Int \cup (Int \X Int) \cup {"none", "insight", "ask"}

\* Amounts are integers, and an account is <<normalized name, spelling>>.
ASSUME BooksAssumption ==
    /\ IsFiniteSet(Items)
    /\ Quantities \subseteq Int
    /\ \A i \in Items :
          /\ i = [account |-> i.account, product |-> i.product, month |-> i.month]
          /\ i.month \in Int
          /\ i.account # None
          /\ i.account = <<i.account[1], i.account[2]>>
          /\ IdOf[i.account] # None
          /\ \A p \in {None, i.product} : <<i.account[1], p, i.account[2]>> # None
          /\ Price[i.product] \in Int
          /\ Plan[i] # None =>
                /\ Plan[i].qty \in Int /\ Plan[i].price \in Int
                /\ \A q \in Quantities : Detailing(i, q) # None

ASSUME FeedAssumption ==
    /\ Feed # None
    /\ FeedRows \subseteq [month : Int, value : Int, budget : Int \cup {None}]

ASSUME BudgetAssumption ==
    \A lines \in BudgetFiles :
        IsFiniteSet(DOMAIN lines) /\ \A i \in DOMAIN lines : lines[i].value \in Int

\* An account may be "4000 Sales", or a rate in per cent.
ASSUME NamesAssumption ==
    \A a \in DOMAIN Named :
        Named[a] \in [unit : {"USD", "count", "%"}, figures : SUBSET Figured, words : SUBSET Int]

\* What the model may say and what retrieval may find are of these shapes.
Claims == {"value", "change", "context", "invented", "doubled", "nothing"}

ASSUME TextAssumption ==
    /\ Texts \subseteq
          [claim : Claims, limits : BOOLEAN, cites : BOOLEAN, saysYear : BOOLEAN]
    /\ Contexts \subseteq
          [size : Nat, top : Int \cup {None}, semantic : BOOLEAN, figures : SUBSET Figured]

VARIABLES
    book,       \* quantity by item, None for a blank one, or NoBook
    metrics,    \* identifier or None by metric
    table,      \* metric_values: value and budget by <<metric, month>>
    bridges,    \* pvm_bridges, by <<metric, month>>
    joined,     \* the rows whose budget a later file has set
    pc,         \* idle, or the step of the running request
    request,    \* what it loaded: kind, fact, streak, context
    text,       \* the model's last text
    calls,      \* calls the model answered for it
    billed,     \* the calls whose tokens it has logged
    insight     \* the last insight or answer that was returned

bookVars == <<book, metrics, table, bridges, joined>>

requestVars == <<pc, request, text, calls, billed, insight>>

monthEndVars == <<bookVars, requestVars>>

NoRequest == [kind |-> None, fact |-> None, streak |-> None, context |-> None]

NoInsight ==
    [kind |-> None, passed |-> FALSE, confidence |-> "Low", text |-> None, narrative |-> None]

MonthEndInit ==
    /\ book \in {NoBook} \cup [Items -> Quantities \cup {None}]
    /\ metrics = << >>
    /\ table = << >>
    /\ bridges = << >>
    /\ joined = {}
    /\ pc = "idle"
    /\ request = NoRequest
    /\ text = None
    /\ calls = 0
    /\ billed = 0
    /\ insight = NoInsight

-----------------------------------------------------------------------------
(* How the books are written down (the finance team's export).             *)

Accounts == {i.account : i \in Items}

Months == {i.month : i \in Items}

Amount(i) == IF book[i] = None THEN None ELSE book[i] * Price[i.product]

Planned(i) == IF Plan[i] = None THEN None ELSE Plan[i].qty * Plan[i].price

Detail(i) ==
    IF book[i] = None \/ Plan[i] = None THEN None
    ELSE Detailing(i, book[i])

Line(account, product, at, cells, budgets, item) ==
    [label |-> account, id |-> IdOf[account], marked |-> FALSE, of |-> product,
     at |-> at, cells |-> cells, budgets |-> budgets, item |-> item]

\* One line per account and product with a column per month, one per item, or
\* one per account and month with a column per product.
Written(layout) ==
    CASE layout = "wide" ->
            LET Of(s, m) == CHOOSE i \in Items :
                                i.account = s[1] /\ i.product = s[2] /\ i.month = m
                Has(s) == {i.month : i \in {j \in Items : <<j.account, j.product>> = s}} IN
            {Line(s[1], s[2], None, [m \in Has(s) |-> Amount(Of(s, m))],
                  [m \in Has(s) |-> Planned(Of(s, m))], None) :
                s \in {<<i.account, i.product>> : i \in Items}}
      [] layout = "long" ->
            {Line(i.account, i.product, i.month, [c \in {"value"} |-> Amount(i)],
                  [c \in {"value"} |-> Planned(i)], Detail(i)) : i \in Items}
      [] layout = "cross" ->
            LET Of(s, p) == CHOOSE i \in Items :
                                i.account = s[1] /\ i.product = p /\ i.month = s[2]
                Has(s) == {i.product : i \in {j \in Items : <<j.account, j.month>> = s}} IN
            {Line(s[1], None, s[2], [p \in Has(s) |-> Amount(Of(s, p))],
                  [p \in Has(s) |-> None], None) :
                s \in {<<i.account, i.month>> : i \in Items}}

\* A summary of a line: a "Total" label, a "Total" in another column, a section
\* heading, or a subtotal that only lacks the identifier.
RollUps(line) ==
    {[line EXCEPT !.label = <<"Total", "Total">>, !.marked = TRUE, !.id = None],
     [line EXCEPT !.of = "Total", !.marked = TRUE],
     [line EXCEPT !.label = None],
     [line EXCEPT !.id = None]}

-----------------------------------------------------------------------------
(* The dataset.                                                            *)

\* ingest_mapping: the sheet becomes a new dataset, or is refused when it has
\* no value at all.
Upload(layout, rollUp, idMapped) ==
    LET rows == CanonicalRows(Written(layout) \cup rollUp, idMapped)
        filled == Filled(rows) IN
    /\ pc = "idle"
    /\ book # NoBook
    /\ IF filled = {} THEN UNCHANGED <<metrics, table, bridges, joined>>
       ELSE /\ metrics' = [m \in AllMetrics(layout, rows) |->
                              ExternalId(layout, filled, m, idMapped)]
            /\ table' = StoredRows(layout, filled)
            /\ bridges' = Bridges(layout, filled)
            /\ joined' = {}
    /\ UNCHANGED <<book, requestVars>>

\* ingest_dataframe: a row of a connector's file is inserted or replaced.
SyncRow(row) ==
    /\ pc = "idle"
    /\ book = NoBook
    /\ metrics' = [x \in {Feed} |-> None]
    /\ table' = [k \in DOMAIN table \cup {<<Feed, row.month>>} |->
                    IF k = <<Feed, row.month>> THEN [value |-> row.value, budget |-> row.budget]
                    ELSE table[k]]
    /\ UNCHANGED <<book, bridges, joined, requestVars>>

\* match_budget_to_dataset: of two groups that reach the same row, the later
\* one stays (their order is left open).
MatchBudget(lines) ==
    LET reached == {k \in DOMAIN table : Reaching(metrics, table, lines, k) # {}} IN
    /\ pc = "idle"
    /\ table # << >>
    /\ \E last \in [reached -> Groups(lines)] :
          /\ \A k \in reached : last[k] \in Reaching(metrics, table, lines, k)
          /\ table' = [k \in DOMAIN table |->
                          IF k \in reached
                          THEN [table[k] EXCEPT !.budget = GroupBudget(lines, last[k])]
                          ELSE table[k]]
    /\ joined' = joined \cup reached
    /\ UNCHANGED <<book, metrics, bridges, requestVars>>

-----------------------------------------------------------------------------
(* Insights and answers.                                                   *)

Series(metric) ==
    [m \in {k[2] : k \in {x \in DOMAIN table : x[1] = metric}} |-> table[<<metric, m>>]]

\* A metric's unit and what its name states; dollars and nothing by default.
Naming(metric) ==
    LET account == <<metric[1], metric[3]>> IN
    IF account \in DOMAIN Named THEN Named[account]
    ELSE [unit |-> "USD", figures |-> {}, words |-> {}]

\* The computed fact with the stored bridge and the metric's unit and name.
FactOf(metric, m) ==
    LET facts == compute_kpis(Series(metric), m)
        k == <<metric, m>>
        more == [bridge |-> IF k \in DOMAIN bridges THEN bridges[k] ELSE None,
                 unit |-> Naming(metric).unit,
                 name |-> [figures |-> Naming(metric).figures, words |-> Naming(metric).words]] IN
    [c \in DOMAIN facts \cup DOMAIN more |-> IF c \in DOMAIN facts THEN facts[c] ELSE more[c]]

\* The request loads the newest month of a metric and what retrieval found.
Load(kind, metric, context) ==
    LET months == DOMAIN Series(metric) IN
    /\ pc = "idle"
    /\ months # {}
    /\ request' = [kind |-> kind,
                   fact |-> FactOf(metric, Max(months)),
                   streak |-> streak_from_history(Series(metric), Max(months)),
                   context |-> context]
    /\ pc' = "first"
    /\ calls' = 0
    /\ billed' = 0
    /\ insight' = NoInsight
    /\ text' = None
    /\ UNCHANGED bookVars

Figure(v, pct) == {[num |-> v[1], den |-> v[2], pct |-> pct, compact |-> FALSE]}

\* The figures of what the model says (the model is outside this code).
ClaimFigures(claim) ==
    LET fact == request.fact IN
    CASE claim = "value" -> {Printed(fact.value, fact.unit)}
      [] claim = "change" -> IF fact.mom = None THEN {} ELSE {PrintedPercent(fact.mom)}
      [] claim = "context" -> request.context.figures
      [] claim = "invented" -> Figure(<<47, 1>>, FALSE)
      [] claim \in {"doubled", "nothing"} -> {}

Says(t) ==
    [figures |-> ClaimFigures(t.claim), words |-> IF t.claim = "doubled" THEN {100} ELSE {},
     limits |-> t.limits, cites |-> t.cites, saysYear |-> t.saysYear]

Passes(t) == Faithful(t, request.fact, request.context)

\* The retry's tokens instead of both.
TokensOfLast(n) == 1

\* The tokens of one more call.
Tokens(n) == n + 1

\* The model answers; an unfaithful first text is sent back once.  An insight's
\* is forgotten then.
ModelAnswers(t) ==
    LET said == Says(t)
        again == pc = "first" /\ ~Passes(said) IN
    /\ pc \in {"first", "retry"}
    /\ t.cites => request.context.size > 0
    /\ text' = IF again /\ request.kind = "insight" THEN None ELSE said
    /\ calls' = calls + 1
    /\ billed' = Tokens(billed)
    /\ pc' = IF again THEN "retry" ELSE "finish"
    /\ UNCHANGED <<bookVars, request, insight>>

\* The model cannot be reached: the endpoint answers 503 and logs nothing, save
\* for a question's retry, whose first text is kept.
ModelFails ==
    /\ pc \in {"first", "retry"}
    /\ IF pc = "retry" /\ request.kind = "ask"
       THEN pc' = "finish" /\ UNCHANGED <<billed, insight, request, text>>
       ELSE /\ pc' = "idle"
            /\ billed' = 0
            /\ insight' = [NoInsight EXCEPT !.kind = "none"]
            /\ request' = NoRequest
            /\ text' = None
    /\ UNCHANGED <<bookVars, calls>>

\* The closing, the last check and the confidence of an insight.
FinishInsight ==
    LET final == IF text.cites THEN text
                 ELSE WithoutContextClosing(text, request.fact, request.streak) IN
    /\ pc = "finish"
    /\ request.kind = "insight"
    /\ insight' = [kind |-> "insight", passed |-> Passes(final), text |-> text,
                   narrative |-> final,
                   confidence |-> Confidence(Passes(final), request.context, text.cites)]
    /\ pc' = "shown"
    /\ UNCHANGED <<bookVars, request, text, calls, billed>>

FinishAnswer ==
    /\ pc = "finish"
    /\ request.kind = "ask"
    /\ insight' = [NoInsight EXCEPT !.kind = "ask", !.passed = Passes(text), !.text = text]
    /\ pc' = "shown"
    /\ UNCHANGED <<bookVars, request, text, calls, billed>>

\* report_grounding: the stored narrative against its fact and the sources it
\* cites, as long as neither has changed.
report_grounding ==
    attribute(insight.narrative, request.fact,
              [figures |-> IF insight.narrative.cites THEN request.context.figures ELSE {}])

\* The response is sent and the request's locals are gone.
Respond ==
    /\ pc = "shown"
    /\ pc' = "idle"
    /\ request' = NoRequest
    /\ text' = None
    /\ insight' = NoInsight
    /\ calls' = 0
    /\ billed' = 0
    /\ UNCHANGED bookVars

-----------------------------------------------------------------------------

Layouts == {"wide", "long", "cross"}

MonthEndNext ==
    \/ \E layout \in Layouts, idMapped \in BOOLEAN :
          book # NoBook /\ \E line \in Written(layout) :
              \E rollUp \in {{}} \cup {{r} : r \in {x \in RollUps(line) :
                                             x.label = None \/ x.marked \/ idMapped}} :
                  Upload(layout, rollUp, idMapped)
    \/ \E row \in FeedRows : SyncRow(row)
    \/ \E lines \in BudgetFiles : MatchBudget(lines)
    \/ \E kind \in {"insight", "ask"}, metric \in DOMAIN metrics, context \in Contexts :
          Load(kind, metric, context)
    \/ \E t \in Texts : ModelAnswers(t)
    \/ ModelFails
    \/ FinishInsight
    \/ FinishAnswer
    \/ Respond

MonthEndSpec == MonthEndInit /\ [][MonthEndNext]_monthEndVars

-----------------------------------------------------------------------------
(* Properties.  The dataset does not change while a request runs, so what  *)
(* is said of it is looked at between requests.                            *)

\* mapping.py normalize and store_normalized: whatever the layout and whichever
\* roll-ups it has, a sheet's rows of an account and month add up to the items
\* of the books that are not blank, and its metrics are of the accounts, one
\* that is all blank included.
LayoutsAgree ==
    pc = "idle" /\ book # NoBook /\ table # << >> =>
        /\ {<<m[1], m[3]>> : m \in DOMAIN metrics} = Accounts
        /\ \A a \in Accounts, m \in Months :
              LET rows == {k \in DOMAIN table : <<k[1][1], k[1][3]>> = a /\ k[2] = m}
                  items == {i \in Items : i.account = a /\ i.month = m /\ book[i] # None} IN
              SumFunction([k \in rows |-> table[k].value])
              = SumFunction([i \in items |-> Amount(i)])

\* pvm.py:10 "volume + price + mix == total variance": a stored bridge explains
\* the variance of its row to the budget, when every item of it was budgeted and
\* no budget was joined to it after the upload; and the share the root-cause
\* page prints of its top component is its part of that variance, when all its
\* components point the same way (main.py and root_cause.py:120 "% of the
\* variance").
BridgeExplainsVariance ==
    \A k \in DOMAIN bridges \ joined :
        LET bridge == bridges[k]
            variance == table[k].value - table[k].budget
            top == TopComponent(bridge) IN
        (\A i \in Items : i.account = <<k[1][1], k[1][3]>> /\ i.month = k[2] /\ book[i] # None
                              => Plan[i] # None)
        => /\ bridge.volume + bridge.price + bridge.mix = variance
           /\ (\A c, d \in DOMAIN bridge : Sign(bridge[c]) * Sign(bridge[d]) >= 0) =>
                 PvmShares(bridge)[top][1] * variance = 100 * bridge[top] * Abs(variance)

\* A budget file's line is for a metric: it carries its identifier, or carries
\* none of the dataset's and names it.
IsFor(line, m) ==
    \/ line.id # None /\ metrics[m] = line.id
    \/ /\ \A x \in DOMAIN metrics : line.id = None \/ metrics[x] # line.id
       /\ SameName(m, line.label)

\* A file changes budgets only, to amounts of its lines for that metric and
\* month; a metric that shares its name or identifier with no other gets them.
FillsIn(lines) ==
    /\ DOMAIN table' = DOMAIN table
    /\ \A k \in DOMAIN table :
          LET for == {i \in DOMAIN lines : lines[i].period = k[2] /\ IsFor(lines[i], k[1])}
              One(i) == {j \in for : lines[j].label = lines[i].label /\ lines[j].id = lines[i].id}
              sure == \A m \in DOMAIN metrics \ {k[1]} :
                          /\ ~SameName(m, k[1])
                          /\ metrics[m] = None \/ metrics[m] # metrics[k[1]] IN
          /\ table'[k].value = table[k].value
          /\ for = {} => table'[k].budget = table[k].budget
          /\ for # {} /\ sure =>
                \E i \in for :
                    table'[k].budget = SumFunction([j \in One(i) |-> lines[j].value])

\* mapping.py:380 "never creates a new metric or a new metric_values row": a
\* join changes budgets only, to amounts of lines of that metric and month, and
\* a line for one existing row is dropped only for another line that has it.
JoinOnlyFillsIn ==
    [][\A lines \in BudgetFiles : MatchBudget(lines) => FillsIn(lines)]_monthEndVars

\* aggregate.py: the years of a flow are the sums of their quarters, values and
\* budgets, and the variance of a year is that of its months when all of them
\* have a budget; and comparing a month with the one before or the one a year
\* ago says what its card says (correlations.py compare_periods).
GranularitiesAgree ==
    pc = "idle" => \A metric \in DOMAIN metrics :
        LET s == Series(metric)
            quarters == aggregate_series(s, "quarter", "flow")
            In(y) == {q \in DOMAIN quarters : q \div 4 = y} IN
        /\ \A m \in DOMAIN s :
              /\ m - 1 \in DOMAIN s => compare_periods(s, m - 1, m).pct = compute_kpis(s, m).mom
              /\ m - 12 \in DOMAIN s => compare_periods(s, m - 12, m).pct = compute_kpis(s, m).yoy
        /\ \A y \in {m \div 12 : m \in DOMAIN s} :
            LET card == AggregatedFact(s, "year", "flow", y)
                months == Bucket(s, "year", y) IN
            /\ card.value = SumFunction([q \in In(y) |-> quarters[q].value])
            /\ (\A m \in months : s[m].budget # None) =>
                  card.var = SumFunction([m \in months |-> compute_kpis(s, m).var])

\* correlations.py: the streak of a month is the longest run of calendar months
\* that ends there and along which the values only rise, or only fall, from a
\* value other than zero.
StreakIsMonotoneRun ==
    pc = "idle" => \A metric \in DOMAIN metrics :
        LET s == Series(metric)
            Rises(m, d) == /\ {m - 1, m} \subseteq DOMAIN s
                           /\ s[m - 1].value # 0
                           /\ d * (s[m].value - s[m - 1].value) > 0
            Is(p, n, d) == /\ \A k \in p - n + 1 .. p : Rises(k, d)
                           /\ ~Rises(p - n, d) IN
        \A p \in DOMAIN s :
            LET streak == streak_from_history(s, p) IN
            IF streak.months = 0
            THEN \A d \in {-1, 1}, n \in 1 .. Cardinality(DOMAIN s) : Is(p, n, d) => n < MinMonths
            ELSE streak.months >= MinMonths /\ Is(p, streak.months, streak.direction)

\* generate.py:61 "Replace an empty limitation with one available, deterministic
\* observation": what the closing adds never turns a text that passed the guard
\* into one that fails it, whatever is rounded in printing and whatever the unit,
\* unless the metric's own name states what the guard takes for a figure.
ClosingKeepsFaith ==
    insight.kind = "insight" /\ Passes(insight.text) /\ Passes(request.fact.name)
        => insight.passed

\* generate.py: an insight of high confidence passed the guard, cites its
\* context, and rests on three snippets whose scores a semantic embedder gave.
ConfidenceIsEarned ==
    insight.confidence = "High" =>
        /\ insight.passed
        /\ insight.text.cites
        /\ request.context.semantic
        /\ request.context.size >= 3
        /\ request.context.top # None => request.context.top >= 25

\* attribution.py "mirrors the faithfulness guard's finding": the drill-down of a
\* stored insight never clears what the guard flagged, says so in a message when
\* it flags something, and agrees with the guard when the insight cites all that
\* retrieval found; it may flag a figure of a source that was read and not cited.
DrillDownAgrees ==
    insight.kind = "insight" =>
        /\ report_grounding.faithful => insight.passed
        /\ report_grounding.faithful <=> report_grounding.messages = {}
        /\ insight.narrative.cites => (report_grounding.faithful <=> insight.passed)

\* services.log_llm_call: what a request that returned a text logs are the
\* tokens of all its calls, and a request that returned none leaves at most one
\* call unbilled, its first text that failed the guard.
UnbilledOnlyWhenRetryDies ==
    /\ pc = "shown" => billed = calls
    /\ calls - billed <= 1
    /\ insight.kind = "none" => billed = 0

=============================================================================
