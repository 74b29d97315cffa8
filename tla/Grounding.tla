----------------------------- MODULE Grounding ------------------------------
(***************************************************************************)
(* The number guard (generation/guard.py), the drill-down that traces a    *)
(* stored text to its facts and sources (grounding/attribution.py), the    *)
(* confidence of an insight and the observation that closes one without    *)
(* sources (generation/generate.py).                                       *)
(*                                                                         *)
(* Reading numbers out of prose is abstracted away: a text has a set of    *)
(* figures [num, den, pct, compact], where compact is a whole number of    *)
(* thousands of dollars ("$12K"), a set of multiplier words by the change  *)
(* in per cent they imply, and flags.  Dates, durations and the period's   *)
(* year are no figures.                                                    *)
(***************************************************************************)
EXTENDS Values, SequencesExt

-----------------------------------------------------------------------------
(* The guard.                                                              *)

Whole(n) == <<n, 1>>

\* A figure of a text.
Figured == [num : Int, den : Nat \ {0}, pct : BOOLEAN, compact : BOOLEAN]

\* _allowed_values: what may be cited without and with a per cent sign.
Magnitudes(fact) ==
    {Whole(n) : n \in {fact.value, fact.prior, fact.var} \ {None}}
        \cup (IF fact.bridge = None THEN {}
              ELSE {Whole(fact.bridge[c]) : c \in DOMAIN fact.bridge})

\* A metric in per cent has its values among the percentages as well.
AsPercents(fact, values) ==
    IF fact.unit = "%" THEN {Whole(n) : n \in values \ {None}} ELSE {}

Percents(fact) ==
    ({fact.mom, fact.yoy, fact.varPct} \ {None}) \cup AsPercents(fact, {fact.value, fact.prior})

\* Within two per cent or one half, sign aside.
Within(f, v) ==
    Abs(Abs(f.num) * v[2] - Abs(v[1]) * f.den)
        <= Larger(25 * f.den * v[2], Abs(v[1]) * f.den) \div 50

\* A whole-$K figure is the amount rounded to thousands.
RoundsTo(f, v) ==
    /\ f.compact
    /\ Abs(v[1]) >= 1000 * v[2]
    /\ Abs(v[1]) < 1000000 * v[2]
    /\ Abs(f.num) = f.den * 1000 * ((2 * Abs(v[1]) + 1000 * v[2]) \div (2000 * v[2]))

\* Whole-$K figures get no rule of their own.
MatchesPlainly(f, v) == Within(f, v)

Matches(f, v) == Within(f, v) \/ RoundsTo(f, v)

\* _check_multiplier_claims: the change a word implies, sign included, is one
\* of the fact's within a tenth or one half.
Implied(word, fact) ==
    \E v \in Percents(fact) :
        10 * Abs(word * v[2] - v[1]) <= Larger(5 * v[2], Abs(v[1]))

\* check_faithfulness.
Faithful(text, fact, context) ==
    /\ \A f \in text.figures :
          \E v \in (IF f.pct THEN Percents(fact) ELSE Magnitudes(fact))
                      \cup {<<c.num, c.den>> : c \in {d \in context.figures : d.pct = f.pct}} :
             Matches(f, v)
    /\ \A w \in text.words : Implied(w, fact)

\* faithfulness_messages: one for each figure that matches nothing, and one for
\* the change when only a word is to blame.
Unmatched(text, fact, context) ==
    {f \in text.figures : ~Faithful([text EXCEPT !.figures = {f}, !.words = {}], fact, context)}

Messages(text, fact, context) ==
    CASE Faithful(text, fact, context) -> {}
      [] Unmatched(text, fact, context) # {} -> Unmatched(text, fact, context)
      [] OTHER -> {"the claimed change"}

-----------------------------------------------------------------------------
(* The drill-down.  A text is taken as one sentence.                       *)

Entry(field, values, pct) == [field |-> field, values |-> values, pct |-> pct]

WholeOrNone(n) == IF n = None THEN {} ELSE {Whole(n)}

\* _labeled_fact_values: the fields a text may cite, in the order they are tried.
LabeledFactValues(fact) ==
    <<Entry("value", {Whole(fact.value)}, FALSE),
      Entry("prior", WholeOrNone(fact.prior), FALSE),
      Entry("value", AsPercents(fact, {fact.value}), TRUE),
      Entry("prior", AsPercents(fact, {fact.prior}), TRUE),
      Entry("var", WholeOrNone(fact.var), FALSE),
      Entry("mom", {fact.mom} \ {None}, TRUE),
      Entry("yoy", {fact.yoy} \ {None}, TRUE),
      Entry("varPct", {fact.varPct} \ {None}, TRUE),
      Entry("bridge", IF fact.bridge = None THEN {}
                      ELSE {Whole(fact.bridge[c]) : c \in DOMAIN fact.bridge}, FALSE)>>

\* The position of the first field of its kind that a figure matches, or 0.
CitedField(f, fact) ==
    SelectInSeq(LabeledFactValues(fact),
                LAMBDA e : e.pct = f.pct /\ \E v \in e.values : Matches(f, v))

\* A drill-down that only knows the facts.
NoSourceHas(f, context) == FALSE

SourceHas(f, context) ==
    \E c \in context.figures : c.pct = f.pct /\ Matches(f, <<c.num, c.den>>)

\* The change a word implies, as a figure.
Claimed(word) == [num |-> word, den |-> 1, pct |-> TRUE, compact |-> FALSE]

\* attribute: the fields cited, the figures and words that nothing explains.
attribute(text, fact, context) ==
    LET facts == {CitedField(f, fact) : f \in text.figures} \ {0}
        unverified == {f \in text.figures : CitedField(f, fact) = 0 /\ ~SourceHas(f, context)}
                          \cup {Claimed(w) : w \in {x \in text.words : ~Implied(x, fact)}} IN
    [facts |-> facts,
     unverified |-> unverified,
     kind |-> CASE unverified # {} -> "numeric-unverified"
                [] unverified = {} /\ facts # {} -> "verified"
                [] unverified = {} /\ facts = {} /\ text.cites -> "context"
                [] OTHER -> "general",
     messages |-> Messages(text, fact, context),
     faithful |-> unverified = {}]

-----------------------------------------------------------------------------
(* The root-cause page.                                                    *)

\* _pvm: the bridge's components by their share of all movement, in per cent.
PvmShares(bridge) ==
    LET total == Abs(bridge.volume) + Abs(bridge.price) + Abs(bridge.mix) IN
    [c \in DOMAIN bridge |-> <<100 * Abs(bridge[c]), IF total = 0 THEN 1 ELSE total>>]

\* _primary_factor: the component the headline names.
TopComponent(bridge) ==
    LET order == <<"volume", "price", "mix">>
        leads(c) == \A d \in DOMAIN bridge : Abs(bridge[d]) <= Abs(bridge[c]) IN
    order[SelectInSeq(order, leads)]

-----------------------------------------------------------------------------
(* Confidence.                                                             *)

\* _confidence_from_context; scores are hundredths, None when there are none.
FromContext(context) ==
    CASE context.size < 2 -> "Low"
      [] context.size >= 2 /\ context.top = None
           -> IF context.size >= 3 THEN "High" ELSE "Medium"
      [] context.size >= 2 /\ context.top # None
           -> IF context.size >= 3 /\ context.top >= 25 THEN "High" ELSE "Medium"

\* Scores are believed whatever made them.
CappedNever(level, context) == level

\* The offline embedder's scores are noise and never earn High.
Capped(level, context) == IF ~context.semantic /\ level = "High" THEN "Medium" ELSE level

\* Context that the text cites none of.
NotchedDown(level) == IF level = "High" THEN "Medium" ELSE "Low"

Confidence(passed, context, cites) ==
    LET level == Capped(IF passed THEN FromContext(context) ELSE "Low", context) IN
    IF passed /\ context.size > 0 /\ ~cites THEN NotchedDown(level) ELSE level

-----------------------------------------------------------------------------
(* The closing observation.                                                *)

\* _fixed: a multiple of a unit, half away from zero.
Rounded(n, unit) ==
    (IF n < 0 THEN -1 ELSE 1) * unit * ((2 * Abs(n) + unit) \div (2 * unit))

\* _fmt of an amount in dollars: thousands above a thousand, above a million
\* millions with two decimals.
PrintedDollars(n) ==
    LET K == Abs(n) >= 1000 /\ Abs(n) < 1000000 IN
    [num |-> IF Abs(n) < 1000 THEN n ELSE IF K THEN Rounded(n, 1000) ELSE Rounded(n, 10000),
     den |-> 1, pct |-> FALSE, compact |-> K]

\* _fmt of a percentage: one decimal, half away from zero.
PrintedPercent(v) ==
    [num |-> (IF v[1] < 0 THEN -1 ELSE 1) * ((20 * Abs(v[1]) + v[2]) \div (2 * v[2])),
     den |-> 10, pct |-> TRUE, compact |-> FALSE]

PrintedCount(n) == [num |-> n, den |-> 1, pct |-> FALSE, compact |-> FALSE]

\* _fmt; what is neither a count nor in per cent is printed in dollars.
Printed(n, unit) ==
    CASE unit = "%" -> PrintedPercent(Whole(n))
      [] unit = "count" -> PrintedCount(n)
      [] unit = "USD" -> PrintedDollars(n)

\* _without_context_closing: a last sentence that only says that nothing is
\* known goes; if nothing else is left the text says the metric's name and
\* value; then the streak, the change over the year or the anomaly is added,
\* unless it is there.
WithoutContextClosing(text, fact, streak) ==
    LET nothing == text.limits /\ text.figures = {} /\ text.words = {}
        figures == IF nothing THEN {Printed(fact.value, fact.unit)} \cup fact.name.figures
                   ELSE text.figures
        yearly == streak.months = 0 /\ fact.yoy # None /\ ~text.saysYear IN
    [text EXCEPT !.limits = FALSE,
                 !.words = IF nothing THEN fact.name.words ELSE text.words,
                 !.figures = figures \cup (IF yearly THEN {PrintedPercent(fact.yoy)} ELSE {})]

=============================================================================
