----------------------------- MODULE MCMonthEnd -----------------------------
(* A bounded instance of MonthEnd for TLC: two accounts, one of them sold   *)
(* as two products, over two months; five months of a connector's feed,    *)
(* a count under the name "1400 Orders".                                   *)
EXTENDS MonthEnd

Rev == <<"rev", "Rev">>
Opex == <<"opex", "Opex">>
Item(a, p, m) == [account |-> a, product |-> p, month |-> m]

MCItems == {Item(Rev, "p1", 24), Item(Rev, "p2", 24), Item(Rev, "p1", 25), Item(Opex, "p1", 24)}
MCPrice == [p1 |-> 600, p2 |-> 7]
MCPlan == [i \in MCItems |->
    IF i.account = Opex THEN None
    ELSE IF i.product = "p1" THEN [qty |-> 2, price |-> 500] ELSE [qty |-> 1, price |-> 8]]
MCIdOf == [a \in {Rev, Opex} |-> a[1]]
MCFeed == <<"orders", None, "Orders">>
MCNamed == [a \in {Opex, <<"orders", "Orders">>} |->
    IF a = Opex THEN [unit |-> "%", figures |-> {}, words |-> {}]
    ELSE [unit |-> "count", figures |-> Figure(<<1400, 1>>, FALSE), words |-> {}]]
MCFeedRows ==
    [month : {12}, value : {700}, budget : {None}]
        \cup [month : {13}, value : {0, 1400}, budget : {None}]
        \cup [month : {23}, value : {0, 700, 1400}, budget : {None}]
        \cup [month : {24, 25}, value : {0, 700, 1400}, budget : {None, 700}]

BudgetLine(spelling, id, v) ==
    [label |-> <<"rev", None, spelling>>, period |-> 24, id |-> id, value |-> v]
MCBudgetFiles == {
    <<BudgetLine("Rev", None, 5), BudgetLine("Rev", None, 7)>>,
    <<BudgetLine("REV", None, 5), BudgetLine("Rev", None, 7)>>,
    <<BudgetLine("REV", "opex", 5)>>,
    <<[BudgetLine("Rev", None, 5) EXCEPT !.period = 30]>>}

MCContexts == {
    [size |-> 0, top |-> None, semantic |-> TRUE, figures |-> {}],
    [size |-> 3, top |-> 40, semantic |-> TRUE, figures |-> Figure(<<47, 1>>, FALSE)],
    [size |-> 3, top |-> 40, semantic |-> FALSE, figures |-> {}],
    [size |-> 2, top |-> 20, semantic |-> TRUE, figures |-> {}]}

Text(claim, limits, cites, saysYear) ==
    [claim |-> claim, limits |-> limits, cites |-> cites, saysYear |-> saysYear]
MCTexts == {
    Text("value", FALSE, TRUE, FALSE), Text("value", TRUE, FALSE, FALSE),
    Text("change", FALSE, FALSE, TRUE), Text("context", FALSE, TRUE, FALSE),
    Text("context", FALSE, FALSE, TRUE),
    Text("invented", FALSE, FALSE, FALSE), Text("doubled", FALSE, FALSE, FALSE),
    Text("nothing", TRUE, FALSE, FALSE)}
=============================================================================
