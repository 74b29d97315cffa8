------------------------------- MODULE Figures -------------------------------
(***************************************************************************)
(* Datasets and the figures in them: universes and the active dataset      *)
(* (app/datasets.py), uploads and budget joins (app/main.py, ingestion/),  *)
(* connector syncs (app/connectors.py), computed facts (compute/kpis.py)   *)
(* and derived metrics (compute/derived.py).  A request is a list of       *)
(* steps, each a statement that reads or a transaction that writes.  The   *)
(* content of a dataset is abstracted to stamps: which upload its values   *)
(* and budgets are from, and which values its facts were computed from.    *)
(***************************************************************************)
EXTENDS Integers, Sequences, FiniteSets

CONSTANTS
    Threads,
    Universes,      \* the demo, and the workspaces
    ReadOnly,       \* universes seeded with a dataset, whose users may only look and switch
    MaxDatasets,    \* bound: datasets are numbered 1 .. MaxDatasets
    MaxOverlapped,  \* bound: as many of them where requests overlap
    MaxStamp,       \* bound: uploads are numbered 1 .. MaxStamp
    Undefined,      \* uploads for which the derived metric's formula has no value
    Modes           \* initial values of overlap

ASSUME FiguresAssumption ==
    /\ ReadOnly \subseteq Universes
    /\ IsFiniteSet(ReadOnly) /\ Cardinality(ReadOnly) <= MaxDatasets
    /\ MaxDatasets \in Nat /\ MaxOverlapped \in Nat /\ MaxStamp \in Nat
    /\ Undefined \subseteq 1 .. MaxStamp
    /\ Modes \subseteq BOOLEAN

Ids == 1 .. MaxDatasets
Stamps == 0 .. MaxStamp     \* 0: no rows

VARIABLES
    overlap,    \* may requests interleave?  Chosen once, at the start
    universe,   \* datasets: universe[d] of those made so far, a sequence
    alive,      \* ... which are not deleted
    active,     \* ... which have is_active = 1
    synced,     \* the dataset a universe's connector found or made by name
    values, budgets,    \* metric_values of the base metrics: stamps
    facts,      \* computed_facts of the base metrics: <<value, budget>> stamps
    derived,    \* datasets with a row in derived_metrics
    dvalues, dfacts,    \* the derived metric's metric_values and computed_facts
    stamp,      \* uploads so far
    todo,       \* what thread t has still to do
    home,       \* the universe it runs in
    on,         \* the datasets it works on
    rows,       \* the datasets its set_active reached
    read,       \* <<value, budget, derived value>> stamps it has read of a dataset
    alone,      \* history: t began on clean datasets or refreshes them, and
                \* nobody else has written to them since
    unclean     \* history: datasets written to since the last lone refresh

datasetVars == <<universe, alive, active, synced>>
contentVars == <<values, budgets, facts, derived, dvalues, dfacts, stamp>>
threadVars == <<todo, home, on, rows, read>>
historyVars == <<alone, unclean>>
vars == <<overlap, datasetVars, contentVars, threadVars, historyVars>>

-----------------------------------------------------------------------------
(* Choosing a dataset.                                                     *)

InScope(u) == {d \in alive : universe[d] = u}

Newest(S) == CHOOSE d \in S : \A e \in S : e <= d

\* 0: the universe has no dataset.
active_dataset_id(u) ==
    CASE InScope(u) \cap active # {} -> Newest(InScope(u) \cap active)
      [] InScope(u) \cap active = {} /\ InScope(u) # {} -> Newest(InScope(u))
      [] OTHER -> 0

\* The rows the first UPDATE of set_active reaches if it forgets the scope.
ScopeRowsAll(u) == alive

ScopeRows(u) == InScope(u)

-----------------------------------------------------------------------------
(* Requests.                                                               *)

compute_and_store == <<"read values", "write facts">>
materialize == <<"read facts", "write derived">>

\* A refresh that computes once only.
RefreshOnce == compute_and_store \o materialize

Refresh == compute_and_store \o materialize \o compute_and_store

SetActive == <<"read rows", "set active">>

Unread == [d \in Ids |-> <<0, 0, 0>>]

NoOne == CHOOSE u \in Universes : TRUE

Init ==
    /\ overlap \in Modes
    /\ universe \in [1 .. Cardinality(ReadOnly) -> ReadOnly]
    /\ \A u \in ReadOnly : \E d \in DOMAIN universe : universe[d] = u
    /\ alive = DOMAIN universe /\ active = alive
    /\ synced = [u \in Universes |-> 0]
    /\ values = [d \in Ids |-> 0] /\ budgets = [d \in Ids |-> 0]
    /\ facts = [d \in Ids |-> <<0, 0>>]
    /\ derived = {}
    /\ dvalues = [d \in Ids |-> 0] /\ dfacts = [d \in Ids |-> 0]
    /\ stamp = 0
    /\ todo = [t \in Threads |-> <<>>]
    /\ home = [t \in Threads |-> NoOne]
    /\ on = [t \in Threads |-> {}]
    /\ rows = [t \in Threads |-> {}]
    /\ read = [t \in Threads |-> Unread]
    /\ alone = [t \in Threads |-> FALSE]
    /\ unclean = {}

MayStart(t) ==
    /\ todo[t] = <<>>
    /\ overlap \/ \A s \in Threads : todo[s] = <<>>

\* The request of t is to work on S; repairs: it computes everything anew.
Starts(t, u, S, steps, repairs) ==
    /\ MayStart(t)
    /\ todo' = [todo EXCEPT ![t] = steps]
    /\ home' = [home EXCEPT ![t] = u]
    /\ on' = [on EXCEPT ![t] = S]
    /\ alone' = [alone EXCEPT ![t] = repairs \/ S \cap unclean = {}]
    /\ UNCHANGED <<datasetVars, contentVars, rows, read, unclean>>

\* POST /ingest and POST /ingest/{id}/mapping.
Ingest(t, u) ==
    Starts(t, u, {}, <<"read rows", "create", "write values">> \o compute_and_store, TRUE)

activate_dataset(t, u, d) == Starts(t, u, {d}, SetActive, FALSE)

delete_dataset(t, u, d) == Starts(t, u, {d}, <<"delete">>, FALSE)

\* A budget file is joined to rows that exist.
JoinBudget(t, u, d) ==
    values[d] # 0 /\ Starts(t, u, {d}, <<"write budgets">> \o compute_and_store, FALSE)

\* POST /compute; without a dataset in scope it computes the facts of everyone.
Compute(t, u) ==
    IF InScope(u) = {} THEN Starts(t, u, alive, compute_and_store, FALSE)
    ELSE Starts(t, u, {active_dataset_id(u)}, Refresh, TRUE)

\* POST /kpis/derived: its references must be metrics of the dataset.
CreateDerived(t, u) ==
    LET d == active_dataset_id(u) IN
    /\ d # 0 /\ values[d] # 0 /\ d \notin derived
    /\ Starts(t, u, {d}, <<"define", "read facts", "write all derived">> \o compute_and_store, FALSE)

Sync(t, u) ==
    Starts(t, u, {}, <<"find", "write values">> \o Refresh, TRUE)

Request(t, u) ==
    \/ \E d \in InScope(u) : activate_dataset(t, u, d)
    \/ /\ u \notin ReadOnly
       /\ \/ Ingest(t, u) \/ Compute(t, u) \/ CreateDerived(t, u) \/ Sync(t, u)
          \/ \E d \in InScope(u) : delete_dataset(t, u, d) \/ JoinBudget(t, u, d)

-----------------------------------------------------------------------------
(* Steps.                                                                  *)

At(t, step) == todo[t] # <<>> /\ Head(todo[t]) = step

\* t has written to S and goes on with steps; what it had read has served its purpose.
\* If t was alone on S from its first step to this, its last, S is clean; in any
\* case the work of everybody else on S is spoilt.
Continue(t, S, steps) ==
    LET ends == steps = <<>> IN
    /\ todo' = [todo EXCEPT ![t] = steps]
    /\ home' = [home EXCEPT ![t] = IF ends THEN NoOne ELSE @]
    /\ on' = [on EXCEPT ![t] = IF ends THEN {} ELSE @]
    /\ rows' = [rows EXCEPT ![t] = {}]
    /\ read' = [read EXCEPT ![t] = Unread]
    /\ alone' = [s \in Threads |-> IF s = t THEN alone[t] /\ ~ends
                                  ELSE alone[s] /\ S \cap on[s] = {}]
    /\ unclean' = IF ends /\ alone[t] THEN unclean \ S ELSE unclean \cup S

Done(t, S) == Continue(t, S, Tail(todo[t]))

\* What is written to a dataset that is gone violates a foreign key: only Fails is left.
Present(t) == on[t] \subseteq alive

ReadRows(t) ==
    /\ At(t, "read rows")
    /\ rows' = [rows EXCEPT ![t] = ScopeRows(home[t])]
    /\ todo' = [todo EXCEPT ![t] = Tail(@)]
    /\ UNCHANGED <<datasetVars, contentVars, home, on, read, historyVars>>

\* An activation that leaves the others as they are.
ActivatesToo(t, S) == active' = active \cup S

\* set_active: its first UPDATE reaches the rows that were there when it began.
Activates(t, S) == active' = (active \ rows[t]) \cup S

SetsActive(t) ==
    /\ At(t, "set active")
    /\ Activates(t, on[t] \cap alive)
    /\ Done(t, {})
    /\ UNCHANGED <<universe, alive, synced, contentVars>>

NewDataset(t) == Len(universe) + 1

\* The new row, in the universe of its request.
Inserts(t) ==
    /\ NewDataset(t) \in Ids
    /\ overlap => NewDataset(t) <= MaxOverlapped
    /\ universe' = Append(universe, home[t])
    /\ alive' = alive \cup {NewDataset(t)}

CreateDataset(t) ==
    /\ At(t, "create")
    /\ Inserts(t)
    /\ Activates(t, {NewDataset(t)})
    /\ todo' = [todo EXCEPT ![t] = Tail(@)]
    /\ on' = [on EXCEPT ![t] = {NewDataset(t)}]
    /\ rows' = [rows EXCEPT ![t] = {}]
    /\ UNCHANGED <<synced, contentVars, home, read, historyVars>>

\* A sync finds its dataset by name, or makes it without activating it.
FindDataset(t) ==
    /\ At(t, "find")
    /\ IF synced[home[t]] # 0
       THEN /\ on' = [on EXCEPT ![t] = {synced[home[t]]}]
            /\ UNCHANGED <<universe, alive, synced>>
       ELSE /\ Inserts(t)
            /\ synced' = [synced EXCEPT ![home[t]] = NewDataset(t)]
            /\ on' = [on EXCEPT ![t] = {NewDataset(t)}]
    /\ todo' = [todo EXCEPT ![t] = Tail(@)]
    /\ UNCHANGED <<active, contentVars, home, rows, read, historyVars>>

\* Whatever the dataset held is deleted with it, except for its row in
\* derived_metrics, which nobody reaches any more.
Delete(t) ==
    /\ At(t, "delete") /\ Present(t)
    /\ LET d == CHOOSE d \in on[t] : TRUE
           left == InScope(home[t]) \ {d}
           next == IF d \in active /\ left # {} THEN {Newest(left)} ELSE {} IN
       /\ alive' = alive \ {d}
       /\ active' = active \ {d}
       /\ synced' = [u \in Universes |-> IF synced[u] = d THEN 0 ELSE synced[u]]
       /\ values' = [values EXCEPT ![d] = 0]
       /\ budgets' = [budgets EXCEPT ![d] = 0]
       /\ facts' = [facts EXCEPT ![d] = <<0, 0>>]
       /\ derived' = derived \ {d}
       /\ dvalues' = [dvalues EXCEPT ![d] = 0]
       /\ dfacts' = [dfacts EXCEPT ![d] = 0]
       /\ unclean' = unclean \ {d}
       /\ todo' = [todo EXCEPT ![t] = IF next = {} THEN <<>> ELSE SetActive]
       /\ home' = [home EXCEPT ![t] = IF next = {} THEN NoOne ELSE @]
       /\ on' = [on EXCEPT ![t] = next]
    /\ alone' = [alone EXCEPT ![t] = FALSE]
    /\ UNCHANGED <<universe, stamp, rows, read>>

\* ingest_dataframe and store_normalized: an upsert of what the file holds.
WriteValues(t) ==
    /\ At(t, "write values") /\ Present(t)
    /\ stamp < MaxStamp
    /\ stamp' = stamp + 1
    /\ values' = [d \in Ids |-> IF d \in on[t] THEN stamp' ELSE values[d]]
    /\ budgets' = [d \in Ids |-> IF d \in on[t] THEN stamp' ELSE budgets[d]]
    /\ Done(t, on[t])
    /\ UNCHANGED <<datasetVars, facts, derived, dvalues, dfacts>>

WriteBudgets(t) ==
    /\ At(t, "write budgets") /\ Present(t)
    /\ stamp < MaxStamp
    /\ stamp' = stamp + 1
    /\ budgets' = [d \in Ids |-> IF d \in on[t] THEN stamp' ELSE budgets[d]]
    /\ Done(t, on[t])
    /\ UNCHANGED <<datasetVars, values, facts, derived, dvalues, dfacts>>

ReadsFrom(t, content) ==
    /\ read' = [read EXCEPT ![t] = [d \in Ids |-> IF d \in on[t] THEN content[d] ELSE Unread[d]]]
    /\ on' = [on EXCEPT ![t] = @ \cap alive]
    /\ todo' = [todo EXCEPT ![t] = Tail(@)]
    /\ UNCHANGED <<datasetVars, contentVars, home, rows, historyVars>>

ReadValues(t) ==
    /\ At(t, "read values")
    /\ ReadsFrom(t, [d \in Ids |-> <<values[d], budgets[d], dvalues[d]>>])

\* The upsert of compute_and_store: facts of values that are not there any more stay.
WriteFacts(t) ==
    /\ At(t, "write facts") /\ Present(t)
    /\ facts' = [d \in Ids |-> IF d \in on[t] /\ read[t][d][1] # 0
                               THEN <<read[t][d][1], read[t][d][2]>> ELSE facts[d]]
    /\ dfacts' = [d \in Ids |-> IF d \in on[t] /\ read[t][d][3] # 0
                                THEN read[t][d][3] ELSE dfacts[d]]
    /\ Done(t, on[t])
    /\ UNCHANGED <<datasetVars, values, budgets, derived, dvalues, stamp>>

Define(t) ==
    /\ At(t, "define") /\ Present(t)
    /\ on[t] \cap derived = {}
    /\ derived' = derived \cup on[t]
    /\ Done(t, on[t])
    /\ UNCHANGED <<datasetVars, values, budgets, facts, dvalues, dfacts, stamp>>

ReadFacts(t) ==
    /\ At(t, "read facts")
    /\ ReadsFrom(t, [d \in Ids |-> <<facts[d][1], 0, 0>>])

\* What the formula makes of an upload.
Formula(s) == IF s \in Undefined THEN 0 ELSE s

\* The old values of the derived metric and their facts go, the new values come.
\* Where none come, a refresh ends without computing the facts again.
WriteDerived(t) ==
    /\ At(t, "write derived") \/ At(t, "write all derived")
    /\ Present(t)
    /\ LET S == on[t] \cap derived
           none == \A d \in S : Formula(read[t][d][1]) = 0
           rest == IF none /\ At(t, "write derived") THEN <<>> ELSE Tail(todo[t]) IN
       /\ dvalues' = [d \in Ids |-> IF d \in S THEN Formula(read[t][d][1]) ELSE dvalues[d]]
       /\ dfacts' = [d \in Ids |-> IF d \in S THEN 0 ELSE dfacts[d]]
       /\ Continue(t, on[t], rest)
    /\ UNCHANGED <<datasetVars, values, budgets, facts, derived, stamp>>

\* A step fails, or the process dies: what was committed stays.
Fails(t) ==
    /\ todo[t] # <<>>
    /\ Continue(t, {}, <<>>)
    /\ UNCHANGED <<datasetVars, contentVars>>

Step(t) ==
    \/ ReadRows(t) \/ SetsActive(t) \/ CreateDataset(t) \/ FindDataset(t) \/ Delete(t)
    \/ WriteValues(t) \/ WriteBudgets(t) \/ ReadValues(t) \/ WriteFacts(t)
    \/ Define(t) \/ ReadFacts(t) \/ WriteDerived(t)

Next ==
    /\ \E t \in Threads :
          \/ \E u \in Universes : Request(t, u)
          \/ Step(t) \/ Fails(t)
    /\ UNCHANGED overlap

Spec == Init /\ [][Next]_vars

-----------------------------------------------------------------------------
(* Properties.                                                             *)

\* datasets.py:3 "Exactly one dataset is active at a time": never two in one
\* universe, when requests do not overlap.
OneActive ==
    ~overlap => \A u \in Universes : Cardinality(InScope(u) \cap active) <= 1

\* datasets.py:59-60 "demo sessions can NEVER see or activate a real dataset, and
\* vice-versa": no request changes which dataset another universe shows.
UniversesAreApart ==
    [][\A t \in Threads, u \in Universes :
          todo'[t] # todo[t] /\ todo[t] # <<>> /\ u # home[t] => active_dataset_id(u)' = active_dataset_id(u)]_vars

\* A dataset whose last writer ran alone and to its end has facts made of its
\* current values and budgets, and a derived metric made of its current facts,
\* whatever was interrupted or overlapped before.
FactsFollowValues ==
    \A d \in alive \ unclean :
        /\ facts[d] = <<values[d], budgets[d]>>
        /\ d \in derived => /\ dvalues[d] = Formula(values[d])
                            /\ dfacts[d] = dvalues[d]

=============================================================================
