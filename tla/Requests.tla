------------------------------ MODULE Requests ------------------------------
(***************************************************************************)
(* A request on its way through the server: the workspace scope set by     *)
(* _auth_middleware (app/main.py), the pool of Postgres connections that   *)
(* carry that scope to row level security (app/db.py), and the spend limit *)
(* that is checked before a model call and fed by the log written after it *)
(* (app/services.py, app/billing.py, app/retention.py).  A stage that      *)
(* works on the database first waits for a connection of the pool; what it *)
(* then does with the connection, up to giving it back, is one step.  One  *)
(* connection is one database session.  Costs are whole units.             *)
(***************************************************************************)
EXTENDS Integers, FiniteSets

CONSTANTS
    Threads,        \* requests served at a time
    Conns,          \* the pool's max_size connections
    Workspaces,
    Plans, TierBudgets,     \* TierBudgets[p]: plan p's limit, None: unlimited
    Budgets,        \* monthly_budget_usd an admin may set, None: the plan's
    MaxCost,        \* the most one request spends on the model
    Pool, Absent,   \* owners of a connection no request holds
    None

ASSUME RequestsAssumption ==
    /\ IsFiniteSet(Threads) /\ Threads # {} /\ IsFiniteSet(Conns)
    /\ MaxCost \in Nat \ {0}
    /\ Budgets \subseteq Nat \cup {None} /\ Plans # {}
    /\ TierBudgets \in [Plans -> Nat \cup {None}]
    /\ None \notin Nat /\ None \notin Workspaces
    /\ Pool # Absent /\ {Pool, Absent} \cap Threads = {}

Kinds == {"read", "ask", "insight", "digest"}
Scopes == Workspaces \cup {None}

VARIABLES
    pc,         \* the stage a request is in
    ws,         \* its workspace; None: demo, or authentication off
    kind,       \* what it asks for
    owner,      \* who holds a connection: a thread, Pool, or Absent if not open
    scope,      \* app.workspace_id as the session of a connection sees it
    base,       \* what app.workspace_id falls back to on a rollback
    plan, budget,       \* columns of workspaces
    spent,      \* spent[w]: sum of the costs in llm_calls for w, this month
    limits      \* history, limits[w]: every limit in force so far

requestVars == <<pc, ws, kind>>
poolVars == <<owner, scope, base>>
billVars == <<plan, budget, spent, limits>>
vars == <<requestVars, poolVars, billVars>>

effective_budget(w) == IF budget[w] # None THEN budget[w] ELSE TierBudgets[plan[w]]

Init ==
    /\ pc = [t \in Threads |-> "idle"]
    /\ ws = [t \in Threads |-> None]
    /\ kind = [t \in Threads |-> "read"]
    /\ owner = [c \in Conns |-> Absent]
    /\ scope = [c \in Conns |-> None]
    /\ base = [c \in Conns |-> None]
    /\ plan \in [Workspaces -> Plans]
    /\ budget = [w \in Workspaces |-> None]
    /\ spent = [w \in Workspaces |-> 0]
    /\ limits = [w \in Workspaces |-> {effective_budget(w)}]

-----------------------------------------------------------------------------
(* Connections.                                                            *)

Held(t) == {c \in Conns : owner[c] = t}

\* Connections a stage works with: the search of pgvector draws a second one
\* while its endpoint holds the first; a digest keeps its own during the model call.
Needs(t) ==
    CASE pc[t] = "idle" -> 0
      [] pc[t] = "search" -> 2
      [] pc[t] = "model" -> IF kind[t] = "digest" THEN 1 ELSE 0
      [] OTHER -> 1

Waits(t) == Cardinality(Held(t)) < Needs(t)

Ready(t, stage) == pc[t] = stage /\ ~Waits(t)

\* The scope the request has while it waits: none before the middleware has set it.
CurrentScope(t) == IF pc[t] = "resolve" THEN None ELSE ws[t]

\* A scope that is set but not committed: a rollback takes it away.
ScopedUncommitted(c, w) ==
    /\ scope' = [scope EXCEPT ![c] = w]
    /\ UNCHANGED base

\* _set_rls_scope: set_config, then commit.
Scoped(c, w) ==
    /\ scope' = [scope EXCEPT ![c] = w]
    /\ base' = [base EXCEPT ![c] = w]

\* get_connection.
Acquire(t) ==
    /\ Waits(t)
    /\ \E c \in Conns :
          /\ owner[c] \in {Pool, Absent}
          /\ owner' = [owner EXCEPT ![c] = t]
          /\ Scoped(c, CurrentScope(t))
    /\ UNCHANGED <<requestVars, billVars>>

\* close: each connection is cleaned and pooled, or thrown away when the cleaning fails.
Closed(S) ==
    /\ \E bad \in SUBSET S :
          owner' = [c \in Conns |-> IF c \in bad THEN Absent
                                    ELSE IF c \in S THEN Pool ELSE owner[c]]
    /\ scope' = [c \in Conns |-> IF c \in S THEN None ELSE scope[c]]
    /\ base' = [c \in Conns |-> IF c \in S THEN None ELSE base[c]]

\* An endpoint undoes its own work.
Rollback(t) ==
    /\ scope' = [c \in Conns |-> IF owner[c] = t THEN base[c] ELSE scope[c]]
    /\ UNCHANGED <<requestVars, owner, base, billVars>>

-----------------------------------------------------------------------------
(* The stages of a request.                                                *)

\* No budget is checked outside a workspace.
FirstStage(w, k) == IF k = "read" \/ w = None THEN "load" ELSE "check"

\* The middleware runs on the event loop: while it waits for a connection nobody
\* else is let in.
Arrive(t, w, k) ==
    /\ pc[t] = "idle"
    /\ \A s \in Threads : pc[s] # "resolve"
    /\ pc' = [pc EXCEPT ![t] = IF w = None THEN FirstStage(w, k) ELSE "resolve"]
    /\ ws' = [ws EXCEPT ![t] = w]
    /\ kind' = [kind EXCEPT ![t] = k]
    /\ UNCHANGED <<poolVars, billVars>>

Goes(t, stage) ==
    /\ pc' = [pc EXCEPT ![t] = stage]
    /\ UNCHANGED <<ws, kind>>

\* The request is answered, and whatever it holds is given back.
Ends(t) ==
    /\ pc' = [pc EXCEPT ![t] = "idle"]
    /\ ws' = [ws EXCEPT ![t] = None]
    /\ kind' = [kind EXCEPT ![t] = "read"]
    /\ Closed(Held(t))

Resolve(t) ==
    /\ Ready(t, "resolve")
    /\ Closed(Held(t))
    /\ Goes(t, FirstStage(ws[t], kind[t]))
    /\ UNCHANGED billVars

\* Over the limit only when above it.
is_over_budget_strict(w) == effective_budget(w) # None /\ spent[w] > effective_budget(w)

is_over_budget(w) == effective_budget(w) # None /\ spent[w] >= effective_budget(w)

enforce_budget(t) ==
    /\ Ready(t, "check")
    /\ IF is_over_budget(ws[t]) THEN Ends(t)
       ELSE Closed(Held(t)) /\ Goes(t, "load")
    /\ UNCHANGED billVars

\* Facts are read; a retrieval that is not cached then searches the vectors.
Load(t) ==
    /\ Ready(t, "load")
    /\ \/ kind[t] = "read" /\ Ends(t)
       \/ kind[t] \in {"ask", "insight"} /\ Goes(t, "search") /\ UNCHANGED poolVars
       \/ kind[t] = "insight" /\ Closed(Held(t)) /\ Goes(t, "model")
       \/ kind[t] = "digest" /\ Goes(t, "model") /\ UNCHANGED poolVars
    /\ UNCHANGED billVars

Search(t) ==
    /\ Ready(t, "search")
    /\ Closed(Held(t))
    /\ Goes(t, "model")
    /\ UNCHANGED billVars

ModelAnswers(t) ==
    /\ Ready(t, "model")
    /\ Closed(Held(t))
    /\ Goes(t, IF kind[t] = "insight" THEN "persist" ELSE "log")
    /\ UNCHANGED billVars

\* A cached answer, a 503, or facts only: nothing is logged.
ModelFails(t) ==
    /\ Ready(t, "model")
    /\ Ends(t)
    /\ UNCHANGED billVars

PersistReport(t) ==
    /\ Ready(t, "persist")
    /\ Closed(Held(t))
    /\ Goes(t, "log")
    /\ UNCHANGED billVars

log_llm_call(t) ==
    /\ Ready(t, "log")
    /\ \E cost \in 0 .. MaxCost :
          spent' = [w \in Workspaces |-> IF w = ws[t] THEN spent[w] + cost ELSE spent[w]]
    /\ Ends(t)
    /\ UNCHANGED <<plan, budget, limits>>

\* A statement or the setting of the scope fails.  log_llm_call swallows it, the
\* other stages answer 500: either way the request is over.
Fails(t) ==
    /\ pc[t] \notin {"idle", "model"}
    /\ Ends(t)
    /\ UNCHANGED billVars

\* A pool that makes a request wait for as long as it takes.
TimesOutNever(t) == FALSE

\* getconn gives up after its time-out.
TimesOut(t) == Waits(t)

PoolTimeout(t) ==
    /\ TimesOut(t)
    /\ Ends(t)
    /\ UNCHANGED billVars

Step(t) ==
    \/ Acquire(t) \/ PoolTimeout(t)
    \/ Resolve(t) \/ enforce_budget(t) \/ Load(t) \/ Search(t)
    \/ ModelAnswers(t) \/ ModelFails(t) \/ PersistReport(t) \/ log_llm_call(t)

-----------------------------------------------------------------------------
(* The limit, the calendar, and the purge of old rows.                     *)

set_workspace_limit(w, p, b) ==
    /\ plan' = [plan EXCEPT ![w] = p]
    /\ budget' = [budget EXCEPT ![w] = b]
    /\ limits' = [limits EXCEPT ![w] = @ \cup {effective_budget(w)'}]
    /\ UNCHANGED <<requestVars, poolVars, spent>>

NewMonth ==
    /\ spent' = [w \in Workspaces |-> 0]
    /\ UNCHANGED <<requestVars, poolVars, plan, budget, limits>>

\* A retention window shorter than the month takes some of the month's rows.
purge_workspace(w) ==
    /\ \E left \in 0 .. spent[w] : spent' = [spent EXCEPT ![w] = left]
    /\ UNCHANGED <<requestVars, poolVars, plan, budget, limits>>

Next ==
    \/ \E t \in Threads :
          \/ \E w \in Scopes, k \in Kinds : Arrive(t, w, k)
          \/ Step(t) \/ Fails(t) \/ Rollback(t)
    \/ \E w \in Workspaces :
          \/ purge_workspace(w)
          \/ \E p \in Plans, b \in Budgets : set_workspace_limit(w, p, b)
    \/ NewMonth

Spec == Init /\ [][Next]_vars

\* The thread of a request runs on; the pool's time-out and the model's are part of it.
FairSpec == Spec /\ \A t \in Threads : WF_vars(Step(t))

-----------------------------------------------------------------------------
(* Properties.                                                             *)

\* Type invariant of the requests, the pool and the bills.
TypeOK ==
    /\ pc \in [Threads -> {"idle", "resolve", "check", "load", "search", "model",
                           "persist", "log"}]
    /\ ws \in [Threads -> Scopes]
    /\ kind \in [Threads -> Kinds]
    /\ owner \in [Conns -> Threads \cup {Pool, Absent}]
    /\ scope \in [Conns -> Scopes] /\ base \in [Conns -> Scopes]
    /\ plan \in [Workspaces -> Plans]
    /\ budget \in [Workspaces -> Nat \cup {None}]
    /\ spent \in [Workspaces -> Nat]
    /\ limits \in [Workspaces -> SUBSET (Nat \cup {None})]

\* db.py:424 "Failure must prevent the connection from reaching application
\* queries": whatever was rolled back, closed or thrown away before, a connection
\* in use shows its request's scope, and one in the pool shows nobody's.
ScopesDoNotLeak ==
    \A c \in Conns :
        scope[c] = IF owner[c] \in Threads THEN CurrentScope(owner[c]) ELSE None

\* Requests that passed the budget check and have not logged their cost.
Admitted(w) ==
    {t \in Threads : /\ ws[t] = w
                     /\ kind[t] # "read"
                     /\ pc[t] \in {"load", "search", "model", "persist", "log"}}

\* services.py:38-39 "block LLM work when the active workspace is over its
\* monthly budget": the check and the log are far apart, so the month's spend may
\* pass the highest limit that was ever set, by less than what all threads
\* together may have in flight, and by no more.
OvershootIsInFlight ==
    \A w \in Workspaces : \E b \in limits[w] :
        b # None => spent[w] < b + MaxCost * Cardinality(Threads)

\* Handlers that hold one connection and wait for another may hold all of them;
\* the time-out of the pool sees to it that every request still ends.
EveryRequestEnds == \A t \in Threads : pc[t] # "idle" ~> pc[t] = "idle"

=============================================================================
