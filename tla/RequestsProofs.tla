--------------------------- MODULE RequestsProofs ---------------------------
(* Theorems about Requests, for any threads, connections, workspaces,      *)
(* plans and costs.                                                        *)
EXTENDS Requests, FiniteSetTheorems, TLAPS

-----------------------------------------------------------------------------
(* Type correctness.                                                       *)

Stages == {"idle", "resolve", "check", "load", "search", "model", "persist", "log"}

LEMMA InitTypeOK == Init => TypeOK
<1>1. SUFFICES ASSUME Init PROVE TypeOK
  OBVIOUS
<1>2. \A w \in Workspaces : effective_budget(w) \in Nat \cup {None}
  BY <1>1, RequestsAssumption DEF Init, effective_budget
<1>3. /\ budget \in [Workspaces -> Nat \cup {None}]
      /\ limits \in [Workspaces -> SUBSET (Nat \cup {None})]
  BY <1>1, <1>2 DEF Init
<1>4. QED
  BY <1>1, <1>3 DEF Init, TypeOK, Kinds, Scopes

\* What closing connections leaves of the pool's types.
LEMMA ClosedTypes ==
    ASSUME NEW S \in SUBSET Conns, TypeOK, Closed(S)
    PROVE  /\ owner' \in [Conns -> Threads \cup {Pool, Absent}]
           /\ scope' \in [Conns -> Scopes]
           /\ base' \in [Conns -> Scopes]
BY DEF TypeOK, Closed, Scopes

LEMMA NextTypeOK == TypeOK /\ [Next]_vars => TypeOK'
<1> SUFFICES ASSUME TypeOK, [Next]_vars PROVE TypeOK'
  OBVIOUS
<1> DEFINE RequestTypes == /\ pc \in [Threads -> Stages]
                           /\ ws \in [Threads -> Scopes]
                           /\ kind \in [Threads -> Kinds]
           PoolTypes == /\ owner \in [Conns -> Threads \cup {Pool, Absent}]
                        /\ scope \in [Conns -> Scopes]
                        /\ base \in [Conns -> Scopes]
           BillTypes == /\ plan \in [Workspaces -> Plans]
                        /\ budget \in [Workspaces -> Nat \cup {None}]
                        /\ spent \in [Workspaces -> Nat]
                        /\ limits \in [Workspaces -> SUBSET (Nat \cup {None})]
<1>0. /\ TypeOK <=> RequestTypes /\ PoolTypes /\ BillTypes
      /\ TypeOK' <=> RequestTypes' /\ PoolTypes' /\ BillTypes'
  BY DEF TypeOK, Stages
<1>1. RequestTypes /\ PoolTypes /\ BillTypes
  BY <1>0
<1>2. /\ UNCHANGED requestVars => RequestTypes'
      /\ UNCHANGED poolVars => PoolTypes'
      /\ UNCHANGED billVars => BillTypes'
  BY <1>1 DEF requestVars, poolVars, billVars
<1>3. ASSUME NEW t \in Threads, NEW stage \in Stages, Goes(t, stage)
      PROVE  RequestTypes'
  BY <1>1, <1>3 DEF Goes
<1>4. ASSUME NEW t \in Threads PROVE Held(t) \in SUBSET Conns
  BY DEF Held
<1>5. ASSUME NEW t \in Threads, Ends(t) PROVE RequestTypes' /\ PoolTypes'
  <2>1. RequestTypes'
    BY <1>1, <1>5 DEF Ends, Stages, Kinds, Scopes
  <2>2. PoolTypes'
    BY <1>4, <1>5, ClosedTypes DEF Ends
  <2>3. QED
    BY <2>1, <2>2
<1>6. ASSUME NEW t \in Threads, Closed(Held(t)) PROVE PoolTypes'
  BY <1>4, <1>6, ClosedTypes
<1>7. CASE UNCHANGED vars
  BY <1>0, <1>2, <1>7 DEF vars
<1>8. ASSUME NEW t \in Threads, NEW w \in Scopes, NEW k \in Kinds, Arrive(t, w, k)
      PROVE  TypeOK'
  <2>1. RequestTypes'
    BY <1>1, <1>8 DEF Arrive, FirstStage, Stages, Scopes
  <2>2. QED
    BY <1>0, <1>2, <1>8, <2>1 DEF Arrive
<1>9. ASSUME NEW t \in Threads, Step(t) PROVE TypeOK'
  <2>1. CASE Acquire(t)
    <3>1. CurrentScope(t) \in Scopes
      BY <1>1 DEF CurrentScope, Scopes
    <3>2. PoolTypes'
      BY <1>1, <2>1, <3>1 DEF Acquire, Scoped
    <3>3. QED
      BY <1>0, <1>2, <2>1, <3>2 DEF Acquire
  <2>2. CASE PoolTimeout(t)
    BY <1>0, <1>2, <1>5, <2>2 DEF PoolTimeout
  <2>3. CASE Resolve(t)
    <3>1. FirstStage(ws[t], kind[t]) \in Stages
      BY DEF FirstStage, Stages
    <3>2. QED
      BY <1>0, <1>2, <1>3, <1>6, <2>3, <3>1 DEF Resolve
  <2>4. CASE enforce_budget(t)
    BY <1>0, <1>2, <1>3, <1>5, <1>6, <2>4 DEF enforce_budget, Stages
  <2>5. CASE Load(t)
    BY <1>0, <1>2, <1>3, <1>5, <1>6, <2>5 DEF Load, Stages
  <2>6. CASE Search(t)
    BY <1>0, <1>2, <1>3, <1>6, <2>6 DEF Search, Stages
  <2>7. CASE ModelAnswers(t)
    <3>1. (IF kind[t] = "insight" THEN "persist" ELSE "log") \in Stages
      BY DEF Stages
    <3>2. QED
      BY <1>0, <1>2, <1>3, <1>6, <2>7, <3>1 DEF ModelAnswers
  <2>8. CASE ModelFails(t)
    BY <1>0, <1>2, <1>5, <2>8 DEF ModelFails
  <2>9. CASE PersistReport(t)
    BY <1>0, <1>2, <1>3, <1>6, <2>9 DEF PersistReport, Stages
  <2>10. CASE log_llm_call(t)
    <3>1. PICK cost \in 0 .. MaxCost :
              spent' = [w \in Workspaces |-> IF w = ws[t] THEN spent[w] + cost ELSE spent[w]]
      BY <2>10 DEF log_llm_call
    <3>2. BillTypes'
      BY <1>1, <2>10, <3>1, RequestsAssumption DEF log_llm_call
    <3>3. QED
      BY <1>0, <1>5, <2>10, <3>2 DEF log_llm_call
  <2>11. QED
    BY <1>9, <2>1, <2>2, <2>3, <2>4, <2>5, <2>6, <2>7, <2>8, <2>9, <2>10 DEF Step
<1>10. ASSUME NEW t \in Threads, Fails(t) PROVE TypeOK'
  BY <1>0, <1>2, <1>5, <1>10 DEF Fails
<1>11. ASSUME NEW t \in Threads, Rollback(t) PROVE TypeOK'
  <2>1. PoolTypes'
    BY <1>1, <1>11 DEF Rollback
  <2>2. QED
    BY <1>0, <1>2, <1>11, <2>1 DEF Rollback
<1>12. ASSUME NEW w \in Workspaces, purge_workspace(w) PROVE TypeOK'
  <2>1. PICK left \in 0 .. spent[w] : spent' = [spent EXCEPT ![w] = left]
    BY <1>12 DEF purge_workspace
  <2>2. BillTypes'
    BY <1>1, <1>12, <2>1 DEF purge_workspace
  <2>3. QED
    BY <1>0, <1>2, <1>12, <2>2 DEF purge_workspace
<1>13. ASSUME NEW w \in Workspaces, NEW p \in Plans, NEW b \in Budgets,
              set_workspace_limit(w, p, b)
       PROVE  TypeOK'
  <2>1. /\ plan' \in [Workspaces -> Plans]
        /\ budget' \in [Workspaces -> Nat \cup {None}]
    BY <1>1, <1>13, RequestsAssumption DEF set_workspace_limit
  <2>2. effective_budget(w)' \in Nat \cup {None}
    BY <2>1, RequestsAssumption DEF effective_budget
  <2>3. BillTypes'
    BY <1>1, <1>13, <2>1, <2>2 DEF set_workspace_limit
  <2>4. QED
    BY <1>0, <1>2, <1>13, <2>3 DEF set_workspace_limit
<1>14. CASE NewMonth
  <2>1. BillTypes'
    BY <1>1, <1>14 DEF NewMonth
  <2>2. QED
    BY <1>0, <1>2, <1>14, <2>1 DEF NewMonth
<1>15. QED
  BY <1>7, <1>8, <1>9, <1>10, <1>11, <1>12, <1>13, <1>14 DEF Next

\* The requests, the pool and the bills keep their types.
THEOREM TypeCorrect == Spec => []TypeOK
BY InitTypeOK, NextTypeOK, PTL DEF Spec

-----------------------------------------------------------------------------
(* Scopes.  A connection's session falls back to the scope it shows, so a  *)
(* rollback changes nothing; and an idle request holds no connection, so   *)
(* that the next one starts without the scope of the last.                 *)

ScopeInv ==
    /\ ScopesDoNotLeak
    /\ \A c \in Conns : base[c] = scope[c]
    /\ \A t \in Threads : pc[t] = "idle" => Held(t) = {}

LEMMA InitScopeInv == Init => ScopeInv
BY RequestsAssumption DEF Init, ScopeInv, ScopesDoNotLeak, Held

\* A request that waits is not idle.
LEMMA WaitingIsBusy ==
    ASSUME NEW t \in Threads, Waits(t)
    PROVE  pc[t] # "idle"
<1>1. IsFiniteSet(Held(t))
  BY RequestsAssumption, FS_Subset DEF Held
<1>2. Cardinality(Held(t)) \in Nat
  BY <1>1, FS_CardinalityType
<1>3. Needs(t) # 0
  BY <1>2 DEF Waits
<1>4. QED
  BY <1>3 DEF Needs

\* Closing all that a request holds keeps the scopes right, wherever it goes.
LEMMA ClosingKeepsScopes ==
    ASSUME TypeOK, ScopeInv, NEW t \in Threads, Closed(Held(t)),
           \A s \in Threads \ {t} : pc'[s] = pc[s] /\ ws'[s] = ws[s]
    PROVE  ScopeInv'
<1>1. PICK bad \in SUBSET Held(t) :
          owner' = [c \in Conns |-> IF c \in bad THEN Absent
                                    ELSE IF c \in Held(t) THEN Pool ELSE owner[c]]
  BY DEF Closed
<1>2. /\ scope' = [c \in Conns |-> IF c \in Held(t) THEN None ELSE scope[c]]
      /\ base' = [c \in Conns |-> IF c \in Held(t) THEN None ELSE base[c]]
  BY DEF Closed
<1>3. \A c \in Held(t) : owner'[c] \in {Pool, Absent} /\ scope'[c] = None
  BY <1>1, <1>2 DEF Held
<1>4. \A c \in Conns \ Held(t) : owner'[c] = owner[c] /\ scope'[c] = scope[c] /\ owner[c] # t
  BY <1>1, <1>2 DEF Held
<1>5. ScopesDoNotLeak'
  <2>1. SUFFICES ASSUME NEW c \in Conns
                 PROVE  scope'[c] = IF owner'[c] \in Threads
                                    THEN CurrentScope(owner[c])' ELSE None
    BY <1>3, <1>4, RequestsAssumption DEF ScopesDoNotLeak, CurrentScope, Held
  <2>2. CASE c \in Held(t)
    BY <1>3, <2>2, RequestsAssumption
  <2>3. CASE c \notin Held(t)
    BY <1>4, <2>3 DEF ScopeInv, ScopesDoNotLeak, CurrentScope
  <2>4. QED
    BY <2>2, <2>3
<1>6. \A c \in Conns : base'[c] = scope'[c]
  BY <1>2 DEF ScopeInv
<1>7. \A s \in Threads : pc'[s] = "idle" => Held(s)' = {}
  <2>1. Held(t)' = {}
    BY <1>3, <1>4, RequestsAssumption DEF Held
  <2>2. \A s \in Threads \ {t} : Held(s)' \subseteq Held(s)
    BY <1>3, <1>4, RequestsAssumption DEF Held
  <2>3. QED
    BY <2>1, <2>2 DEF ScopeInv
<1>8. QED
  BY <1>5, <1>6, <1>7 DEF ScopeInv

\* So does a request that keeps its connections, its scope, and on going.
LEMMA KeepingKeepsScopes ==
    ASSUME ScopeInv, UNCHANGED poolVars,
           \A s \in Threads : CurrentScope(s)' = CurrentScope(s) \/ Held(s) = {},
           \A s \in Threads : pc'[s] = "idle" => pc[s] = "idle"
    PROVE  ScopeInv'
<1>1. \A s \in Threads : Held(s)' = Held(s)
  BY DEF Held, poolVars
<1>2. ScopesDoNotLeak'
  BY DEF ScopeInv, ScopesDoNotLeak, Held, poolVars, CurrentScope
<1>3. QED
  BY <1>1, <1>2 DEF ScopeInv, poolVars

LEMMA NextScopeInv == TypeOK /\ ScopeInv /\ [Next]_vars => ScopeInv'
<1> SUFFICES ASSUME TypeOK, ScopeInv, [Next]_vars PROVE ScopeInv'
  OBVIOUS
<1>1. ASSUME UNCHANGED <<requestVars, poolVars>> PROVE ScopeInv'
  BY <1>1, KeepingKeepsScopes DEF requestVars, CurrentScope
<1>2. ASSUME NEW t \in Threads, NEW stage \in Stages, Goes(t, stage), Closed(Held(t))
      PROVE  ScopeInv'
  BY <1>2, ClosingKeepsScopes DEF Goes, TypeOK
<1>3. ASSUME NEW t \in Threads, NEW stage \in Stages, Goes(t, stage), UNCHANGED poolVars,
             pc[t] # "resolve", stage \notin {"idle", "resolve"}
      PROVE  ScopeInv'
  <2>1. \A s \in Threads : CurrentScope(s)' = CurrentScope(s)
    BY <1>3 DEF Goes, CurrentScope, TypeOK
  <2>2. \A s \in Threads : pc'[s] = "idle" => pc[s] = "idle"
    BY <1>3 DEF Goes, TypeOK
  <2>3. QED
    BY <1>3, <2>1, <2>2, KeepingKeepsScopes
<1>4. ASSUME NEW t \in Threads, Ends(t) PROVE ScopeInv'
  BY <1>4, ClosingKeepsScopes DEF Ends, TypeOK
<1>5. ASSUME NEW t \in Threads, NEW w \in Scopes, NEW k \in Kinds, Arrive(t, w, k)
      PROVE  ScopeInv'
  <2>1. Held(t) = {}
    BY <1>5 DEF Arrive, ScopeInv
  <2>2. \A s \in Threads : CurrentScope(s)' = CurrentScope(s) \/ Held(s) = {}
    BY <1>5, <2>1 DEF Arrive, CurrentScope, TypeOK
  <2>3. \A s \in Threads : pc'[s] = "idle" => pc[s] = "idle"
    BY <1>5 DEF Arrive, TypeOK
  <2>4. QED
    BY <1>5, <2>2, <2>3, KeepingKeepsScopes DEF Arrive
<1>6. ASSUME NEW t \in Threads, Acquire(t) PROVE ScopeInv'
  <2>1. PICK c \in Conns : /\ owner[c] \in {Pool, Absent}
                           /\ owner' = [owner EXCEPT ![c] = t]
                           /\ Scoped(c, CurrentScope(t))
    BY <1>6 DEF Acquire
  <2>2. pc[t] # "idle"
    BY <1>6, WaitingIsBusy DEF Acquire
  <2>3. \A s \in Threads : CurrentScope(s)' = CurrentScope(s)
    BY <1>6 DEF Acquire, requestVars, CurrentScope
  <2>4. \A d \in Conns : /\ owner'[d] = IF d = c THEN t ELSE owner[d]
                         /\ scope'[d] = IF d = c THEN CurrentScope(t) ELSE scope[d]
                         /\ base'[d] = IF d = c THEN CurrentScope(t) ELSE base[d]
    BY <2>1 DEF Scoped, TypeOK
  <2>5. ScopesDoNotLeak'
    BY <1>6, <2>4 DEF ScopeInv, ScopesDoNotLeak, Acquire, requestVars, CurrentScope
  <2>6. \A s \in Threads \ {t} : Held(s)' = Held(s)
    BY <2>1, <2>4, RequestsAssumption DEF Held
  <2>7. \A s \in Threads : pc'[s] = "idle" => Held(s)' = {}
    BY <1>6, <2>2, <2>6 DEF ScopeInv, Acquire, requestVars
  <2>8. QED
    BY <2>4, <2>5, <2>7 DEF ScopeInv
<1>7. ASSUME NEW t \in Threads, Rollback(t) PROVE ScopeInv'
  <2>1. scope' = [c \in Conns |-> scope[c]]
    BY <1>7 DEF Rollback, ScopeInv
  <2>2. scope' = scope
    BY <2>1 DEF TypeOK
  <2>3. QED
    BY <1>1, <1>7, <2>2 DEF Rollback, poolVars
<1>8. ASSUME NEW t \in Threads, Step(t) PROVE ScopeInv'
  <2>1. CASE PoolTimeout(t) \/ ModelFails(t) \/ log_llm_call(t)
    BY <1>4, <2>1 DEF PoolTimeout, ModelFails, log_llm_call
  <2>2. CASE Resolve(t)
    <3>1. FirstStage(ws[t], kind[t]) \in Stages
      BY DEF FirstStage, Stages
    <3>2. QED
      BY <1>2, <2>2, <3>1 DEF Resolve
  <2>3. CASE enforce_budget(t)
    BY <1>2, <1>4, <2>3 DEF enforce_budget, Stages
  <2>4. CASE Load(t)
    BY <1>2, <1>3, <1>4, <2>4 DEF Load, Ready, Stages
  <2>5. CASE Search(t) \/ PersistReport(t)
    BY <1>2, <2>5 DEF Search, PersistReport, Stages
  <2>6. CASE ModelAnswers(t)
    <3>1. (IF kind[t] = "insight" THEN "persist" ELSE "log") \in Stages
      BY DEF Stages
    <3>2. QED
      BY <1>2, <2>6, <3>1 DEF ModelAnswers
  <2>7. QED
    BY <1>6, <1>8, <2>1, <2>2, <2>3, <2>4, <2>5, <2>6 DEF Step
<1>9. ASSUME NEW t \in Threads, Fails(t) PROVE ScopeInv'
  BY <1>4, <1>9 DEF Fails
<1>10. ASSUME \/ \E w \in Workspaces :
                    \/ purge_workspace(w)
                    \/ \E p \in Plans, b \in Budgets : set_workspace_limit(w, p, b)
              \/ NewMonth
       PROVE  ScopeInv'
  BY <1>1, <1>10 DEF purge_workspace, set_workspace_limit, NewMonth
<1>11. CASE UNCHANGED vars
  BY <1>1, <1>11 DEF vars
<1>12. QED
  BY <1>5, <1>7, <1>8, <1>9, <1>10, <1>11 DEF Next

\* A connection in use shows the scope of the request that holds it, one in the
\* pool nobody's, whatever fails, waits, rolls back or is thrown away.
THEOREM ScopesNeverLeak == Spec => []ScopesDoNotLeak
<1>1. Spec => []ScopeInv
  BY InitScopeInv, NextScopeInv, TypeCorrect, PTL DEF Spec
<1>2. ScopeInv => ScopesDoNotLeak
  BY DEF ScopeInv
<1>3. QED
  BY <1>1, <1>2, PTL

-----------------------------------------------------------------------------
(* Spending.  Every admitted request has its largest cost set aside: the   *)
(* spend and what is set aside stay below a limit once in force and one    *)
(* largest cost for each thread.                                           *)

Reserve == MaxCost * Cardinality(Threads)

SetAside(w) == MaxCost * Cardinality(Admitted(w))

Bounded(w) ==
    \E b \in limits[w] : b # None => spent[w] + SetAside(w) < b + Reserve

SpendInv ==
    \A w \in Workspaces : effective_budget(w) \in limits[w] /\ Bounded(w)

LEMMA Times == \A k \in Nat, m, n \in Nat : m <= n => k * m \in Nat /\ k * n \in Nat /\ k * m <= k * n
OBVIOUS

LEMMA TimesLess == \A k, n \in Nat : n # 0 => k * (n - 1) = k * n - k
OBVIOUS

LEMMA ReserveIsPositive == Reserve \in Nat \ {0}
<1>1. Cardinality(Threads) \in Nat \ {0}
  BY RequestsAssumption, FS_CardinalityType, FS_EmptySet
<1>2. \A k, n \in Nat \ {0} : k * n \in Nat \ {0}
  OBVIOUS
<1>3. QED
  BY <1>1, <1>2, RequestsAssumption DEF Reserve

\* What is set aside is an amount, at most the reserve.
LEMMA SetAsideType ==
    ASSUME NEW w \in Workspaces
    PROVE  /\ IsFiniteSet(Admitted(w)) /\ Cardinality(Admitted(w)) \in Nat
           /\ SetAside(w) \in Nat /\ SetAside(w) <= Reserve
<1>1. /\ IsFiniteSet(Admitted(w))
      /\ Cardinality(Admitted(w)) <= Cardinality(Threads)
  BY RequestsAssumption, FS_Subset DEF Admitted
<1>2. /\ Cardinality(Admitted(w)) \in Nat
      /\ Cardinality(Threads) \in Nat
  BY <1>1, RequestsAssumption, FS_CardinalityType
<1>3. QED
  BY <1>1, <1>2, Times, RequestsAssumption DEF SetAside, Reserve

\* The fewer are admitted, the less is set aside.
LEMMA SetAsideFalls ==
    ASSUME NEW w \in Workspaces, Admitted(w)' \subseteq Admitted(w)
    PROVE  SetAside(w)' \in Nat /\ SetAside(w)' <= SetAside(w)
<1>1. /\ IsFiniteSet(Admitted(w)')
      /\ Cardinality(Admitted(w)') <= Cardinality(Admitted(w))
  BY SetAsideType, FS_Subset
<1>2. Cardinality(Admitted(w)') \in Nat /\ Cardinality(Admitted(w)) \in Nat
  BY <1>1, SetAsideType, FS_CardinalityType
<1>3. QED
  BY <1>1, <1>2, Times, RequestsAssumption DEF SetAside

LEMMA InitSpendInv == Init => SpendInv
<1>1. SUFFICES ASSUME Init, NEW w \in Workspaces
               PROVE  effective_budget(w) \in limits[w] /\ Bounded(w)
  BY DEF SpendInv
<1>2. effective_budget(w) \in limits[w] /\ effective_budget(w) \in Nat \cup {None}
  BY <1>1, RequestsAssumption DEF Init, effective_budget
<1>3. Admitted(w) = {}
  BY <1>1 DEF Init, Admitted
<1>4. SetAside(w) = 0
  BY <1>3, FS_EmptySet, RequestsAssumption DEF SetAside
<1>5. spent[w] = 0
  BY <1>1 DEF Init
<1>6. Bounded(w)
  BY <1>2, <1>4, <1>5, ReserveIsPositive DEF Bounded
<1>7. QED
  BY <1>2, <1>6

\* No limit is forgotten, nobody is admitted, nothing is spent.
LEMMA QuietKeepsSpend ==
    ASSUME TypeOK, SpendInv, TypeOK',
           \A w \in Workspaces : /\ limits[w] \subseteq limits'[w]
                                 /\ effective_budget(w)' \in limits'[w]
                                 /\ spent'[w] <= spent[w]
                                 /\ Admitted(w)' \subseteq Admitted(w)
    PROVE  SpendInv'
<1>1. SUFFICES ASSUME NEW w \in Workspaces
               PROVE  effective_budget(w)' \in limits'[w] /\ Bounded(w)'
  BY DEF SpendInv
<1>2. PICK b \in limits[w] : b # None => spent[w] + SetAside(w) < b + Reserve
  BY DEF SpendInv, Bounded
<1>3. /\ b \in limits'[w] /\ b \in Nat \cup {None}
      /\ spent[w] \in Nat /\ spent'[w] \in Nat /\ spent'[w] <= spent[w]
  BY DEF TypeOK
<1>4. SetAside(w)' \in Nat /\ SetAside(w) \in Nat /\ SetAside(w)' <= SetAside(w)
  BY SetAsideFalls, SetAsideType
<1>5. b # None => spent'[w] + SetAside(w)' < b + Reserve
  BY <1>2, <1>3, <1>4, ReserveIsPositive
<1>6. Bounded(w)'
  BY <1>3, <1>5 DEF Bounded, Reserve
<1>7. QED
  BY <1>6

\* A request is let past the check while its workspace is below its limit.
LEMMA AdmittingKeepsSpend ==
    ASSUME TypeOK, SpendInv, TypeOK', NEW t \in Threads,
           ~is_over_budget(ws[t]), UNCHANGED billVars,
           \A w \in Workspaces \ {ws[t]} : Admitted(w)' \subseteq Admitted(w)
    PROVE  SpendInv'
<1>1. SUFFICES ASSUME NEW w \in Workspaces
               PROVE  effective_budget(w)' \in limits'[w] /\ Bounded(w)'
  BY DEF SpendInv
<1>2. /\ effective_budget(w)' = effective_budget(w)
      /\ limits' = limits /\ spent' = spent
  BY DEF billVars, effective_budget
<1>3. effective_budget(w) \in limits[w]
  BY DEF SpendInv
<1>4. spent[w] \in Nat /\ \A b \in limits[w] : b \in Nat \cup {None}
  BY DEF TypeOK
<1>5. CASE w = ws[t]
  <2>1. SetAside(w)' \in Nat /\ SetAside(w)' <= Reserve
    <3>1. /\ IsFiniteSet(Admitted(w)')
          /\ Cardinality(Admitted(w)') <= Cardinality(Threads)
      BY RequestsAssumption, FS_Subset DEF Admitted
    <3>2. /\ Cardinality(Admitted(w)') \in Nat
          /\ Cardinality(Threads) \in Nat
      BY <3>1, RequestsAssumption, FS_CardinalityType
    <3>3. QED
      BY <3>1, <3>2, Times, RequestsAssumption DEF SetAside, Reserve
  <2>2. effective_budget(w) # None => spent[w] < effective_budget(w)
    BY <1>3, <1>4, <1>5, RequestsAssumption DEF is_over_budget
  <2>3. effective_budget(w) # None
            => spent[w] + SetAside(w)' < effective_budget(w) + Reserve
    BY <1>3, <1>4, <2>1, <2>2, ReserveIsPositive
  <2>4. Bounded(w)'
    BY <1>2, <1>3, <2>3 DEF Bounded, Reserve
  <2>5. QED
    BY <1>2, <1>3, <2>4
<1>6. CASE w # ws[t]
  <2>1. PICK b \in limits[w] : b # None => spent[w] + SetAside(w) < b + Reserve
    BY DEF SpendInv, Bounded
  <2>2. SetAside(w)' \in Nat /\ SetAside(w) \in Nat /\ SetAside(w)' <= SetAside(w)
    BY <1>6, SetAsideFalls, SetAsideType
  <2>3. b # None => spent[w] + SetAside(w)' < b + Reserve
    BY <1>4, <2>1, <2>2, ReserveIsPositive
  <2>4. Bounded(w)'
    BY <1>2, <2>3 DEF Bounded, Reserve
  <2>5. QED
    BY <1>2, <1>3, <2>4
<1>7. QED
  BY <1>5, <1>6

\* A request that ends leaves the admitted.
LEMMA EndingLeaves ==
    ASSUME TypeOK, NEW t \in Threads, Ends(t), NEW w \in Workspaces
    PROVE  Admitted(w)' = Admitted(w) \ {t}
BY DEF TypeOK, Ends, Admitted

\* What a request logs was set aside for it.
LEMMA LoggingKeepsSpend ==
    ASSUME TypeOK, SpendInv, TypeOK', NEW t \in Threads, log_llm_call(t), kind[t] # "read"
    PROVE  SpendInv'
<1>1. PICK cost \in 0 .. MaxCost :
          spent' = [w \in Workspaces |-> IF w = ws[t] THEN spent[w] + cost ELSE spent[w]]
  BY DEF log_llm_call
<1>2. SUFFICES ASSUME NEW w \in Workspaces
               PROVE  effective_budget(w)' \in limits'[w] /\ Bounded(w)'
  BY DEF SpendInv
<1>3. /\ effective_budget(w)' = effective_budget(w) /\ limits' = limits
      /\ effective_budget(w) \in limits[w]
  BY DEF log_llm_call, effective_budget, SpendInv
<1>4. PICK b \in limits[w] : b # None => spent[w] + SetAside(w) < b + Reserve
  BY DEF SpendInv, Bounded
<1>5. /\ spent[w] \in Nat /\ b \in Nat \cup {None}
      /\ SetAside(w) \in Nat /\ MaxCost \in Nat /\ cost \in Nat /\ cost <= MaxCost
  BY SetAsideType, RequestsAssumption DEF TypeOK
<1>6. Admitted(w)' = Admitted(w) \ {t}
  BY EndingLeaves DEF log_llm_call
<1>7. SetAside(w)' \in Nat /\ spent'[w] + SetAside(w)' <= spent[w] + SetAside(w)
  <2>1. CASE w = ws[t]
    <3>1. t \in Admitted(w)
      BY <2>1 DEF log_llm_call, Ready, Admitted
    <3>2. /\ Cardinality(Admitted(w)) \in Nat \ {0}
          /\ Cardinality(Admitted(w)') = Cardinality(Admitted(w)) - 1
      BY <1>6, <3>1, SetAsideType, FS_RemoveElement, FS_EmptySet
    <3>3. SetAside(w)' = SetAside(w) - MaxCost
      BY <3>2, TimesLess, <1>5 DEF SetAside
    <3>4. SetAside(w)' \in Nat
      BY <1>6, SetAsideFalls
    <3>5. spent'[w] = spent[w] + cost
      BY <1>1, <2>1
    <3>6. QED
      BY <1>5, <3>3, <3>4, <3>5
  <2>2. CASE w # ws[t]
    <3>1. spent'[w] = spent[w]
      BY <1>1, <2>2
    <3>2. SetAside(w)' \in Nat /\ SetAside(w)' <= SetAside(w)
      BY <1>6, SetAsideFalls
    <3>3. QED
      BY <1>5, <3>1, <3>2
  <2>3. QED
    BY <2>1, <2>2
<1>8. spent'[w] \in Nat
  BY DEF TypeOK
<1>9. b # None => spent'[w] + SetAside(w)' < b + Reserve
  BY <1>4, <1>5, <1>7, <1>8, ReserveIsPositive
<1>10. Bounded(w)'
  BY <1>3, <1>9 DEF Bounded, Reserve
<1>11. QED
  BY <1>3, <1>10

\* Only a request that calls the model gets to its stages.
KindInv ==
    \A t \in Threads :
        pc[t] \in {"check", "search", "model", "persist", "log"} => kind[t] # "read"

LEMMA InitKindInv == Init => KindInv
BY DEF Init, KindInv

LEMMA NextKindInv == TypeOK /\ KindInv /\ [Next]_vars => KindInv'
<1> SUFFICES ASSUME TypeOK, KindInv, [Next]_vars PROVE KindInv'
  OBVIOUS
<1>1. ASSUME UNCHANGED requestVars PROVE KindInv'
  BY <1>1 DEF requestVars, KindInv
<1>2. ASSUME NEW t \in Threads, NEW stage \in Stages, Goes(t, stage),
             kind[t] # "read" \/ stage = "load"
      PROVE  KindInv'
  BY <1>2 DEF Goes, KindInv, TypeOK
<1>3. ASSUME NEW t \in Threads, Ends(t) PROVE KindInv'
  BY <1>3 DEF Ends, KindInv, TypeOK
<1>4. ASSUME NEW t \in Threads, NEW w \in Scopes, NEW k \in Kinds, Arrive(t, w, k)
      PROVE  KindInv'
  BY <1>4 DEF Arrive, FirstStage, KindInv, TypeOK
<1>5. ASSUME NEW t \in Threads, Step(t) PROVE KindInv'
  <2>1. CASE Acquire(t)
    BY <1>1, <2>1 DEF Acquire
  <2>2. CASE PoolTimeout(t) \/ ModelFails(t) \/ log_llm_call(t)
    BY <1>3, <2>2 DEF PoolTimeout, ModelFails, log_llm_call
  <2>3. CASE Resolve(t)
    BY <1>2, <2>3 DEF Resolve, FirstStage, Stages
  <2>4. CASE enforce_budget(t)
    BY <1>2, <1>3, <2>4 DEF enforce_budget, Stages
  <2>5. CASE Load(t)
    BY <1>2, <1>3, <2>5 DEF Load, Stages
  <2>6. CASE Search(t) \/ PersistReport(t)
    BY <1>2, <2>6 DEF Search, PersistReport, Ready, KindInv, Stages
  <2>7. CASE ModelAnswers(t)
    <3>1. (IF kind[t] = "insight" THEN "persist" ELSE "log") \in Stages
      BY DEF Stages
    <3>2. kind[t] # "read"
      BY <2>7 DEF ModelAnswers, Ready, KindInv
    <3>3. QED
      BY <1>2, <2>7, <3>1, <3>2 DEF ModelAnswers
  <2>8. QED
    BY <1>5, <2>1, <2>2, <2>3, <2>4, <2>5, <2>6, <2>7 DEF Step
<1>6. ASSUME NEW t \in Threads, Fails(t) \/ Rollback(t) PROVE KindInv'
  BY <1>1, <1>3, <1>6 DEF Fails, Rollback
<1>7. ASSUME \/ \E w \in Workspaces :
                   \/ purge_workspace(w)
                   \/ \E p \in Plans, b \in Budgets : set_workspace_limit(w, p, b)
             \/ NewMonth
      PROVE  KindInv'
  BY <1>1, <1>7 DEF purge_workspace, set_workspace_limit, NewMonth
<1>8. CASE UNCHANGED vars
  BY <1>1, <1>8 DEF vars
<1>9. QED
  BY <1>4, <1>5, <1>6, <1>7, <1>8 DEF Next

LEMMA NextSpendInv == TypeOK /\ KindInv /\ SpendInv /\ [Next]_vars => SpendInv'
<1> SUFFICES ASSUME TypeOK, KindInv, SpendInv, [Next]_vars PROVE SpendInv'
  OBVIOUS
<1>0. TypeOK'
  BY NextTypeOK
<1>1. ASSUME UNCHANGED billVars, \A w \in Workspaces : Admitted(w)' \subseteq Admitted(w)
      PROVE  SpendInv'
  <2>1. \A w \in Workspaces : /\ limits[w] \subseteq limits'[w]
                              /\ effective_budget(w)' \in limits'[w]
                              /\ spent'[w] <= spent[w]
    BY <1>1 DEF billVars, effective_budget, SpendInv, TypeOK
  <2>2. QED
    BY <1>0, <1>1, <2>1, QuietKeepsSpend
<1>2. ASSUME UNCHANGED requestVars PROVE \A w \in Workspaces : Admitted(w)' = Admitted(w)
  BY <1>2 DEF requestVars, Admitted
<1>3. ASSUME NEW t \in Threads, Ends(t) PROVE \A w \in Workspaces : Admitted(w)' \subseteq Admitted(w)
  BY <1>3, EndingLeaves
<1>4. ASSUME NEW t \in Threads, NEW stage \in Stages, Goes(t, stage),
             \/ pc[t] \in {"load", "search", "model", "persist"}
             \/ stage = "check"
             \/ kind[t] = "read"
             \/ ws[t] \notin Workspaces
      PROVE  \A w \in Workspaces : Admitted(w)' \subseteq Admitted(w)
  BY <1>4 DEF Goes, Admitted, TypeOK
<1>5. ASSUME NEW t \in Threads, NEW w \in Scopes, NEW k \in Kinds, Arrive(t, w, k)
      PROVE  SpendInv'
  <2>1. \A v \in Workspaces : Admitted(v)' \subseteq Admitted(v)
    BY <1>5, RequestsAssumption DEF Arrive, Admitted, TypeOK
  <2>2. QED
    BY <1>1, <1>5, <2>1 DEF Arrive
<1>6. ASSUME NEW t \in Threads, Step(t) PROVE SpendInv'
  <2>1. CASE Acquire(t)
    BY <1>1, <1>2, <2>1 DEF Acquire
  <2>2. CASE PoolTimeout(t) \/ ModelFails(t)
    BY <1>1, <1>3, <2>2 DEF PoolTimeout, ModelFails
  <2>3. CASE Resolve(t)
    BY <1>1, <1>4, <2>3, RequestsAssumption DEF Resolve, FirstStage, Stages
  <2>4. CASE enforce_budget(t)
    <3>1. CASE is_over_budget(ws[t])
      BY <1>1, <1>3, <2>4, <3>1 DEF enforce_budget
    <3>2. CASE ~is_over_budget(ws[t])
      <4>1. \A w \in Workspaces \ {ws[t]} : Admitted(w)' \subseteq Admitted(w)
        BY <2>4, <3>2 DEF enforce_budget, Goes, Admitted, TypeOK
      <4>2. UNCHANGED billVars
        BY <2>4 DEF enforce_budget
      <4>3. QED
        BY <1>0, <3>2, <4>1, <4>2, AdmittingKeepsSpend
    <3>3. QED
      BY <3>1, <3>2
  <2>5. CASE Load(t)
    BY <1>1, <1>3, <1>4, <2>5 DEF Load, Ready, Stages
  <2>6. CASE Search(t) \/ PersistReport(t)
    BY <1>1, <1>4, <2>6 DEF Search, PersistReport, Ready, Stages
  <2>7. CASE ModelAnswers(t)
    <3>1. (IF kind[t] = "insight" THEN "persist" ELSE "log") \in Stages
      BY DEF Stages
    <3>2. QED
      BY <1>1, <1>4, <2>7, <3>1 DEF ModelAnswers, Ready
  <2>8. CASE log_llm_call(t)
    <3>1. kind[t] # "read"
      BY <2>8 DEF log_llm_call, Ready, KindInv
    <3>2. QED
      BY <1>0, <2>8, <3>1, LoggingKeepsSpend
  <2>9. QED
    BY <1>6, <2>1, <2>2, <2>3, <2>4, <2>5, <2>6, <2>7, <2>8 DEF Step
<1>7. ASSUME NEW t \in Threads, Fails(t) PROVE SpendInv'
  BY <1>1, <1>3, <1>7 DEF Fails
<1>8. ASSUME NEW t \in Threads, Rollback(t) PROVE SpendInv'
  BY <1>1, <1>2, <1>8 DEF Rollback
<1>9. ASSUME NEW w \in Workspaces, purge_workspace(w) PROVE SpendInv'
  <2>1. PICK left \in 0 .. spent[w] : spent' = [spent EXCEPT ![w] = left]
    BY <1>9 DEF purge_workspace
  <2>2. \A v \in Workspaces : /\ limits[v] \subseteq limits'[v]
                              /\ effective_budget(v)' \in limits'[v]
                              /\ spent'[v] <= spent[v]
    BY <1>9, <2>1 DEF purge_workspace, effective_budget, SpendInv, TypeOK
  <2>3. \A v \in Workspaces : Admitted(v)' \subseteq Admitted(v)
    BY <1>2, <1>9 DEF purge_workspace
  <2>4. QED
    BY <1>0, <2>2, <2>3, QuietKeepsSpend
<1>10. ASSUME NEW w \in Workspaces, NEW p \in Plans, NEW b \in Budgets,
              set_workspace_limit(w, p, b)
       PROVE  SpendInv'
  <2>1. \A v \in Workspaces \ {w} : effective_budget(v)' = effective_budget(v)
    BY <1>10 DEF set_workspace_limit, effective_budget, TypeOK
  <2>2. \A v \in Workspaces : limits'[v] = IF v = w THEN limits[v] \cup {effective_budget(w)'}
                                          ELSE limits[v]
    BY <1>10 DEF set_workspace_limit, TypeOK
  <2>3. \A v \in Workspaces : /\ limits[v] \subseteq limits'[v]
                              /\ effective_budget(v)' \in limits'[v]
    BY <2>1, <2>2 DEF SpendInv
  <2>4. \A v \in Workspaces : spent'[v] <= spent[v]
    BY <1>10 DEF set_workspace_limit, TypeOK
  <2>5. \A v \in Workspaces : Admitted(v)' \subseteq Admitted(v)
    BY <1>2, <1>10 DEF set_workspace_limit
  <2>6. QED
    BY <1>0, <2>3, <2>4, <2>5, QuietKeepsSpend
<1>11. CASE NewMonth
  <2>1. \A v \in Workspaces : /\ limits[v] \subseteq limits'[v]
                              /\ effective_budget(v)' \in limits'[v]
                              /\ spent'[v] <= spent[v]
    BY <1>11 DEF NewMonth, effective_budget, SpendInv, TypeOK
  <2>2. \A v \in Workspaces : Admitted(v)' \subseteq Admitted(v)
    BY <1>2, <1>11 DEF NewMonth
  <2>3. QED
    BY <1>0, <2>1, <2>2, QuietKeepsSpend
<1>12. CASE UNCHANGED vars
  BY <1>1, <1>2, <1>12 DEF vars
<1>13. QED
  BY <1>5, <1>6, <1>7, <1>8, <1>9, <1>10, <1>11, <1>12 DEF Next

\* The month's spend passes a limit that was in force by less than one largest
\* cost for each thread, however checks and logs interleave, whatever is purged.
THEOREM OvershootIsBounded == Spec => []OvershootIsInFlight
<1>1. Spec => []SpendInv
  BY InitSpendInv, NextSpendInv, InitKindInv, NextKindInv, TypeCorrect, PTL DEF Spec
<1>2. TypeOK /\ SpendInv => OvershootIsInFlight
  <2>1. SUFFICES ASSUME TypeOK, SpendInv, NEW w \in Workspaces
                 PROVE  \E b \in limits[w] :
                            b # None => spent[w] < b + MaxCost * Cardinality(Threads)
    BY DEF OvershootIsInFlight
  <2>2. PICK b \in limits[w] : b # None => spent[w] + SetAside(w) < b + Reserve
    BY <2>1 DEF SpendInv, Bounded
  <2>3. /\ b \in Nat \cup {None} /\ spent[w] \in Nat
        /\ SetAside(w) \in Nat /\ Reserve \in Nat
    BY <2>1, SetAsideType, ReserveIsPositive DEF TypeOK
  <2>4. b # None => spent[w] < b + Reserve
    BY <2>2, <2>3
  <2>5. QED
    BY <2>4 DEF Reserve
<1>3. QED
  BY <1>1, <1>2, TypeCorrect, PTL

=============================================================================
