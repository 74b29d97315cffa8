\* Two requests at a time on a pool of two connections.
SPECIFICATION FairSpec
CONSTANTS
    Threads = {t1, t2}
    Conns = {c1, c2}
    Workspaces = {w1}
    Plans = {free}
    TierBudgets <- MCTierBudgets
    Budgets <- MCBudgets
    MaxCost = 1
    Pool = Pool
    Absent = Absent
    None = None
INVARIANTS ScopesDoNotLeak OvershootIsInFlight
PROPERTIES EveryRequestEnds
