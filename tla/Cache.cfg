\* Redis calls fail, one writer never bumps, data changes while the model writes.
\* Every request runs once, then only the clock is left.
SPECIFICATION Spec
CONSTANTS
    p1 = p1
    p2 = p2
    r1 = r1
    r2 = r2
    w1 = w1
    w2 = w2
    w3 = w3
    None = None
    Procs = {p1, p2}
    Readers = {r1, r2}
    Writers = {w1, w2, w3}
    Silent = {w3}
    Home <- MCHome
    NS_MEMO_SECONDS = 1
    MaxTime = 3
    RedisFails = TRUE
INVARIANTS CurrentNamespaceIsFresh
PROPERTIES StaleOnlyBriefly
CHECK_DEADLOCK FALSE
