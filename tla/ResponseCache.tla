--------------------------- MODULE ResponseCache ----------------------------
(***************************************************************************)
(* The response cache in front of the model (app/cache.py) as the digest   *)
(* and retrieval endpoints use it (app/main.py), for one cache key whose   *)
(* text does not hash the data it was computed from.                       *)
(*                                                                         *)
(* Entries live in namespaces.  A change of the data commits and then      *)
(* bumps the namespace counter, which orphans every entry.  With Redis the *)
(* counter is shared by the processes of the app and each of them          *)
(* remembers it for some seconds.  The in-process cache is the case of a   *)
(* single process: its bumps always refresh what it remembers.  A Redis    *)
(* round trip takes no time on the scale of that memo.  Every request runs *)
(* once.                                                                   *)
(***************************************************************************)
EXTENDS Naturals, FiniteSets

CONSTANTS
    Procs,            \* processes of the app
    Readers,          \* requests that want the cached answer
    Writers,          \* requests and jobs that change the data
    Silent,           \* the writers that never bump: connector syncs
    Home,             \* Home[x]: the process that serves request x
    NS_MEMO_SECONDS,  \* how long a process remembers the counter
    MaxTime,          \* bound: the clock stops here
    RedisFails,       \* TRUE: a call to Redis may fail
    None

ASSUME CacheAssumption ==
    /\ Silent \subseteq Writers
    /\ IsFiniteSet(Writers)
    /\ Readers \cap Writers = {}
    /\ Home \in [Readers \cup Writers -> Procs]
    /\ NS_MEMO_SECONDS \in Nat /\ MaxTime \in Nat
    /\ RedisFails \in BOOLEAN
    /\ None \notin Nat

Changes == 0 .. Cardinality(Writers)  \* data versions, and namespaces

VARIABLES
    clock,
    data,       \* version of the committed data
    changedAt,  \* history, changedAt[v]: time of the first bump after version v
    ns,         \* the namespace counter in Redis
    memo,       \* memo[p]: the counter as p remembers it, or None
    fetched,    \* fetched[p]: when p last learned it
    store,      \* store[n]: version cached in namespace n, or None
    late,       \* history: namespaces whose answer was outdated when it was stored
    rpc,        \* where a reader is
    got,        \* version of the data its answer is made of
    wpc,        \* where a writer is
    made        \* version a writer committed

redis == <<ns, store, late>>
vars == <<clock, data, changedAt, redis, memo, fetched, rpc, got, wpc, made>>

Init ==
    /\ clock = 0 /\ data = 0 /\ ns = 0
    /\ changedAt = [v \in Changes |-> None]
    /\ memo = [p \in Procs |-> None]
    /\ fetched = [p \in Procs |-> 0]
    /\ store = [n \in Changes |-> None]
    /\ late = {}
    /\ rpc = [r \in Readers |-> "idle"]
    /\ got = [r \in Readers |-> 0]
    /\ wpc = [w \in Writers |-> "idle"]
    /\ made = [w \in Writers |-> 0]

TimePasses ==
    /\ clock < MaxTime
    /\ clock' = clock + 1
    /\ UNCHANGED <<data, changedAt, redis, memo, fetched, rpc, got, wpc, made>>

\* An entry reaches its time to live.
Expire(n) ==
    /\ store[n] # None
    /\ store' = [store EXCEPT ![n] = None]
    /\ late' = late \ {n}
    /\ UNCHANGED <<clock, data, changedAt, ns, memo, fetched, rpc, got, wpc,
                   made>>

-----------------------------------------------------------------------------
(* RedisCache.                                                             *)

\* A memo that is never refreshed.
MemoIsForever(p) == memo[p] # None

MemoIsGood(p) ==
    memo[p] # None /\ clock - fetched[p] <= NS_MEMO_SECONDS

CurrentNs(p) == IF MemoIsGood(p) THEN memo[p] ELSE ns

\* _ns() of process p has been called.
Remember(p) ==
    /\ memo' = [memo EXCEPT ![p] = CurrentNs(p)]
    /\ fetched' = [fetched EXCEPT ![p] = IF MemoIsGood(p) THEN @ ELSE clock]

-----------------------------------------------------------------------------
(* A request for the cached answer.                                        *)

Hit(r) ==
    /\ rpc[r] = "idle"
    /\ store[CurrentNs(Home[r])] # None
    /\ Remember(Home[r])
    /\ rpc' = [rpc EXCEPT ![r] = "hit"]
    /\ got' = [got EXCEPT ![r] = store[CurrentNs(Home[r])]]
    /\ UNCHANGED <<clock, data, changedAt, redis, wpc, made>>

Miss(r) ==
    /\ rpc[r] = "idle"
    /\ store[CurrentNs(Home[r])] = None
    /\ Remember(Home[r])
    /\ rpc' = [rpc EXCEPT ![r] = "read"]
    /\ UNCHANGED <<clock, data, changedAt, redis, got, wpc, made>>

\* A failed GET is a miss.
LookupFails(r) ==
    /\ RedisFails
    /\ rpc[r] = "idle"
    /\ rpc' = [rpc EXCEPT ![r] = "read"]
    /\ UNCHANGED <<clock, data, changedAt, redis, memo, fetched, got, wpc,
                   made>>

\* The facts are read; the model starts to write.
ReadData(r) ==
    /\ rpc[r] = "read"
    /\ rpc' = [rpc EXCEPT ![r] = "llm"]
    /\ got' = [got EXCEPT ![r] = data]
    /\ UNCHANGED <<clock, data, changedAt, redis, memo, fetched, wpc, made>>

\* The model has answered; the answer goes to the namespace of that moment.
Fill(r) ==
    /\ rpc[r] = "llm"
    /\ Remember(Home[r])
    /\ store' = [store EXCEPT ![CurrentNs(Home[r])] = got[r]]
    /\ late' = IF got[r] < data THEN late \cup {CurrentNs(Home[r])}
               ELSE late \ {CurrentNs(Home[r])}
    /\ rpc' = [rpc EXCEPT ![r] = "done"]
    /\ UNCHANGED <<clock, data, changedAt, ns, got, wpc, made>>

\* The model fails, or the SET does.
FillFails(r) ==
    /\ rpc[r] = "llm"
    /\ rpc' = [rpc EXCEPT ![r] = "done"]
    /\ UNCHANGED <<clock, data, changedAt, redis, memo, fetched, got, wpc,
                   made>>

Return(r) ==
    /\ rpc[r] = "hit"
    /\ rpc' = [rpc EXCEPT ![r] = "done"]
    /\ UNCHANGED <<clock, data, changedAt, redis, memo, fetched, got, wpc,
                   made>>

-----------------------------------------------------------------------------
(* A request or job that changes the data.                                 *)

Commit(w) ==
    /\ wpc[w] = "idle"
    /\ data' = data + 1
    /\ made' = [made EXCEPT ![w] = data + 1]
    /\ wpc' = [wpc EXCEPT ![w] = IF w \in Silent THEN "done" ELSE "bump"]
    /\ UNCHANGED <<clock, changedAt, redis, memo, fetched, rpc, got>>

\* A bump that leaves the counter where it is.
NoNewNs == ns

NextNs == ns + 1

\* History: the changes this bump is the first one to follow.
Announced(w) ==
    [v \in Changes |-> IF v <= made[w] /\ changedAt[v] = None
                       THEN clock ELSE changedAt[v]]

bump_namespace(w) ==
    /\ wpc[w] = "bump"
    /\ ns' = NextNs
    /\ memo' = [memo EXCEPT ![Home[w]] = ns']
    /\ fetched' = [fetched EXCEPT ![Home[w]] = clock]
    /\ changedAt' = Announced(w)
    /\ wpc' = [wpc EXCEPT ![w] = "done"]
    /\ UNCHANGED <<clock, data, store, late, rpc, got, made>>

\* The failed INCR is swallowed.
BumpFails(w) ==
    /\ RedisFails
    /\ wpc[w] = "bump"
    /\ wpc' = [wpc EXCEPT ![w] = "done"]
    /\ UNCHANGED <<clock, data, changedAt, redis, memo, fetched, rpc, got, made>>

ReaderStep(r) ==
    \/ Hit(r) \/ Miss(r) \/ LookupFails(r)
    \/ ReadData(r) \/ Fill(r) \/ FillFails(r) \/ Return(r)

WriterStep(w) == Commit(w) \/ bump_namespace(w) \/ BumpFails(w)

Next ==
    \/ TimePasses
    \/ \E n \in Changes : Expire(n)
    \/ \E r \in Readers : ReaderStep(r)
    \/ \E w \in Writers : WriterStep(w)

Spec == Init /\ [][Next]_vars

-----------------------------------------------------------------------------
(* Properties.                                                             *)

\* Type invariant of the data, the cache and the requests.
TypeOK ==
    /\ clock \in 0 .. MaxTime
    /\ data \in Changes
    /\ changedAt \in [Changes -> Nat \cup {None}]
    /\ ns \in Changes
    /\ memo \in [Procs -> Changes \cup {None}]
    /\ fetched \in [Procs -> 0 .. MaxTime]
    /\ store \in [Changes -> Changes \cup {None}]
    /\ late \subseteq Changes
    /\ rpc \in [Readers -> {"idle", "hit", "read", "llm", "done"}]
    /\ got \in [Readers -> Changes]
    /\ wpc \in [Writers -> {"idle", "bump", "done"}]
    /\ made \in [Writers -> Changes]

\* cache.py:8-11 "bumps a namespace counter, which orphans all previous
\* keys": once the newest change has been followed by a bump that reached
\* Redis, what the current namespace holds was made of that data, or the data
\* changed between reading it and storing the answer.
CurrentNamespaceIsFresh ==
    data = 0 \/ changedAt[data] # None => ns \in late \/ store[ns] \in {None, data}

\* cache.py:66-68 "Worst case: a data change made in the last 5s serves one
\* stale cached narrative": an answer that was current when it was stored is
\* served by no process for longer than that after the first INCR to reach
\* Redis behind the change that outdated it.  The comment's worst case is not
\* that of the code: an answer outdated already when it was stored, or by
\* changes behind which every INCR failed, is served until it expires.
StaleOnlyBriefly ==
    [][\A r \in Readers :
          /\ Hit(r)
          /\ CurrentNs(Home[r]) \notin late
          /\ got'[r] < data
          /\ changedAt[got'[r] + 1] # None
          => clock - changedAt[got'[r] + 1] <= NS_MEMO_SECONDS]_vars

=============================================================================
