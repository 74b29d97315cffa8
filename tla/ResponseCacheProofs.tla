------------------------ MODULE ResponseCacheProofs -------------------------
(* Theorems about ResponseCache, for any processes, readers and writers,   *)
(* any memo and any clock bound, with and without failing Redis calls.     *)
EXTENDS ResponseCache, FiniteSetTheorems, TLAPS

-----------------------------------------------------------------------------
(* Types.  Every writer commits once and bumps at most once, so versions   *)
(* and namespaces are never more than there are writers.                   *)

Committed == {w \in Writers : wpc[w] # "idle"}
Ended == {w \in Writers : wpc[w] = "done"}

CountInv ==
    /\ TypeOK
    /\ data = Cardinality(Committed)
    /\ ns <= Cardinality(Ended)

LEMMA WritersAreFinite ==
    /\ IsFiniteSet(Committed) /\ IsFiniteSet(Ended)
    /\ Cardinality(Committed) \in Nat /\ Cardinality(Ended) \in Nat
    /\ Cardinality(Writers) \in Nat
    /\ IsFiniteSet(Writers)
<1>1. Committed \subseteq Writers /\ Ended \subseteq Writers
  BY DEF Committed, Ended
<1>2. QED
  BY <1>1, CacheAssumption, FS_Subset, FS_CardinalityType

LEMMA InitCountInv == Init => CountInv
<1>1. SUFFICES ASSUME Init PROVE CountInv
  OBVIOUS
<1>2. Committed = {} /\ Ended = {}
  BY <1>1 DEF Init, Committed, Ended
<1>3. Cardinality(Committed) = 0 /\ Cardinality(Ended) = 0
  BY <1>2, FS_EmptySet
<1>4. 0 \in Changes
  BY WritersAreFinite DEF Changes
<1>5. QED
  BY <1>1, <1>3, <1>4, CacheAssumption DEF Init, CountInv, TypeOK

\* The counter a process sees is one it may have.
LEMMA CurrentNsType ==
    ASSUME TypeOK, NEW p \in Procs
    PROVE  CurrentNs(p) \in Changes
BY DEF TypeOK, CurrentNs, MemoIsGood

LEMMA RememberTypes ==
    ASSUME TypeOK, NEW p \in Procs, Remember(p)
    PROVE  /\ memo' \in [Procs -> Changes \cup {None}]
           /\ fetched' \in [Procs -> 0 .. MaxTime]
<1>1. CurrentNs(p) \in Changes
  BY CurrentNsType
<1>2. QED
  BY <1>1 DEF TypeOK, Remember

\* A step that moves no writer keeps the counts.
LEMMA QuietKeepsCounts ==
    ASSUME CountInv, TypeOK', UNCHANGED <<data, ns, wpc>>
    PROVE  CountInv'
<1>1. Committed' = Committed /\ Ended' = Ended
  BY DEF Committed, Ended
<1>2. QED
  BY <1>1 DEF CountInv

LEMMA NextCountInv == CountInv /\ [Next]_vars => CountInv'
<1> SUFFICES ASSUME CountInv, [Next]_vars PROVE CountInv'
  OBVIOUS
<1>0. TypeOK /\ data \in Nat /\ ns \in Nat
  BY WritersAreFinite DEF CountInv, TypeOK, Changes
<1>1. CASE UNCHANGED vars
  BY <1>0, <1>1, QuietKeepsCounts DEF vars, redis, TypeOK
<1>2. CASE TimePasses
  <2>1. TypeOK'
    BY <1>0, <1>2, CacheAssumption DEF TimePasses, redis, TypeOK
  <2>2. QED
    BY <1>2, <2>1, QuietKeepsCounts DEF TimePasses, redis
<1>3. ASSUME NEW n \in Changes, Expire(n) PROVE CountInv'
  <2>1. TypeOK'
    BY <1>0, <1>3 DEF Expire, TypeOK
  <2>2. QED
    BY <1>3, <2>1, QuietKeepsCounts DEF Expire
<1>4. ASSUME NEW r \in Readers, ReaderStep(r) PROVE CountInv'
  <2>0. Home[r] \in Procs /\ CurrentNs(Home[r]) \in Changes
    BY <1>0, CacheAssumption, CurrentNsType
  <2>1. TypeOK'
    <3>1. CASE Hit(r)
      <4>1. store[CurrentNs(Home[r])] \in Changes
        BY <1>0, <2>0, <3>1 DEF Hit, TypeOK
      <4>2. /\ rpc' \in [Readers -> {"idle", "hit", "read", "llm", "done"}]
            /\ got' \in [Readers -> Changes]
        BY <1>0, <3>1, <4>1 DEF Hit, TypeOK
      <4>3. QED
        BY <1>0, <2>0, <3>1, <4>2, RememberTypes DEF Hit, redis, TypeOK
    <3>2. CASE Miss(r)
      <4>1. rpc' \in [Readers -> {"idle", "hit", "read", "llm", "done"}]
        BY <1>0, <3>2 DEF Miss, TypeOK
      <4>2. QED
        BY <1>0, <2>0, <3>2, <4>1, RememberTypes DEF Miss, redis, TypeOK
    <3>3. CASE Fill(r)
      <4>1. /\ rpc' \in [Readers -> {"idle", "hit", "read", "llm", "done"}]
            /\ store' \in [Changes -> Changes \cup {None}]
            /\ late' \subseteq Changes
        BY <1>0, <2>0, <3>3 DEF Fill, TypeOK
      <4>2. QED
        BY <1>0, <2>0, <3>3, <4>1, RememberTypes DEF Fill, TypeOK
    <3>4. CASE LookupFails(r) \/ FillFails(r) \/ Return(r)
      BY <1>0, <3>4 DEF LookupFails, FillFails, Return, redis, TypeOK
    <3>5. CASE ReadData(r)
      BY <1>0, <3>5 DEF ReadData, redis, TypeOK
    <3>6. QED
      BY <1>4, <3>1, <3>2, <3>3, <3>4, <3>5 DEF ReaderStep
  <2>2. UNCHANGED <<data, ns, wpc>>
    BY <1>4 DEF ReaderStep, Hit, Miss, LookupFails, ReadData, Fill, FillFails, Return, redis
  <2>3. QED
    BY <2>1, <2>2, QuietKeepsCounts
<1>5. ASSUME NEW w \in Writers, Commit(w) PROVE CountInv'
  <2>1. /\ wpc[w] = "idle" /\ data' = data + 1 /\ UNCHANGED ns
        /\ wpc' = [wpc EXCEPT ![w] = IF w \in Silent THEN "done" ELSE "bump"]
    BY <1>5 DEF Commit, redis
  <2>2. w \notin Committed /\ Committed' = Committed \cup {w}
    BY <1>0, <2>1 DEF Committed, TypeOK
  <2>3. Cardinality(Committed') = Cardinality(Committed) + 1
    BY <2>2, WritersAreFinite, FS_AddElement
  <2>4. Cardinality(Committed') <= Cardinality(Writers)
    <3>1. Committed' \subseteq Writers
      BY <2>2 DEF Committed
    <3>2. QED
      BY <3>1, WritersAreFinite, FS_Subset
  <2>5. Cardinality(Ended) <= Cardinality(Ended') /\ Cardinality(Ended') \in Nat
    <3>1. Ended \subseteq Ended' /\ Ended' \subseteq Writers
      BY <1>0, <2>1 DEF Ended, TypeOK
    <3>2. IsFiniteSet(Ended')
      BY <3>1, WritersAreFinite, FS_Subset
    <3>3. QED
      BY <3>1, <3>2, FS_Subset, FS_CardinalityType
  <2>6. data' \in Changes
    BY <1>0, <2>1, <2>3, <2>4, WritersAreFinite DEF CountInv, Changes
  <2>7. /\ made' \in [Writers -> Changes]
        /\ wpc' \in [Writers -> {"idle", "bump", "done"}]
    BY <1>0, <1>5, <2>1, <2>6 DEF Commit, TypeOK
  <2>8. TypeOK'
    BY <1>0, <1>5, <2>6, <2>7 DEF Commit, redis, TypeOK
  <2>9. ns' <= Cardinality(Ended')
    BY <1>0, <2>1, <2>5, WritersAreFinite DEF CountInv
  <2>10. data' = Cardinality(Committed')
    BY <2>1, <2>3 DEF CountInv
  <2>11. QED
    BY <2>8, <2>9, <2>10 DEF CountInv
<1>6. ASSUME NEW w \in Writers, bump_namespace(w) PROVE CountInv'
  <2>1. /\ wpc[w] = "bump" /\ ns' = ns + 1 /\ UNCHANGED data
        /\ wpc' = [wpc EXCEPT ![w] = "done"]
    BY <1>6 DEF bump_namespace, NextNs
  <2>2. Committed' = Committed
    BY <1>0, <2>1 DEF Committed, TypeOK
  <2>3. w \notin Ended /\ Ended' = Ended \cup {w}
    BY <1>0, <2>1 DEF Ended, TypeOK
  <2>4. Cardinality(Ended') = Cardinality(Ended) + 1
    BY <2>3, WritersAreFinite, FS_AddElement
  <2>5. Cardinality(Ended') <= Cardinality(Writers)
    <3>1. Ended' \subseteq Writers
      BY <2>3 DEF Ended
    <3>2. QED
      BY <3>1, WritersAreFinite, FS_Subset
  <2>6. ns' \in Changes /\ ns' <= Cardinality(Ended')
    BY <1>0, <2>1, <2>4, <2>5, WritersAreFinite DEF CountInv, Changes
  <2>7. changedAt' \in [Changes -> Nat \cup {None}]
    BY <1>0, <1>6, CacheAssumption DEF bump_namespace, Announced, TypeOK
  <2>8. /\ memo' \in [Procs -> Changes \cup {None}]
        /\ fetched' \in [Procs -> 0 .. MaxTime]
        /\ wpc' \in [Writers -> {"idle", "bump", "done"}]
    BY <1>0, <1>6, <2>6 DEF bump_namespace, TypeOK
  <2>9. TypeOK'
    BY <1>0, <1>6, <2>6, <2>7, <2>8 DEF bump_namespace, TypeOK
  <2>10. QED
    BY <2>1, <2>2, <2>6, <2>9 DEF CountInv
<1>7. ASSUME NEW w \in Writers, BumpFails(w) PROVE CountInv'
  <2>1. wpc[w] = "bump" /\ wpc' = [wpc EXCEPT ![w] = "done"] /\ UNCHANGED <<data, ns>>
    BY <1>7 DEF BumpFails, redis
  <2>2. Committed' = Committed /\ Ended \subseteq Ended' /\ Ended' \subseteq Writers
    BY <1>0, <2>1 DEF Committed, Ended, TypeOK
  <2>3. IsFiniteSet(Ended')
    BY <2>2, WritersAreFinite, FS_Subset
  <2>4. Cardinality(Ended) <= Cardinality(Ended') /\ Cardinality(Ended') \in Nat
    BY <2>2, <2>3, FS_Subset, FS_CardinalityType
  <2>5. TypeOK'
    BY <1>0, <1>7 DEF BumpFails, redis, TypeOK
  <2>6. QED
    BY <1>0, <2>1, <2>2, <2>4, <2>5, WritersAreFinite DEF CountInv
<1>8. QED
  BY <1>1, <1>2, <1>3, <1>4, <1>5, <1>6, <1>7 DEF Next, WriterStep

\* The data, the cache and the requests keep their types.
THEOREM TypeCorrect == Spec => []TypeOK
<1>1. CountInv => TypeOK
  BY DEF CountInv
<1>2. QED
  BY <1>1, InitCountInv, NextCountInv, PTL DEF Spec

-----------------------------------------------------------------------------
(* Freshness.  An entry that was made of the newest data when it was       *)
(* stored can only be outdated by a later change; the bump that announces  *)
(* that change leaves the entry's namespace behind, and a process that     *)
(* still remembers that namespace learned it before the bump.              *)

\* Version v, cached on time, has been announced to be outdated.
Outdated(n, v) ==
    /\ store[n] = v /\ n \notin late
    /\ v < data
    /\ changedAt[v + 1] # None

FreshInv ==
    /\ \A v \in Changes : v > data => changedAt[v] = None
    /\ \A n \in Changes : n > ns => store[n] = None
    /\ \A n \in Changes : store[n] # None => store[n] <= data
    /\ \A r \in Readers : got[r] <= data
    /\ \A w \in Writers : made[w] <= data
    /\ \A p \in Procs : memo[p] # None => memo[p] <= ns
    /\ \A p \in Procs : fetched[p] <= clock
    /\ \A v \in Changes : changedAt[v] # None => changedAt[v] <= clock
    /\ \A u, v \in Changes : u <= v /\ changedAt[v] # None => changedAt[u] # None
    /\ \A n, v \in Changes : Outdated(n, v) =>
           /\ n < ns
           /\ \A p \in Procs : memo[p] = n => fetched[p] <= changedAt[v + 1]

LEMMA InitFreshInv == Init => FreshInv
BY WritersAreFinite, CacheAssumption
   DEF Init, FreshInv, Changes, Outdated

LEMMA NumbersAreNumbers ==
    ASSUME CountInv
    PROVE  /\ Changes \subseteq Nat /\ None \notin Nat
           /\ clock \in Nat /\ data \in Changes /\ ns \in Changes
           /\ \A v \in Changes : v < data => v + 1 \in Changes
BY WritersAreFinite, CacheAssumption DEF CountInv, TypeOK, Changes

\* What a process sees is at most the counter, and when it looked is past.
LEMMA SeenNs ==
    ASSUME CountInv, FreshInv, NEW p \in Procs, Remember(p)
    PROVE  /\ CurrentNs(p) <= ns
           /\ \A q \in Procs : memo'[q] # None => memo'[q] <= ns
           /\ \A q \in Procs : fetched'[q] <= clock
           /\ \A q \in Procs : \/ memo'[q] = memo[q] /\ fetched'[q] = fetched[q]
                               \/ memo'[q] = ns
<1>1. /\ memo \in [Procs -> Changes \cup {None}] /\ fetched \in [Procs -> 0 .. MaxTime]
      /\ ns \in Nat /\ clock \in Nat
  BY NumbersAreNumbers DEF CountInv, TypeOK
<1>2. CASE MemoIsGood(p)
  <2>1. CurrentNs(p) = memo[p] /\ memo[p] # None
    BY <1>2 DEF CurrentNs, MemoIsGood
  <2>2. /\ memo' = memo /\ fetched' = fetched
    BY <1>1, <1>2, <2>1 DEF Remember
  <2>3. QED
    BY <2>1, <2>2 DEF FreshInv
<1>3. CASE ~MemoIsGood(p)
  <2>1. CurrentNs(p) = ns
    BY <1>3 DEF CurrentNs
  <2>2. memo' = [memo EXCEPT ![p] = ns] /\ fetched' = [fetched EXCEPT ![p] = clock]
    BY <1>3, <2>1 DEF Remember
  <2>3. QED
    BY <1>1, <2>1, <2>2 DEF FreshInv
<1>4. QED
  BY <1>2, <1>3

\* A step that neither changes nor announces the data, in which processes
\* learn the counter and entries are dropped or made of the newest data.
LEMMA LookingKeepsFresh ==
    ASSUME CountInv, FreshInv, UNCHANGED <<data, changedAt, ns>>,
           clock' \in Nat, clock <= clock',
           \A p \in Procs : memo'[p] # None => memo'[p] <= ns,
           \A p \in Procs : fetched'[p] <= clock',
           \A p \in Procs : \/ memo'[p] = memo[p] /\ fetched'[p] = fetched[p]
                            \/ memo'[p] = ns,
           \A r \in Readers : got'[r] <= data,
           \A w \in Writers : made'[w] <= data,
           \A n \in Changes : n > ns => store'[n] = None,
           \A n \in Changes : store'[n] # None => store'[n] <= data,
           \A n \in Changes : \/ store'[n] = store[n] /\ (n \in late => n \in late')
                              \/ store'[n] \in {None, data}
                              \/ n \in late'
    PROVE  FreshInv'
<1>1. /\ Changes \subseteq Nat /\ None \notin Nat
      /\ clock \in Nat /\ data \in Nat /\ ns \in Nat
      /\ changedAt \in [Changes -> Nat \cup {None}]
      /\ \A v \in Changes : v < data => v + 1 \in Changes
  BY NumbersAreNumbers DEF CountInv, TypeOK
<1>2. \A v \in Changes : changedAt'[v] # None => changedAt'[v] <= clock'
  BY <1>1 DEF FreshInv
<1>3. ASSUME NEW n \in Changes, NEW v \in Changes, Outdated(n, v)'
      PROVE  /\ n < ns'
             /\ \A p \in Procs : memo'[p] = n => fetched'[p] <= changedAt'[v + 1]
  <2>1. store'[n] = v /\ n \notin late' /\ v < data /\ changedAt[v + 1] # None
    BY <1>3 DEF Outdated
  <2>2. v # None /\ v # data
    BY <1>1, <2>1
  <2>3. Outdated(n, v)
    BY <2>1, <2>2 DEF Outdated
  <2>4. n < ns /\ \A p \in Procs : memo[p] = n => fetched[p] <= changedAt[v + 1]
    BY <2>3 DEF FreshInv
  <2>5. n # ns
    BY <1>1, <2>4
  <2>6. QED
    BY <2>4, <2>5
<1>4. QED
  BY <1>2, <1>3 DEF FreshInv

\* The same of a step that leaves Redis and the clock alone.
LEMMA ReadingKeepsFresh ==
    ASSUME CountInv, FreshInv, UNCHANGED <<clock, data, changedAt, redis>>,
           \A p \in Procs : memo'[p] # None => memo'[p] <= ns,
           \A p \in Procs : fetched'[p] <= clock,
           \A p \in Procs : \/ memo'[p] = memo[p] /\ fetched'[p] = fetched[p]
                            \/ memo'[p] = ns,
           \A r \in Readers : got'[r] <= data,
           \A w \in Writers : made'[w] <= data
    PROVE  FreshInv'
<1>1. /\ UNCHANGED <<data, changedAt, ns>> /\ store' = store /\ late' = late
      /\ clock' = clock /\ clock \in Nat
  BY NumbersAreNumbers DEF redis, CountInv, TypeOK
<1>2. /\ \A n \in Changes : n > ns => store'[n] = None
      /\ \A n \in Changes : store'[n] # None => store'[n] <= data
  BY <1>1 DEF FreshInv
<1>3. clock' \in Nat /\ clock <= clock' /\ \A p \in Procs : fetched'[p] <= clock'
  BY <1>1
<1>4. QED
  BY <1>1, <1>2, <1>3, LookingKeepsFresh

LEMMA NextFreshInv == CountInv /\ CountInv' /\ FreshInv /\ [Next]_vars => FreshInv'
<1> SUFFICES ASSUME CountInv, CountInv', FreshInv, [Next]_vars PROVE FreshInv'
  OBVIOUS
<1>0. /\ Changes \subseteq Nat /\ None \notin Nat
      /\ clock \in Nat /\ clock' \in Nat /\ data \in Nat /\ ns \in Nat
      /\ changedAt \in [Changes -> Nat \cup {None}]
      /\ memo \in [Procs -> Nat \cup {None}] /\ fetched \in [Procs -> Nat]
      /\ store \in [Changes -> Nat \cup {None}]
      /\ got \in [Readers -> Nat] /\ made \in [Writers -> Nat]
  BY NumbersAreNumbers, CacheAssumption DEF CountInv, TypeOK
<1>1. CASE UNCHANGED vars
  BY <1>0, <1>1, LookingKeepsFresh DEF vars, redis, FreshInv
<1>2. CASE TimePasses
  <2>1. clock <= clock' /\ \A p \in Procs : fetched[p] <= clock'
    BY <1>0, <1>2 DEF TimePasses, FreshInv
  <2>2. QED
    BY <1>0, <1>2, <2>1, LookingKeepsFresh DEF TimePasses, redis, FreshInv
<1>3. ASSUME NEW x \in Changes, Expire(x) PROVE FreshInv'
  <2>1. /\ store' = [store EXCEPT ![x] = None] /\ late' = late \ {x}
        /\ UNCHANGED <<clock, data, changedAt, ns, memo, fetched, got, made>>
    BY <1>3 DEF Expire
  <2>2. \A n \in Changes : \/ store'[n] = store[n] /\ (n \in late => n \in late')
                           \/ store'[n] \in {None, data}
                           \/ n \in late'
    BY <1>0, <2>1
  <2>3. \A n \in Changes : store'[n] \in {store[n], None}
    BY <1>0, <2>1
  <2>4. QED
    BY <1>0, <2>1, <2>2, <2>3, LookingKeepsFresh DEF FreshInv
<1>4. ASSUME NEW r \in Readers, ReaderStep(r) PROVE FreshInv'
  <2>0. Home[r] \in Procs /\ CurrentNs(Home[r]) \in Changes
    BY CacheAssumption, CurrentNsType DEF CountInv
  <2>1. CASE Hit(r)
    <3>1. UNCHANGED <<clock, data, changedAt, redis, made>> /\ Remember(Home[r])
      BY <2>1 DEF Hit
    <3>2. \A s \in Readers : got'[s] <= data
      BY <1>0, <2>0, <2>1 DEF Hit, FreshInv
    <3>3. /\ \A q \in Procs : memo'[q] # None => memo'[q] <= ns
          /\ \A q \in Procs : fetched'[q] <= clock
          /\ \A q \in Procs : \/ memo'[q] = memo[q] /\ fetched'[q] = fetched[q]
                              \/ memo'[q] = ns
      BY <2>0, <3>1, SeenNs
    <3>4. \A w \in Writers : made'[w] <= data
      BY <3>1 DEF FreshInv
    <3>5. QED
      BY <3>1, <3>2, <3>3, <3>4, ReadingKeepsFresh
  <2>2. CASE Miss(r)
    <3>1. UNCHANGED <<clock, data, changedAt, redis, got, made>> /\ Remember(Home[r])
      BY <2>2 DEF Miss
    <3>2. /\ \A q \in Procs : memo'[q] # None => memo'[q] <= ns
          /\ \A q \in Procs : fetched'[q] <= clock
          /\ \A q \in Procs : \/ memo'[q] = memo[q] /\ fetched'[q] = fetched[q]
                              \/ memo'[q] = ns
      BY <2>0, <3>1, SeenNs
    <3>3. /\ \A s \in Readers : got'[s] <= data
          /\ \A w \in Writers : made'[w] <= data
      BY <3>1 DEF FreshInv
    <3>4. QED
      BY <3>1, <3>2, <3>3, ReadingKeepsFresh
  <2>3. CASE LookupFails(r) \/ FillFails(r) \/ Return(r)
    <3>1. UNCHANGED <<clock, data, changedAt, redis, memo, fetched, got, made>>
      BY <2>3 DEF LookupFails, FillFails, Return
    <3>2. /\ UNCHANGED <<memo, fetched, got, made>> /\ clock' = clock
          /\ \A p \in Procs : memo'[p] # None => memo'[p] <= ns
          /\ \A p \in Procs : fetched'[p] <= clock
          /\ \A s \in Readers : got'[s] <= data
          /\ \A w \in Writers : made'[w] <= data
      BY <3>1 DEF FreshInv
    <3>3. QED
      BY <3>1, <3>2, ReadingKeepsFresh
  <2>4. CASE ReadData(r)
    <3>1. UNCHANGED <<clock, data, changedAt, redis, memo, fetched, made>>
      BY <2>4 DEF ReadData
    <3>2. \A s \in Readers : got'[s] <= data
      BY <1>0, <2>4 DEF ReadData, FreshInv
    <3>3. /\ \A p \in Procs : memo'[p] # None => memo'[p] <= ns
          /\ \A p \in Procs : fetched'[p] <= clock
          /\ \A w \in Writers : made'[w] <= data
      BY <3>1 DEF FreshInv
    <3>4. QED
      BY <3>1, <3>2, <3>3, ReadingKeepsFresh
  <2>5. CASE Fill(r)
    <3> DEFINE m == CurrentNs(Home[r])
    <3>1. /\ Remember(Home[r]) /\ UNCHANGED <<clock, data, changedAt, ns, got, made>>
          /\ store' = [store EXCEPT ![m] = got[r]]
          /\ late' = IF got[r] < data THEN late \cup {m} ELSE late \ {m}
      BY <2>5 DEF Fill
    <3>2. m \in Changes /\ m <= ns /\ got[r] \in Nat /\ got[r] <= data
      BY <1>0, <2>0, <3>1, SeenNs DEF FreshInv
    <3>3. \A n \in Changes : n # m => store'[n] = store[n] /\ (n \in late => n \in late')
      BY <1>0, <3>1
    <3>4. store'[m] = got[r] /\ (got[r] = data \/ m \in late')
      BY <1>0, <3>1, <3>2
    <3>5. \A n \in Changes : n > ns => n # m
      BY <1>0, <3>2
    <3> HIDE DEF m
    <3>6. /\ \A n \in Changes : n > ns => store'[n] = None
          /\ \A n \in Changes : store'[n] # None => store'[n] <= data
          /\ \A n \in Changes : \/ store'[n] = store[n] /\ (n \in late => n \in late')
                                \/ store'[n] \in {None, data}
                                \/ n \in late'
      BY <3>2, <3>3, <3>4, <3>5 DEF FreshInv
    <3>7. /\ \A p \in Procs : memo'[p] # None => memo'[p] <= ns
          /\ \A p \in Procs : fetched'[p] <= clock
          /\ \A p \in Procs : \/ memo'[p] = memo[p] /\ fetched'[p] = fetched[p]
                              \/ memo'[p] = ns
      BY <2>0, <3>1, SeenNs
    <3>8. clock <= clock' /\ clock' = clock /\ clock' \in Nat
      BY <1>0, <3>1
    <3>9. /\ \A x \in Readers : got'[x] <= data
          /\ \A x \in Writers : made'[x] <= data
      BY <3>1 DEF FreshInv
    <3>10. UNCHANGED <<data, changedAt, ns>>
      BY <3>1
    <3>11. QED
      BY <3>6, <3>7, <3>8, <3>9, <3>10, LookingKeepsFresh
  <2>6. QED
    BY <1>4, <2>1, <2>2, <2>3, <2>4, <2>5 DEF ReaderStep
<1>5. ASSUME NEW w \in Writers, Commit(w) PROVE FreshInv'
  <2>1. /\ data' = data + 1 /\ made' = [made EXCEPT ![w] = data + 1]
        /\ UNCHANGED <<clock, changedAt, ns, store, late, memo, fetched, got>>
    BY <1>5 DEF Commit, redis
  <2>2. \A v \in Writers : made'[v] <= data'
    BY <1>0, <2>1 DEF FreshInv
  <2>3. /\ \A v \in Changes : v > data' => changedAt'[v] = None
        /\ \A n \in Changes : store'[n] # None => store'[n] <= data'
        /\ \A r \in Readers : got'[r] <= data'
    BY <1>0, <2>1 DEF FreshInv
  <2>4. ASSUME NEW n \in Changes, NEW v \in Changes, Outdated(n, v)'
        PROVE  Outdated(n, v)
    <3>1. store[n] = v /\ n \notin late /\ v < data + 1 /\ changedAt[v + 1] # None
      BY <2>1, <2>4 DEF Outdated
    <3>2. v # data
      <4>1. data + 1 \in Changes
        BY <2>1 DEF CountInv, TypeOK
      <4>2. changedAt[data + 1] = None
        BY <1>0, <4>1 DEF FreshInv
      <4>3. QED
        BY <3>1, <4>2
    <3>3. QED
      BY <1>0, <3>1, <3>2 DEF Outdated
  <2>5. QED
    BY <2>1, <2>2, <2>3, <2>4 DEF FreshInv
<1>6. ASSUME NEW w \in Writers, bump_namespace(w) PROVE FreshInv'
  <2>1. /\ ns' = ns + 1 /\ memo' = [memo EXCEPT ![Home[w]] = ns + 1]
        /\ fetched' = [fetched EXCEPT ![Home[w]] = clock]
        /\ changedAt' = Announced(w)
        /\ UNCHANGED <<clock, data, store, late, got, made>>
    BY <1>6 DEF bump_namespace, NextNs
  <2>2. Home[w] \in Procs /\ made[w] \in Nat /\ made[w] <= data
    BY <1>0, CacheAssumption DEF FreshInv
  <2>3. /\ \A v \in Changes : \/ changedAt'[v] = changedAt[v]
                              \/ changedAt[v] = None /\ changedAt'[v] = clock
        /\ \A v \in Changes : changedAt'[v] # None <=> changedAt[v] # None \/ v <= made[w]
    BY <1>0, <2>1 DEF Announced
  <2>4. \A v \in Changes : changedAt'[v] # None => changedAt'[v] <= clock
    BY <1>0, <2>3 DEF FreshInv
  <2>5. \A v \in Changes : v > data => changedAt'[v] = None
    BY <1>0, <2>2, <2>3 DEF FreshInv
  <2>6. \A u, v \in Changes : u <= v /\ changedAt'[v] # None => changedAt'[u] # None
    BY <1>0, <2>2, <2>3 DEF FreshInv
  <2>7. /\ \A p \in Procs : memo'[p] # None => memo'[p] <= ns'
        /\ \A p \in Procs : fetched'[p] <= clock
    BY <1>0, <2>1, <2>2 DEF FreshInv
  <2>8. \A n \in Changes : n > ns' => store'[n] = None
    BY <1>0, <2>1 DEF FreshInv
  <2>9. ASSUME NEW n \in Changes, NEW v \in Changes, Outdated(n, v)'
        PROVE  /\ n < ns'
               /\ \A p \in Procs : memo'[p] = n => fetched'[p] <= changedAt'[v + 1]
    <3>1. store[n] = v /\ n \notin late /\ v < data
      BY <2>1, <2>9 DEF Outdated
    <3>2. n <= ns /\ v + 1 \in Changes
      BY <1>0, <3>1, NumbersAreNumbers DEF FreshInv
    <3>3. ASSUME NEW p \in Procs, memo'[p] = n PROVE fetched'[p] <= changedAt'[v + 1]
      <4>1. p # Home[w]
        BY <1>0, <2>1, <2>2, <3>2, <3>3
      <4>2. memo[p] = n /\ fetched'[p] = fetched[p] /\ fetched[p] <= clock
        BY <1>0, <2>1, <3>3, <4>1 DEF FreshInv
      <4>3. CASE changedAt[v + 1] = None
        <5>1. changedAt'[v + 1] = clock
          BY <2>3, <2>9, <3>2, <4>3 DEF Outdated
        <5>2. QED
          BY <4>2, <5>1
      <4>4. CASE changedAt[v + 1] # None
        <5>1. Outdated(n, v)
          BY <3>1, <4>4 DEF Outdated
        <5>2. changedAt'[v + 1] = changedAt[v + 1]
          BY <2>3, <3>2, <4>4
        <5>3. QED
          BY <4>2, <5>1, <5>2 DEF FreshInv
      <4>5. QED
        BY <4>3, <4>4
    <3>4. QED
      BY <1>0, <2>1, <3>2, <3>3
  <2>10. /\ \A r \in Readers : got'[r] <= data' /\ \A x \in Writers : made'[x] <= data'
         /\ \A n \in Changes : store'[n] # None => store'[n] <= data'
    BY <2>1 DEF FreshInv
  <2>11. QED
    BY <2>1, <2>4, <2>5, <2>6, <2>7, <2>8, <2>9, <2>10 DEF FreshInv
<1>7. ASSUME NEW w \in Writers, BumpFails(w) PROVE FreshInv'
  <2>1. UNCHANGED <<clock, data, changedAt, redis, memo, fetched, got, made>>
    BY <1>7 DEF BumpFails
  <2>2. QED
    BY <1>0, <2>1, LookingKeepsFresh DEF redis, FreshInv
<1>8. QED
  BY <1>1, <1>2, <1>3, <1>4, <1>5, <1>6, <1>7 DEF Next, WriterStep

LEMMA FreshAlways == Spec => [](CountInv /\ FreshInv)
BY InitCountInv, NextCountInv, InitFreshInv, NextFreshInv, PTL DEF Spec

\* Once the newest change has been announced, the current namespace holds
\* nothing older that was not outdated already when it was stored.
THEOREM FreshOnceBumped == Spec => []CurrentNamespaceIsFresh
<1>1. CountInv /\ FreshInv => CurrentNamespaceIsFresh
  <2>1. SUFFICES ASSUME CountInv, FreshInv, data = 0 \/ changedAt[data] # None,
                        ns \notin late, store[ns] # None
                 PROVE  store[ns] = data
    BY DEF CurrentNamespaceIsFresh
  <2>2. /\ Changes \subseteq Nat /\ data \in Changes /\ ns \in Changes
        /\ store[ns] \in Changes /\ store[ns] <= data
        /\ data \in Nat /\ ns \in Nat /\ store[ns] \in Nat
    BY <2>1, NumbersAreNumbers DEF CountInv, TypeOK, FreshInv
  <2>3. CASE store[ns] < data
    <3>1. store[ns] + 1 \in Changes /\ store[ns] + 1 <= data /\ data # 0
      BY <2>1, <2>2, <2>3, NumbersAreNumbers
    <3>2. changedAt[store[ns] + 1] # None
      BY <2>1, <2>2, <3>1 DEF FreshInv
    <3>3. Outdated(ns, store[ns])
      BY <2>1, <2>3, <3>2 DEF Outdated
    <3>4. ns < ns
      BY <2>1, <2>2, <3>3 DEF FreshInv
    <3>5. QED
      BY <2>2, <3>4
  <2>4. QED
    BY <2>2, <2>3
<1>2. QED
  BY <1>1, FreshAlways, PTL

\* A process serves an answer that was current when it was stored for at most
\* NS_MEMO_SECONDS after the first INCR behind the change that outdated it to
\* reach Redis: it does so only while it remembers the old counter.
THEOREM StaleForAMemo == Spec => StaleOnlyBriefly
<1>1. ASSUME CountInv, FreshInv, NEW r \in Readers, Hit(r),
             CurrentNs(Home[r]) \notin late, got'[r] < data, changedAt[got'[r] + 1] # None
      PROVE  clock - changedAt[got'[r] + 1] <= NS_MEMO_SECONDS
  <2> DEFINE p == Home[r]
             n == CurrentNs(p)
             v == store[n]
  <2>1. p \in Procs /\ n \in Changes /\ v \in Changes
    BY <1>1, CacheAssumption, CurrentNsType DEF Hit, CountInv, TypeOK
  <2>2. got'[r] = v
    BY <1>1 DEF Hit, CountInv, TypeOK
  <2>3. Outdated(n, v)
    BY <1>1, <2>2 DEF Outdated
  <2>4. n < ns /\ (memo[p] = n => fetched[p] <= changedAt[v + 1])
    BY <1>1, <2>1, <2>3 DEF FreshInv
  <2>5. MemoIsGood(p)
    BY <1>1, <2>1, <2>4, NumbersAreNumbers DEF CurrentNs
  <2>6. memo[p] = n /\ clock - fetched[p] <= NS_MEMO_SECONDS
    BY <2>5 DEF CurrentNs, MemoIsGood
  <2>7. /\ clock \in Nat /\ fetched[p] \in Nat /\ changedAt[v + 1] \in Nat
        /\ NS_MEMO_SECONDS \in Nat
    <3>1. v + 1 \in Changes
      BY <1>1, <2>1, <2>2, NumbersAreNumbers
    <3>2. QED
      BY <1>1, <2>1, <2>2, <3>1, CacheAssumption DEF CountInv, TypeOK
  <2>8. clock - changedAt[v + 1] <= NS_MEMO_SECONDS
    BY <2>4, <2>6, <2>7
  <2>9. QED
    BY <2>2, <2>8
<1>2. CountInv /\ FreshInv =>
          [\A r \in Readers :
              /\ Hit(r)
              /\ CurrentNs(Home[r]) \notin late
              /\ got'[r] < data
              /\ changedAt[got'[r] + 1] # None
              => clock - changedAt[got'[r] + 1] <= NS_MEMO_SECONDS]_vars
  BY <1>1
<1>3. QED
  BY <1>2, FreshAlways, PTL DEF StaleOnlyBriefly

=============================================================================
