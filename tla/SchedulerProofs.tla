-------------------------- MODULE SchedulerProofs ---------------------------
(***************************************************************************)
(* What holds of the scheduler for every set of jobs and ticks and every   *)
(* cadence, as long as a tick only starts when no other one is running.    *)
(***************************************************************************)
EXTENDS Scheduler, TLAPS

USE DEF jobVars, logVars, historyVars, tickVars

(***************************************************************************)
(* The job table, the run log and the ticks' locals are well formed.       *)
(***************************************************************************)
THEOREM TypeCorrect == Spec => []TypeOK
<1>1. Init => TypeOK
  BY JobsAssumption DEF Init, TypeOK, Outcomes
<1>2. TypeOK /\ [Next]_vars => TypeOK'
  <2> SUFFICES ASSUME TypeOK, [Next]_vars PROVE TypeOK'
    OBVIOUS
  <2> USE DEF TypeOK
  <2>1. CASE Admin
    <3> PICK j \in Jobs :
           \/ \E on \in BOOLEAN : CreateJob(j, on) \/ SetJobEnabled(j, on)
           \/ DeleteJob(j)
      BY <2>1 DEF Admin
    <3>1. ASSUME NEW on \in BOOLEAN, CreateJob(j, on) PROVE TypeOK'
      BY <3>1, JobsAssumption DEF CreateJob
    <3>2. ASSUME NEW on \in BOOLEAN, SetJobEnabled(j, on) PROVE TypeOK'
      BY <3>2 DEF SetJobEnabled
    <3>3. CASE DeleteJob(j)
      BY <3>3 DEF DeleteJob
    <3>4. QED BY <3>1, <3>2, <3>3
  <2>2. CASE TimePasses
    BY <2>2, JobsAssumption DEF TimePasses
  <2>3. ASSUME NEW t \in Ticks, BeginTick(t) PROVE TypeOK'
    BY <2>3 DEF BeginTick
  <2>4. ASSUME NEW t \in Ticks, NEW j \in Jobs, NEW o \in Outcomes,
               RunJob(t, j, o)
        PROVE  TypeOK'
    BY <2>4, JobsAssumption DEF RunJob
  <2>5. ASSUME NEW t \in Ticks, NEW j \in Jobs, LogRun(t, j) PROVE TypeOK'
    <3>1. Advance(t, j) \in Nat /\ NewFailCount(t, j) \in Nat
      BY JobsAssumption DEF Advance, NewFailCount
    <3>2. next_run_at' \in [Jobs -> Nat] /\ fail_count' \in [Jobs -> Nat]
      <4>1. CASE state[j] = "row"
        <5>1. /\ next_run_at' = [next_run_at EXCEPT ![j] = Advance(t, j)]
              /\ fail_count' = [fail_count EXCEPT ![j] = NewFailCount(t, j)]
          BY <2>5, <4>1 DEF LogRun
        <5>2. QED BY <3>1, <5>1
      <4>2. CASE state[j] # "row"
        BY <2>5, <4>2 DEF LogRun
      <4>3. QED BY <4>1, <4>2
    <3>3. streak' \in [Jobs -> Nat] /\ alerts' \in [Jobs -> Nat] /\ unheard' \subseteq Jobs
      <4>1. CASE outcome[t] = "error"
        <5>1. streak' = [streak EXCEPT ![j] = @ + 1] /\ alerts' = alerts /\ unheard' = unheard
          BY <2>5, <4>1 DEF LogRun
        <5>2. QED BY <5>1
      <4>2. CASE outcome[t] # "error"
        <5>1. /\ streak' = [streak EXCEPT ![j] = 0]
              /\ alerts' = [alerts EXCEPT ![j] = 0]
              /\ unheard' = unheard \ {j}
          BY <2>5, <4>2 DEF LogRun
        <5>2. QED BY <5>1
      <4>3. QED BY <4>1, <4>2
    <3>4. /\ pc' \in [Ticks -> {"idle", "loop", "ran", "alert"}]
          /\ due' \in [Ticks -> SUBSET Jobs]
      <4>1. CASE NeedsAlert(t, j)
        BY <2>5, <4>1 DEF LogRun
      <4>2. CASE ~NeedsAlert(t, j)
        <5>1. /\ pc' = [pc EXCEPT ![t] = "loop"]
              /\ due' = [due EXCEPT ![t] = @ \ {j}]
          BY <2>5, <4>2 DEF LogRun
        <5>2. QED BY <5>1
      <4>3. QED BY <4>1, <4>2
    <3>6. outcome' \in [Ticks -> Outcomes]
      BY <2>5 DEF LogRun, Outcomes
    <3>7. QED BY <2>5, <3>2, <3>3, <3>4, <3>6 DEF LogRun
  <2>6. ASSUME NEW t \in Ticks, NEW j \in Jobs, NEW d \in BOOLEAN,
               AlertJobFailure(t, j, d)
        PROVE  TypeOK'
    BY <2>6 DEF AlertJobFailure
  <2>7. ASSUME NEW t \in Ticks, Forget(t), lost' \subseteq Jobs PROVE TypeOK'
    BY <2>7, JobsAssumption DEF Forget, Outcomes
  <2>8. CASE UNCHANGED vars
    BY <2>8 DEF vars
  <2>9. QED
    BY <2>1, <2>2, <2>3, <2>4, <2>5, <2>6, <2>7, <2>8
       DEF Next, TickStep, EndTick, AbortTick, Crash
<1>3. QED BY <1>1, <1>2, PTL DEF Spec

-----------------------------------------------------------------------------
(* Ticks never overlap, and what the running one remembers of a job it has *)
(* still to run is what the table says of it.                              *)
OneTick == \A t, u \in Ticks : pc[t] # "idle" /\ pc[u] # "idle" => t = u

IdleHasNothingDue == \A t \in Ticks : pc[t] = "idle" => due[t] = {}

DueJobsExist == \A t \in Ticks : \A j \in due[t] : state[j] # "none"

\* The job in front, once its run is logged and only the alert is left.
Logged(t, j) == pc[t] = "alert" /\ First(t, j)

SeenIsCurrent ==
    \A t \in Ticks : \A j \in due[t] :
        Logged(t, j) \/ seen[t][j] = fail_count[j] \/ state[j] # "row"

FreshJobsNeverFailed ==
    \A j \in Jobs : state[j] = "none" => fail_count[j] = 0 /\ streak[j] = 0

SerialInv ==
    /\ OneTick
    /\ IdleHasNothingDue
    /\ DueJobsExist
    /\ SeenIsCurrent
    /\ FreshJobsNeverFailed

(***************************************************************************)
(* Only one job can be in front of a tick's list.                          *)
(***************************************************************************)
LEMMA FirstIsUnique ==
    ASSUME TypeOK, NEW t \in Ticks, NEW j \in Jobs, NEW k \in Jobs,
           First(t, j), First(t, k)
    PROVE  j = k
BY JobsAssumption DEF First

(***************************************************************************)
(* The strengthened failure count is inductive.                            *)
(***************************************************************************)
LEMMA SerialInvariant ==
    ASSUME Overlap = FALSE
    PROVE  Spec => [](SerialInv /\ FailCountIsStreak)
<1>1. Init => SerialInv /\ FailCountIsStreak
  BY DEF Init, SerialInv, OneTick, IdleHasNothingDue, DueJobsExist,
         SeenIsCurrent, FreshJobsNeverFailed, FailCountIsStreak
<1>2. TypeOK /\ SerialInv /\ FailCountIsStreak /\ [Next]_vars
        => SerialInv' /\ FailCountIsStreak'
  <2> SUFFICES ASSUME TypeOK, SerialInv, FailCountIsStreak, [Next]_vars
               PROVE  SerialInv' /\ FailCountIsStreak'
    OBVIOUS
  <2> USE DEF TypeOK, SerialInv, OneTick, IdleHasNothingDue, DueJobsExist,
              SeenIsCurrent, FreshJobsNeverFailed, FailCountIsStreak
  <2>1. CASE Admin
    <3> PICK j \in Jobs :
           \/ \E on \in BOOLEAN : CreateJob(j, on) \/ SetJobEnabled(j, on)
           \/ DeleteJob(j)
      BY <2>1 DEF Admin
    <3>1. ASSUME NEW on \in BOOLEAN, CreateJob(j, on)
          PROVE  SerialInv' /\ FailCountIsStreak'
      BY <3>1 DEF CreateJob, Logged, First
    <3>2. ASSUME NEW on \in BOOLEAN, SetJobEnabled(j, on)
          PROVE  SerialInv' /\ FailCountIsStreak'
      BY <3>2 DEF SetJobEnabled, Logged, First
    <3>3. CASE DeleteJob(j)
      BY <3>3 DEF DeleteJob, Logged, First
    <3>4. QED BY <3>1, <3>2, <3>3
  <2>2. CASE TimePasses
    BY <2>2 DEF TimePasses, Logged, First
  <2>3. ASSUME NEW t \in Ticks, BeginTick(t)
        PROVE  SerialInv' /\ FailCountIsStreak'
    <3>1. \A u \in Ticks : pc[u] = "idle" /\ due[u] = {}
      BY <2>3 DEF BeginTick
    <3>2. \A u \in Ticks : u # t => due'[u] = {} /\ pc'[u] = "idle"
      BY <2>3, <3>1 DEF BeginTick
    <3>3. \A j \in due'[t] : state'[j] = "row" /\ seen'[t][j] = fail_count'[j]
      BY <2>3 DEF BeginTick, Due
    <3>4. SeenIsCurrent' /\ DueJobsExist'
      BY <3>2, <3>3
    <3>5. OneTick' /\ IdleHasNothingDue'
      BY <2>3, <3>2 DEF BeginTick
    <3>6. QED BY <2>3, <3>4, <3>5 DEF BeginTick
  <2>4. ASSUME NEW t \in Ticks, NEW j \in Jobs, NEW o \in Outcomes,
               RunJob(t, j, o)
        PROVE  SerialInv' /\ FailCountIsStreak'
    BY <2>4 DEF RunJob, Logged, First
  <2>5. ASSUME NEW t \in Ticks, NEW j \in Jobs, LogRun(t, j)
        PROVE  SerialInv' /\ FailCountIsStreak'
    <3>1. j \in due[t] /\ pc[t] = "ran" /\ state[j] # "none"
      BY <2>5 DEF LogRun, First
    <3>2. state[j] = "row" => seen[t][j] = streak[j]
      BY <3>1 DEF Logged
    <3>3. FailCountIsStreak'
      <4>1. ASSUME NEW k \in Jobs, k # j, state[k] = "row"
            PROVE  fail_count'[k] = streak'[k]
        <5>1. fail_count'[k] = fail_count[k]
          BY <2>5, <4>1 DEF LogRun
        <5>2. streak'[k] = streak[k]
          BY <2>5, <4>1 DEF LogRun
        <5>3. QED BY <4>1, <5>1, <5>2
      <4>2. ASSUME state[j] = "row"
            PROVE  fail_count'[j] = streak'[j]
        <5>1. fail_count'[j] = NewFailCount(t, j)
          BY <2>5, <4>2 DEF LogRun
        <5>2. streak'[j] = IF outcome[t] = "error" THEN streak[j] + 1 ELSE 0
          BY <2>5 DEF LogRun
        <5>3. QED BY <3>2, <4>2, <5>1, <5>2 DEF NewFailCount
      <4>3. state' = state
        BY <2>5 DEF LogRun
      <4>4. QED BY <4>1, <4>2, <4>3
    <3>4. FreshJobsNeverFailed'
      BY <2>5, <3>1 DEF LogRun
    <3>5. \A u \in Ticks : u # t => pc[u] = "idle" /\ due[u] = {}
      BY <3>1
    <3>6. \A u \in Ticks : u # t => pc'[u] = "idle" /\ due'[u] = {}
      BY <2>5, <3>5 DEF LogRun
    <3>7. pc'[t] # "idle" /\ (\A k \in due'[t] : k \in due[t])
      BY <2>5 DEF LogRun
    <3>8. OneTick' /\ IdleHasNothingDue' /\ DueJobsExist'
      BY <2>5, <3>6, <3>7 DEF LogRun
    <3>9. ASSUME NEW k \in due'[t]
          PROVE  (Logged(t, k) \/ seen[t][k] = fail_count[k] \/ state[k] # "row")'
      <4>1. k \in due[t] /\ ~Logged(t, k)
        BY <3>1, <3>7, <3>9 DEF Logged
      <4>2. seen[t][k] = fail_count[k] \/ state[k] # "row"
        BY <4>1
      <4>3. CASE k # j
        BY <2>5, <4>2, <4>3 DEF LogRun
      <4>4. CASE k = j
        <5>1. pc'[t] = "alert" /\ due'[t] = due[t]
          BY <2>5, <3>9, <4>4 DEF LogRun
        <5>2. QED BY <2>5, <4>4, <5>1 DEF LogRun, Logged, First
      <4>5. QED BY <4>3, <4>4
    <3>10. SeenIsCurrent'
      BY <3>6, <3>9
    <3>11. QED BY <3>3, <3>4, <3>8, <3>10
  <2>6. ASSUME NEW t \in Ticks, NEW j \in Jobs, NEW d \in BOOLEAN,
               AlertJobFailure(t, j, d)
        PROVE  SerialInv' /\ FailCountIsStreak'
    <3>1. \A k \in due'[t] : k \in due[t] /\ k # j
      BY <2>6 DEF AlertJobFailure
    <3>2. \A k \in due'[t] : ~Logged(t, k)
      BY <2>6, <3>1, FirstIsUnique DEF AlertJobFailure, Logged
    <3>3. \A k \in due'[t] :
             seen'[t][k] = fail_count'[k] \/ state'[k] # "row"
      BY <2>6, <3>1, <3>2 DEF AlertJobFailure
    <3>4. \A u \in Ticks : u # t => pc[u] = "idle" /\ due[u] = {}
      BY <2>6 DEF AlertJobFailure
    <3>5. \A u \in Ticks : u # t => pc'[u] = "idle" /\ due'[u] = {}
      BY <2>6, <3>4 DEF AlertJobFailure
    <3>6. SeenIsCurrent'
      BY <3>3, <3>5
    <3>7. OneTick' /\ IdleHasNothingDue' /\ DueJobsExist'
      BY <2>6, <3>1, <3>5 DEF AlertJobFailure
    <3>8. QED BY <2>6, <3>6, <3>7 DEF AlertJobFailure
  <2>7. ASSUME NEW t \in Ticks, Forget(t)
        PROVE  SerialInv' /\ FailCountIsStreak'
    BY <2>7 DEF Forget, Logged, First
  <2>8. CASE UNCHANGED vars
    BY <2>8 DEF vars, Logged, First
  <2>9. QED
    BY <2>1, <2>2, <2>3, <2>4, <2>5, <2>6, <2>7, <2>8
       DEF Next, TickStep, EndTick, AbortTick, Crash
<1>3. QED BY <1>1, <1>2, TypeCorrect, PTL DEF Spec

(***************************************************************************)
(* scheduling.py:310-311: with one tick at a time the failure count of     *)
(* every job is the number of errors that end its run log, whatever        *)
(* crashes, SQL errors and admins do.                                      *)
(***************************************************************************)
THEOREM SerialFailCount ==
    ASSUME Overlap = FALSE
    PROVE  Spec => []FailCountIsStreak
BY SerialInvariant, PTL

-----------------------------------------------------------------------------
(* A job's next run lies no earlier than the end of the period its last    *)
(* success was for, except between that success and its bookkeeping.       *)
Unbooked(t, j) == pc[t] = "ran" /\ First(t, j)

QuietUntilNextRun ==
    \A j \in Jobs \ lost :
        \/ state[j] # "row"
        \/ quietUntil[j] <= next_run_at[j]
        \/ \E t \in Ticks : Unbooked(t, j) /\ outcome[t] = "ok"

SnapshotIsQuiet ==
    \A t \in Ticks : \A j \in due[t] \ lost :
        \/ quietUntil[j] <= now[t]
        \/ Unbooked(t, j) /\ quietUntil[j] <= now[t] + Cadence[j]
        \/ Logged(t, j)

FreshJobsAreQuiet == \A j \in Jobs : state[j] = "none" => quietUntil[j] = 0

QuietInv == QuietUntilNextRun /\ SnapshotIsQuiet /\ FreshJobsAreQuiet

(***************************************************************************)
(* QuietInv is inductive when ticks do not overlap.                        *)
(***************************************************************************)
LEMMA QuietInvariant ==
    ASSUME Overlap = FALSE
    PROVE  Spec => []QuietInv
<1>1. Init => QuietInv
  BY DEF Init, QuietInv, QuietUntilNextRun, SnapshotIsQuiet,
         FreshJobsAreQuiet
<1>2. TypeOK /\ SerialInv /\ QuietInv /\ [Next]_vars => QuietInv'
  <2> SUFFICES ASSUME TypeOK, SerialInv, QuietInv, [Next]_vars
               PROVE  QuietInv'
    OBVIOUS
  <2> USE DEF TypeOK, QuietInv, QuietUntilNextRun, SnapshotIsQuiet,
              FreshJobsAreQuiet
  <2>1. CASE Admin
    <3> PICK j \in Jobs :
           \/ \E on \in BOOLEAN : CreateJob(j, on) \/ SetJobEnabled(j, on)
           \/ DeleteJob(j)
      BY <2>1 DEF Admin
    <3>1. ASSUME NEW on \in BOOLEAN, CreateJob(j, on) PROVE QuietInv'
      BY <3>1 DEF CreateJob, Logged, Unbooked, First
    <3>2. ASSUME NEW on \in BOOLEAN, SetJobEnabled(j, on) PROVE QuietInv'
      BY <3>2 DEF SetJobEnabled, Logged, Unbooked, First
    <3>3. CASE DeleteJob(j)
      BY <3>3 DEF DeleteJob, Logged, Unbooked, First
    <3>4. QED BY <3>1, <3>2, <3>3
  <2>2. CASE TimePasses
    BY <2>2 DEF TimePasses, Logged, Unbooked, First
  <2>3. ASSUME NEW t \in Ticks, BeginTick(t) PROVE QuietInv'
    <3>1. \A u \in Ticks : pc[u] = "idle" /\ due[u] = {}
      BY <2>3 DEF BeginTick, SerialInv, IdleHasNothingDue
    <3>2. \A j \in Jobs \ lost :
             state[j] = "row" => quietUntil[j] <= next_run_at[j]
      BY <3>1 DEF Unbooked
    <3>3. \A u \in Ticks : u # t => due'[u] = {}
      BY <2>3, <3>1 DEF BeginTick
    <3>4. \A j \in due'[t] \ lost : quietUntil'[j] <= now'[t]
      BY <2>3, <3>2 DEF BeginTick, Due
    <3>5. /\ lost' = lost /\ quietUntil' = quietUntil
          /\ state' = state /\ next_run_at' = next_run_at
      BY <2>3 DEF BeginTick
    <3>6. SnapshotIsQuiet'
      BY <3>3, <3>4, <3>5
    <3>7. QED BY <3>2, <3>5, <3>6
  <2>4. ASSUME NEW t \in Ticks, NEW j \in Jobs, NEW o \in Outcomes,
               RunJob(t, j, o)
        PROVE  QuietInv'
    <3>1. /\ pc[t] = "loop" /\ pc'[t] = "ran"
          /\ First(t, j) /\ First(t, j)' /\ j \in due[t]
          /\ state' = state /\ now' = now /\ due' = due
          /\ next_run_at' = next_run_at /\ lost' = lost
      BY <2>4 DEF RunJob, First
    <3>2. \A u \in Ticks : u # t => pc[u] = "idle" /\ due[u] = {}
      BY <3>1 DEF SerialInv, OneTick, IdleHasNothingDue
    <3>3. \A k \in due[t] \ lost : quietUntil[k] <= now[t]
      BY <3>1 DEF Unbooked, Logged
    <3>4. \A k \in Jobs : k # j => quietUntil'[k] = quietUntil[k]
      BY <2>4 DEF RunJob
    <3>5. j \notin lost => quietUntil'[j] <= now[t] + Cadence[j]
      BY <2>4, <3>1, <3>3, JobsAssumption DEF RunJob
    <3>6. Unbooked(t, j)'
      BY <3>1 DEF Unbooked
    <3>7. SnapshotIsQuiet'
      BY <3>1, <3>2, <3>3, <3>4, <3>5, <3>6
    <3>8. \A k \in Jobs \ lost :
             state[k] = "row" => quietUntil[k] <= next_run_at[k]
      BY <3>1, <3>2 DEF Unbooked
    <3>9. o = "ok" \/ quietUntil' = quietUntil
      BY <2>4 DEF RunJob
    <3>10. outcome'[t] = o
      BY <2>4 DEF RunJob
    <3>11. QuietUntilNextRun'
      BY <3>1, <3>4, <3>6, <3>8, <3>9, <3>10
    <3>12. state[j] # "none"
      BY <3>1 DEF SerialInv, DueJobsExist
    <3>13. QED BY <3>1, <3>4, <3>7, <3>11, <3>12
  <2>5. ASSUME NEW t \in Ticks, NEW j \in Jobs, LogRun(t, j) PROVE QuietInv'
    <3>1. /\ pc[t] = "ran" /\ First(t, j) /\ j \in due[t]
          /\ quietUntil' = quietUntil /\ state' = state /\ now' = now
          /\ lost' = lost
      BY <2>5 DEF LogRun, First
    <3>2. \A u \in Ticks : u # t => pc[u] = "idle" /\ due[u] = {}
      BY <3>1 DEF SerialInv, OneTick, IdleHasNothingDue
    <3>3. j \notin lost => quietUntil[j] <= now[t] + Cadence[j]
      BY <3>1, JobsAssumption DEF Logged
    <3>4. state[j] = "row" => next_run_at'[j] = now[t] + Cadence[j]
      BY <2>5 DEF LogRun, Advance
    <3>5. \A k \in Jobs : k # j => next_run_at'[k] = next_run_at[k]
      BY <2>5 DEF LogRun
    <3>6. \A k \in Jobs \ lost : k # j /\ state[k] = "row"
             => quietUntil[k] <= next_run_at[k]
      <4>1. ASSUME NEW k \in Jobs, k # j, NEW u \in Ticks PROVE ~Unbooked(u, k)
        <5>1. CASE u # t
          BY <3>2, <5>1 DEF Unbooked
        <5>2. ~First(t, k)
          BY <3>1, <4>1, FirstIsUnique
        <5>3. QED BY <5>1, <5>2 DEF Unbooked
      <4>2. QED BY <4>1
    <3>7. QuietUntilNextRun'
      BY <3>1, <3>3, <3>4, <3>5, <3>6
    <3>8. \A u \in Ticks : u # t => due'[u] = {}
      BY <2>5, <3>2 DEF LogRun
    <3>9. ASSUME NEW k \in due'[t] \ lost
          PROVE  quietUntil[k] <= now[t] \/ Logged(t, k)'
      <4>1. k \in due[t]
        BY <2>5, <3>9 DEF LogRun
      <4>2. CASE k # j
        BY <3>1, <4>1, <4>2, FirstIsUnique DEF Unbooked, Logged
      <4>3. CASE k = j
        <5>1. pc'[t] = "alert" /\ due' = due
          BY <2>5, <3>9, <4>3 DEF LogRun
        <5>2. QED BY <3>1, <4>3, <5>1 DEF Logged, First
      <4>4. QED BY <4>2, <4>3
    <3>10. SnapshotIsQuiet'
      BY <3>1, <3>8, <3>9
    <3>11. QED BY <3>1, <3>7, <3>10
  <2>6. ASSUME NEW t \in Ticks, NEW j \in Jobs, NEW d \in BOOLEAN,
               AlertJobFailure(t, j, d)
        PROVE  QuietInv'
    <3>1. /\ pc[t] = "alert" /\ First(t, j)
          /\ quietUntil' = quietUntil /\ state' = state /\ now' = now
          /\ next_run_at' = next_run_at /\ lost' = lost
      BY <2>6 DEF AlertJobFailure
    <3>2. \A u \in Ticks : u # t => pc[u] = "idle" /\ due[u] = {}
      BY <3>1 DEF SerialInv, OneTick, IdleHasNothingDue
    <3>3. \A k \in Jobs \ lost :
             state[k] = "row" => quietUntil[k] <= next_run_at[k]
      BY <3>1, <3>2 DEF Unbooked
    <3>4. \A k \in due'[t] : k \in due[t] /\ k # j
      BY <2>6 DEF AlertJobFailure
    <3>5. \A k \in due'[t] \ lost : quietUntil[k] <= now[t]
      BY <3>1, <3>4, FirstIsUnique DEF Unbooked, Logged
    <3>6. \A u \in Ticks : u # t => due'[u] = {}
      BY <2>6, <3>2 DEF AlertJobFailure
    <3>7. QED BY <3>1, <3>3, <3>5, <3>6
  <2>7. ASSUME NEW t \in Ticks, Forget(t), lost \subseteq lost',
               \A j \in Jobs : pc[t] = "ran" /\ First(t, j) /\ outcome[t] = "ok"
                                => j \in lost'
        PROVE  QuietInv'
    <3>1. /\ quietUntil' = quietUntil
          /\ state' = state /\ next_run_at' = next_run_at
          /\ due'[t] = {}
          /\ \A u \in Ticks : u # t =>
                /\ pc'[u] = pc[u] /\ due'[u] = due[u]
                /\ now'[u] = now[u] /\ outcome'[u] = outcome[u]
      BY <2>7 DEF Forget
    <3>2. ASSUME NEW j \in Jobs \ lost', state[j] = "row",
                 ~(quietUntil[j] <= next_run_at[j])
          PROVE  \E u \in Ticks : (Unbooked(u, j) /\ outcome[u] = "ok")'
      <4>1. PICK u \in Ticks : Unbooked(u, j) /\ outcome[u] = "ok"
        BY <2>7, <3>2
      <4>2. u # t
        BY <2>7, <4>1 DEF Unbooked
      <4>3. QED BY <3>1, <4>1, <4>2 DEF Unbooked, First
    <3>3. QuietUntilNextRun'
      BY <3>1, <3>2
    <3>4. ASSUME NEW u \in Ticks, NEW j \in due'[u] \ lost'
          PROVE  \/ quietUntil[j] <= now'[u]
                 \/ Unbooked(u, j)' /\ quietUntil[j] <= now'[u] + Cadence[j]
                 \/ Logged(u, j)'
      <4>1. u # t /\ j \in due[u] \ lost
        BY <2>7, <3>1
      <4>2. QED BY <3>1, <4>1 DEF Unbooked, Logged, First
    <3>5. QED BY <2>7, <3>1, <3>3, <3>4
  <2>8. CASE UNCHANGED vars
    BY <2>8 DEF vars, Logged, Unbooked, First
  <2>9. QED
    BY <2>1, <2>2, <2>3, <2>4, <2>5, <2>6, <2>7, <2>8
       DEF Next, TickStep, EndTick, AbortTick, Crash
<1>3. QED BY <1>1, <1>2, TypeCorrect, SerialInvariant, PTL DEF Spec

(***************************************************************************)
(* tests/test_scheduling.py:137: with one tick at a time, no job succeeds  *)
(* twice for the same period, unless the process died in between.          *)
(***************************************************************************)
THEOREM SerialOncePerPeriod ==
    ASSUME Overlap = FALSE
    PROVE  Spec => OncePerPeriod
<1>1. TypeOK /\ QuietInv
        => \A t \in Ticks, j \in Jobs \ lost :
              RunJob(t, j, "ok") => now[t] >= quietUntil[j]
  BY DEF TypeOK, QuietInv, SnapshotIsQuiet, RunJob, First, Unbooked, Logged
<1>2. QED BY <1>1, TypeCorrect, QuietInvariant, PTL DEF OncePerPeriod

-----------------------------------------------------------------------------
(* One alert per streak: the tick that brings the count to the threshold    *)
(* is the only one that alerts, and what it remembers of the count is the   *)
(* streak itself, for jobs deleted under it as well.                        *)
\* Alerts attempted in the present streak, heard or not.
Tried(j) == IF j \in unheard THEN alerts[j] + 1 ELSE alerts[j]

SeenIsStreak ==
    \A t \in Ticks : \A j \in due[t] : Logged(t, j) \/ seen[t][j] = streak[j]

PendingAlert ==
    \A t \in Ticks, j \in Jobs :
        Logged(t, j) => streak[j] = FAIL_ALERT_THRESHOLD /\ Tried(j) = 0

AlertsBounded ==
    \A j \in Jobs :
        Tried(j) <= 1 /\ (streak[j] < FAIL_ALERT_THRESHOLD => Tried(j) = 0)

AlertedOrPending ==
    \A j \in Jobs \ lost :
        streak[j] >= FAIL_ALERT_THRESHOLD
        => Tried(j) >= 1 \/ \E t \in Ticks : Logged(t, j)

AlertInv == SeenIsStreak /\ PendingAlert /\ AlertsBounded /\ AlertedOrPending

(***************************************************************************)
(* AlertInv is inductive when ticks do not overlap.                        *)
(***************************************************************************)
LEMMA AlertInvariant ==
    ASSUME Overlap = FALSE
    PROVE  Spec => []AlertInv
<1>1. Init => AlertInv
  BY DEF Init, AlertInv, SeenIsStreak, PendingAlert, AlertsBounded, AlertedOrPending,
         Tried, Logged, First, FAIL_ALERT_THRESHOLD
<1>2. TypeOK /\ SerialInv /\ FailCountIsStreak /\ AlertInv /\ [Next]_vars => AlertInv'
  <2> SUFFICES ASSUME TypeOK, SerialInv, FailCountIsStreak, AlertInv, [Next]_vars
               PROVE  AlertInv'
    OBVIOUS
  <2> USE DEF TypeOK, AlertInv, SeenIsStreak, PendingAlert, AlertsBounded,
              AlertedOrPending, FAIL_ALERT_THRESHOLD
  <2>1. CASE UNCHANGED <<logVars, lost, tickVars>>
    BY <2>1 DEF logVars, tickVars, Tried, Logged, First
  <2>2. ASSUME NEW t \in Ticks, BeginTick(t) PROVE AlertInv'
    <3>1. \A u \in Ticks : pc[u] = "idle" /\ due[u] = {}
      BY <2>2 DEF BeginTick, SerialInv, IdleHasNothingDue
    <3>2. /\ \A u \in Ticks : u # t => due'[u] = {}
          /\ \A u \in Ticks, j \in Jobs : ~Logged(u, j) /\ ~Logged(u, j)'
          /\ UNCHANGED <<streak, lost>> /\ \A j \in Jobs : Tried(j)' = Tried(j)
      BY <2>2, <3>1 DEF BeginTick, Tried, Logged, logVars, historyVars
    <3>3. \A j \in due'[t] : seen'[t][j] = streak'[j]
      BY <2>2 DEF BeginTick, Due, FailCountIsStreak, logVars
    <3>4. SeenIsStreak' /\ PendingAlert'
      BY <3>2, <3>3
    <3>5. AlertsBounded'
      BY <3>2
    <3>6. AlertedOrPending'
      BY <3>2
    <3>7. QED BY <3>4, <3>5, <3>6
  <2>3. ASSUME NEW t \in Ticks, NEW j \in Jobs, NEW o \in Outcomes, RunJob(t, j, o)
        PROVE  AlertInv'
    <3>1. \A u \in Ticks, k \in Jobs : Logged(u, k)' <=> Logged(u, k)
      BY <2>3 DEF RunJob, Logged, First
    <3>2. UNCHANGED <<streak, lost, due, seen>> /\ \A k \in Jobs : Tried(k)' = Tried(k)
      BY <2>3 DEF RunJob, Tried, logVars
    <3>3. QED BY <3>1, <3>2
  <2>4. ASSUME NEW t \in Ticks, NEW j \in Jobs, LogRun(t, j) PROVE AlertInv'
    <3>1. /\ j \in due[t] /\ pc[t] = "ran" /\ First(t, j)
          /\ seen[t][j] = streak[j]
      BY <2>4 DEF LogRun, First, Logged
    <3>2. /\ \A u \in Ticks : u # t => pc[u] = "idle" /\ due[u] = {}
          /\ \A u \in Ticks, k \in Jobs : ~Logged(u, k)
      <4>1. \A u \in Ticks : u # t => pc[u] = "idle" /\ due[u] = {}
        BY <3>1 DEF SerialInv, OneTick, IdleHasNothingDue
      <4>2. \A u \in Ticks : pc[u] # "alert"
        BY <3>1, <4>1
      <4>3. QED BY <4>1, <4>2 DEF Logged
    <3>3. /\ \A u \in Ticks : u # t => pc'[u] = "idle" /\ due'[u] = {}
          /\ UNCHANGED <<lost, seen>>
      BY <2>4, <3>2 DEF LogRun, historyVars
    <3>4. /\ streak' = [streak EXCEPT ![j] = IF outcome[t] = "error" THEN @ + 1 ELSE 0]
          /\ Tried(j)' = IF outcome[t] = "error" THEN Tried(j) ELSE 0
          /\ \A k \in Jobs : k # j => Tried(k)' = Tried(k)
      BY <2>4 DEF LogRun, Tried
    <3>5. NeedsAlert(t, j) <=> outcome[t] = "error" /\ streak[j] + 1 = FAIL_ALERT_THRESHOLD
      BY <3>1 DEF NeedsAlert, NewFailCount
    <3>6. CASE NeedsAlert(t, j)
      <4>1. pc'[t] = "alert" /\ due' = due
        BY <2>4, <3>6 DEF LogRun
      <4>2. \A u \in Ticks, k \in Jobs : Logged(u, k)' <=> u = t /\ k = j
        BY <3>1, <3>3, <4>1, FirstIsUnique, ZenonT(60) DEF Logged, First
      <4>3. streak'[j] = FAIL_ALERT_THRESHOLD /\ Tried(j)' = 0
        BY <3>4, <3>5, <3>6
      <4>4. \A k \in Jobs : k # j => streak'[k] = streak[k] /\ Tried(k)' = Tried(k)
        BY <3>4
      <4>5. SeenIsStreak'
        <5>1. \A k \in due[t] : k = j \/ seen'[t][k] = streak'[k]
          BY <3>2, <3>3, <4>4
        <5>2. QED BY <3>3, <4>1, <4>2, <5>1
      <4>6. PendingAlert'
        BY <4>2, <4>3
      <4>7. AlertsBounded'
        <5>1. ASSUME NEW k \in Jobs
              PROVE  Tried(k)' <= 1 /\ (streak'[k] < FAIL_ALERT_THRESHOLD => Tried(k)' = 0)
          BY <4>3, <4>4
        <5>2. QED BY <5>1
      <4>8. AlertedOrPending'
        <5>1. ASSUME NEW k \in Jobs \ lost', streak'[k] >= FAIL_ALERT_THRESHOLD, k # j
              PROVE  Tried(k)' >= 1
          BY <3>2, <3>3, <4>4, <5>1
        <5>2. QED BY <4>2, <5>1
      <4>9. QED BY <4>5, <4>6, <4>7, <4>8
    <3>7. CASE ~NeedsAlert(t, j)
      <4>1. pc'[t] = "loop" /\ due' = [due EXCEPT ![t] = @ \ {j}]
        BY <2>4, <3>7 DEF LogRun
      <4>2. \A u \in Ticks, k \in Jobs : ~Logged(u, k)'
        BY <3>3, <4>1 DEF Logged
      <4>3. \A k \in Jobs : k # j => streak'[k] = streak[k] /\ Tried(k)' = Tried(k)
        BY <3>4
      <4>4. /\ Tried(j)' <= 1
            /\ streak'[j] < FAIL_ALERT_THRESHOLD => Tried(j)' = 0
            /\ j \notin lost /\ streak'[j] >= FAIL_ALERT_THRESHOLD => Tried(j)' >= 1
        <5>1. CASE outcome[t] = "error"
          <6>1. streak'[j] = streak[j] + 1 /\ Tried(j)' = Tried(j)
            BY <3>4, <5>1
          <6>2. streak[j] + 1 # 3
            BY <3>5, <3>7, <5>1
          <6>3. streak[j] \in Nat /\ Tried(j) \in Nat
            BY DEF Tried
          <6>4. /\ Tried(j) <= 1 /\ (streak[j] < 3 => Tried(j) = 0)
                /\ j \notin lost /\ streak[j] >= 3 => Tried(j) >= 1
            <7>1. Tried(j) <= 1 /\ (streak[j] < 3 => Tried(j) = 0)
              OBVIOUS
            <7>2. ASSUME j \notin lost, streak[j] >= 3 PROVE Tried(j) >= 1
              <8>1. j \in Jobs \ lost
                BY <7>2
              <8>2. Tried(j) >= 1 \/ \E u \in Ticks : Logged(u, j)
                BY <7>2, <8>1
              <8>3. QED BY <3>2, <8>2
            <7>3. QED BY <7>1, <7>2
          <6>5. \A n, a \in Nat :
                    /\ a <= 1 /\ (n < 3 => a = 0) /\ n + 1 # 3
                    => (n + 1 < 3 => a = 0) /\ (n + 1 >= 3 => n >= 3)
            OBVIOUS
          <6>6. streak[j] + 1 < 3 => Tried(j) = 0
            BY <6>2, <6>3, <6>4, <6>5
          <6>7. j \notin lost /\ streak[j] + 1 >= 3 => Tried(j) >= 1
            BY <6>2, <6>3, <6>4, <6>5
          <6>8. QED BY <6>1, <6>4, <6>6, <6>7
        <5>2. CASE outcome[t] # "error"
          BY <3>4, <5>2
        <5>3. QED BY <5>1, <5>2
      <4>5. \A u \in Ticks : \A k \in due'[u] : seen'[u][k] = streak'[k]
        <5>1. \A k \in due'[t] : k \in due[t] /\ k # j /\ k \in Jobs
          BY <4>1
        <5>2. \A k \in due'[t] : seen'[t][k] = streak'[k]
          BY <3>2, <3>3, <4>3, <5>1
        <5>3. QED BY <3>3, <5>2
      <4>6. AlertsBounded'
        <5>1. ASSUME NEW k \in Jobs
              PROVE  Tried(k)' <= 1 /\ (streak'[k] < FAIL_ALERT_THRESHOLD => Tried(k)' = 0)
          BY <4>3, <4>4
        <5>2. QED BY <5>1
      <4>7. AlertedOrPending'
        <5>1. ASSUME NEW k \in Jobs \ lost', streak'[k] >= FAIL_ALERT_THRESHOLD
              PROVE  Tried(k)' >= 1
          BY <3>2, <3>3, <4>3, <4>4, <5>1
        <5>2. QED BY <5>1
      <4>8. QED BY <4>2, <4>5, <4>6, <4>7
    <3>8. QED BY <3>6, <3>7
  <2>5. ASSUME NEW t \in Ticks, NEW j \in Jobs, NEW d \in BOOLEAN,
               AlertJobFailure(t, j, d)
        PROVE  AlertInv'
    <3>1. /\ Logged(t, j) /\ j \in due[t]
          /\ \A u \in Ticks : u # t => pc[u] = "idle" /\ due[u] = {}
      BY <2>5 DEF AlertJobFailure, Logged, First, SerialInv, OneTick, IdleHasNothingDue
    <3>2. \A k \in Jobs : Logged(t, k) => k = j
      BY <3>1, FirstIsUnique DEF Logged
    <3>3. /\ pc'[t] = "loop" /\ due' = [due EXCEPT ![t] = @ \ {j}]
          /\ \A u \in Ticks : u # t => pc'[u] = "idle"
          /\ UNCHANGED <<streak, lost, seen>>
      BY <2>5, <3>1 DEF AlertJobFailure, historyVars
    <3>4. /\ Tried(j)' = 1 /\ streak'[j] = FAIL_ALERT_THRESHOLD
          /\ \A k \in Jobs : k # j => Tried(k)' = Tried(k) /\ streak'[k] = streak[k]
      <4>1. Tried(j) = 0 /\ streak[j] = FAIL_ALERT_THRESHOLD
        BY <3>1
      <4>2. Tried(j)' = 1 /\ \A k \in Jobs : k # j => Tried(k)' = Tried(k)
        <5>1. CASE d
          BY <2>5, <4>1, <5>1 DEF AlertJobFailure, Tried
        <5>2. CASE ~d
          BY <2>5, <4>1, <5>2 DEF AlertJobFailure, Tried
        <5>3. QED BY <5>1, <5>2
      <4>3. QED BY <3>3, <4>1, <4>2
    <3>5. \A u \in Ticks, k \in Jobs : ~Logged(u, k)'
      BY <3>3 DEF Logged
    <3>6. \A u \in Ticks, k \in Jobs : k # j => ~Logged(u, k)
      BY <3>1, <3>2 DEF Logged
    <3>7. \A u \in Ticks : \A k \in due'[u] : seen'[u][k] = streak'[k]
      <4>1. \A k \in due'[t] : k \in due[t] /\ k # j /\ k \in Jobs
        BY <3>3
      <4>2. \A k \in due'[t] : seen'[t][k] = streak'[k]
        BY <3>3, <3>6, <4>1
      <4>3. \A u \in Ticks : u # t => due'[u] = {}
        BY <3>1, <3>3
      <4>4. QED BY <4>2, <4>3
    <3>8. AlertsBounded'
      <4>1. ASSUME NEW k \in Jobs
            PROVE  Tried(k)' <= 1 /\ (streak'[k] < FAIL_ALERT_THRESHOLD => Tried(k)' = 0)
        BY <3>4
      <4>2. QED BY <4>1
    <3>9. AlertedOrPending'
      <4>1. ASSUME NEW k \in Jobs \ lost', streak'[k] >= FAIL_ALERT_THRESHOLD
            PROVE  Tried(k)' >= 1
        <5>1. CASE k = j
          BY <3>4, <5>1
        <5>2. CASE k # j
          <6>1. k \in Jobs \ lost /\ \A u \in Ticks : ~Logged(u, k)
            BY <3>3, <3>6, <5>2
          <6>2. streak[k] >= FAIL_ALERT_THRESHOLD /\ Tried(k)' = Tried(k)
            BY <3>4, <4>1, <5>2
          <6>3. QED BY <6>1, <6>2
        <5>3. QED BY <5>1, <5>2
      <4>2. QED BY <4>1
    <3>10. QED BY <3>5, <3>7, <3>8, <3>9
  <2>6. ASSUME NEW t \in Ticks, Forget(t), lost \subseteq lost',
               \A j \in Jobs : Logged(t, j) => j \in lost'
        PROVE  AlertInv'
    <3>1. /\ UNCHANGED streak /\ (\A k \in Jobs : Tried(k)' = Tried(k))
          /\ pc'[t] = "idle" /\ due'[t] = {}
          /\ \A u \in Ticks : u # t =>
                pc'[u] = pc[u] /\ due'[u] = due[u] /\ seen'[u] = seen[u]
      BY <2>6 DEF Forget, Tried, logVars
    <3>2. \A u \in Ticks, j \in Jobs : Logged(u, j)' <=> u # t /\ Logged(u, j)
      BY <3>1 DEF Logged, First
    <3>3. SeenIsStreak'
      <4>1. ASSUME NEW u \in Ticks, NEW k \in due'[u]
            PROVE  Logged(u, k)' \/ seen'[u][k] = streak'[k]
        BY <3>1, <3>2, <4>1
      <4>2. QED BY <4>1
    <3>4. PendingAlert' /\ AlertsBounded'
      BY <3>1, <3>2
    <3>5. AlertedOrPending'
      <4>1. ASSUME NEW k \in Jobs \ lost', streak'[k] >= FAIL_ALERT_THRESHOLD
            PROVE  Tried(k)' >= 1 \/ \E u \in Ticks : Logged(u, k)'
        <5>1. k \in Jobs \ lost /\ ~Logged(t, k)
          BY <2>6
        <5>2. QED BY <3>1, <3>2, <4>1, <5>1
      <4>2. QED BY <4>1
    <3>6. QED BY <3>3, <3>4, <3>5
  <2>7. QED
    <3>1. ASSUME NEW t \in Ticks, EndTick(t) \/ AbortTick(t) \/ Crash(t) PROVE AlertInv'
      BY <2>6, <3>1 DEF EndTick, AbortTick, Crash, Logged
    <3>2. CASE Admin \/ TimePasses \/ UNCHANGED vars
      BY <2>1, <3>2
         DEF Admin, CreateJob, SetJobEnabled, DeleteJob, TimePasses, vars, historyVars
    <3>3. QED BY <2>2, <2>3, <2>4, <2>5, <3>1, <3>2 DEF Next, TickStep
<1>3. QED BY <1>1, <1>2, TypeCorrect, SerialInvariant, PTL DEF Spec

(***************************************************************************)
(* With one tick at a time no streak of failures is alerted of twice.      *)
(***************************************************************************)
THEOREM SerialOneAlert ==
    ASSUME Overlap = FALSE
    PROVE  Spec => []AtMostOneAlert
<1>1. TypeOK /\ AlertInv => AtMostOneAlert
  <2> SUFFICES ASSUME TypeOK, AlertInv, NEW j \in Jobs
               PROVE  alerts[j] <= 1 /\ (j \in unheard => alerts[j] = 0)
    BY DEF AtMostOneAlert
  <2>1. Tried(j) <= 1 /\ alerts[j] \in Nat
    BY DEF AlertInv, AlertsBounded, TypeOK
  <2>2. QED BY <2>1 DEF Tried
<1>2. QED BY <1>1, AlertInvariant, TypeCorrect, PTL

(***************************************************************************)
(* scheduling.py:19: with one tick at a time the operator hears of every   *)
(* job whose last three logged runs failed, unless the process died on the *)
(* way to telling him or the delivery of that one alert failed.            *)
(***************************************************************************)
THEOREM SerialAlerts ==
    ASSUME Overlap = FALSE
    PROVE  Spec => []AlertedAfterThreshold
<1>1. TypeOK /\ AlertInv => AlertedAfterThreshold
  <2> SUFFICES ASSUME TypeOK, AlertInv, NEW j \in Jobs \ (lost \cup unheard),
                      streak[j] >= FAIL_ALERT_THRESHOLD,
                      \A t \in Ticks : pc[t] = "idle"
               PROVE  alerts[j] >= 1
    BY DEF AlertedAfterThreshold
  <2>1. Tried(j) >= 1
    BY DEF AlertInv, AlertedOrPending, Logged
  <2>2. QED BY <2>1 DEF Tried
<1>2. QED BY <1>1, AlertInvariant, TypeCorrect, PTL

=============================================================================
