----------------------------- MODULE Scheduler ------------------------------
(***************************************************************************)
(* Scheduled jobs (app/scheduling.py).  An external pinger calls           *)
(* POST /internal/scheduler/tick; each call reads the job table once and   *)
(* then walks the due jobs in id order: run the job, log the run together  *)
(* with the job's next run time and failure count, alert the operator on   *)
(* the third failure in a row.  Admins create, disable and delete jobs     *)
(* meanwhile, and a second tick may start before the first has ended.      *)
(*                                                                         *)
(* A job's kind is abstracted to how its run ends.  "poisoned" is a run    *)
(* that failed on a SQL error under Postgres: run_due_jobs catches it but  *)
(* does not roll back, so the statement that would log it fails too and    *)
(* leaves the tick; such a failure is neither logged nor counted.  An      *)
(* alert may reach nobody: _alert_job_failure drops every exception and    *)
(* no later failure of the streak tries again.                             *)
(***************************************************************************)
EXTENDS Naturals

CONSTANTS
    Jobs,       \* job ids; the table is walked in their order
    Ticks,      \* requests that may be inside run_due_jobs
    Cadence,    \* Cadence[j]: clock units between two runs of j
    MaxTime,    \* bound: the clock stops here
    MaxStreak,  \* bound: failures in a row of one job
    Overlap,    \* TRUE: a tick may start while another one runs
    Crashes,    \* TRUE: the process may die inside a tick
    Postgres    \* TRUE: a SQL error aborts the open transaction

ASSUME JobsAssumption ==
    /\ Jobs \subseteq Nat
    /\ Cadence \in [Jobs -> Nat \ {0}]
    /\ MaxTime \in Nat /\ MaxStreak \in Nat
    /\ {Overlap, Crashes, Postgres} \subseteq BOOLEAN

FAIL_ALERT_THRESHOLD == 3

Outcomes == {"ok", "skipped", "error", "poisoned"}

VARIABLES
    clock,         \* wall time
    state,         \* "none", then "row" in scheduled_jobs, then "deleted"
    enabled, next_run_at, fail_count,   \* columns of scheduled_jobs
    streak,        \* error rows that end the job's scheduler_runs log
    alerts,        \* alerts that reached the operator in the present streak
    unheard,       \* jobs whose alert of the present streak was not delivered
    quietUntil,    \* history: end of the period the last success was for
    lost,          \* history: jobs whose bookkeeping a crash cut off
    pc,            \* where tick t is
    now,           \* tick t's clock reading, taken once
    due,           \* jobs tick t still has to run, from its snapshot
    seen,          \* fail_count as tick t's snapshot has it
    outcome        \* how tick t's present job ended

jobVars == <<state, enabled, next_run_at, fail_count>>
logVars == <<streak, alerts, unheard>>
tickVars == <<pc, now, due, seen, outcome>>
historyVars == <<quietUntil, lost>>
vars == <<clock, jobVars, logVars, historyVars, tickVars>>

Init ==
    /\ clock = 0
    /\ state = [j \in Jobs |-> "none"]
    /\ enabled = [j \in Jobs |-> FALSE]
    /\ next_run_at = [j \in Jobs |-> 0]
    /\ fail_count = [j \in Jobs |-> 0]
    /\ streak = [j \in Jobs |-> 0]
    /\ alerts = [j \in Jobs |-> 0]
    /\ unheard = {}
    /\ quietUntil = [j \in Jobs |-> 0]
    /\ lost = {}
    /\ pc = [t \in Ticks |-> "idle"]
    /\ now = [t \in Ticks |-> 0]
    /\ due = [t \in Ticks |-> {}]
    /\ seen = [t \in Ticks |-> [j \in Jobs |-> 0]]
    /\ outcome = [t \in Ticks |-> "ok"]

-----------------------------------------------------------------------------
(* The admin endpoints and the clock.                                      *)

CreateJob(j, on) ==
    /\ state[j] = "none"
    /\ state' = [state EXCEPT ![j] = "row"]
    /\ enabled' = [enabled EXCEPT ![j] = on]
    /\ next_run_at' = [next_run_at EXCEPT ![j] = clock]
    /\ UNCHANGED <<clock, fail_count, logVars, historyVars, tickVars>>

SetJobEnabled(j, on) ==
    /\ state[j] = "row"
    /\ enabled' = [enabled EXCEPT ![j] = on]
    /\ UNCHANGED <<clock, state, next_run_at, fail_count, logVars,
                   historyVars, tickVars>>

DeleteJob(j) ==
    /\ state[j] = "row"
    /\ state' = [state EXCEPT ![j] = "deleted"]
    /\ UNCHANGED <<clock, enabled, next_run_at, fail_count, logVars,
                   historyVars, tickVars>>

TimePasses ==
    /\ clock < MaxTime
    /\ clock' = clock + 1
    /\ UNCHANGED <<jobVars, logVars, historyVars, tickVars>>

-----------------------------------------------------------------------------
(* run_due_jobs.                                                           *)

Due(j, time) == state[j] = "row" /\ enabled[j] /\ next_run_at[j] <= time

BeginTick(t) ==
    /\ pc[t] = "idle"
    /\ Overlap \/ \A u \in Ticks : pc[u] = "idle"
    /\ pc' = [pc EXCEPT ![t] = "loop"]
    /\ now' = [now EXCEPT ![t] = clock]
    /\ due' = [due EXCEPT ![t] = {j \in Jobs : Due(j, clock)}]
    /\ seen' = [seen EXCEPT ![t] = fail_count]
    /\ UNCHANGED <<clock, jobVars, logVars, historyVars, outcome>>

First(t, j) == j \in due[t] /\ \A k \in due[t] : j <= k

CanEnd(j, o) ==
    /\ o = "error" => streak[j] < MaxStreak
    /\ o = "poisoned" => Postgres

\* The job's own work, with its deliveries, up to the return or the except.
RunJob(t, j, o) ==
    /\ pc[t] = "loop"
    /\ First(t, j)
    /\ CanEnd(j, o)
    /\ pc' = [pc EXCEPT ![t] = "ran"]
    /\ outcome' = [outcome EXCEPT ![t] = o]
    /\ quietUntil' = IF o = "ok"
                     THEN [quietUntil EXCEPT ![j] = now[t] + Cadence[j]]
                     ELSE quietUntil
    /\ UNCHANGED <<clock, jobVars, logVars, lost, now, due, seen>>

\* A failure count that only a success resets.
StickyFailCount(t, j) ==
    CASE outcome[t] = "error"   -> seen[t][j] + 1
      [] outcome[t] = "skipped" -> seen[t][j]
      [] OTHER                  -> 0

NewFailCount(t, j) == IF outcome[t] = "error" THEN seen[t][j] + 1 ELSE 0

\* An alert on every failure from the threshold on.
AlertFromThreshold(t, j) ==
    outcome[t] = "error" /\ NewFailCount(t, j) >= FAIL_ALERT_THRESHOLD

\* An alert one failure late.
AlertPastThreshold(t, j) ==
    outcome[t] = "error" /\ NewFailCount(t, j) = FAIL_ALERT_THRESHOLD + 1

NeedsAlert(t, j) ==
    outcome[t] = "error" /\ NewFailCount(t, j) = FAIL_ALERT_THRESHOLD

\* A next run time computed from the due time instead of the tick's clock.
AdvanceFromDue(t, j) == next_run_at[j]

Advance(t, j) == now[t] + Cadence[j]

LogRun(t, j) ==
    /\ pc[t] = "ran"
    /\ First(t, j)
    /\ outcome[t] # "poisoned"
    /\ IF state[j] = "row"
       THEN /\ next_run_at' = [next_run_at EXCEPT ![j] = Advance(t, j)]
            /\ fail_count' = [fail_count EXCEPT ![j] = NewFailCount(t, j)]
       ELSE UNCHANGED <<next_run_at, fail_count>>
    /\ IF outcome[t] = "error"
       THEN /\ streak' = [streak EXCEPT ![j] = @ + 1]
            /\ UNCHANGED <<alerts, unheard>>
       ELSE /\ streak' = [streak EXCEPT ![j] = 0]
            /\ alerts' = [alerts EXCEPT ![j] = 0]
            /\ unheard' = unheard \ {j}
    /\ IF NeedsAlert(t, j)
       THEN /\ pc' = [pc EXCEPT ![t] = "alert"]
            /\ UNCHANGED due
       ELSE /\ pc' = [pc EXCEPT ![t] = "loop"]
            /\ due' = [due EXCEPT ![t] = @ \ {j}]
    /\ outcome' = [outcome EXCEPT ![t] = "ok"]
    /\ UNCHANGED <<clock, state, enabled, historyVars, now, seen>>

\* delivered: some configured channel took the alert.  deliver() only lists the
\* channels that failed, nobody reads the list, and what it raises is dropped.
AlertJobFailure(t, j, delivered) ==
    /\ pc[t] = "alert"
    /\ First(t, j)
    /\ IF delivered
       THEN /\ alerts' = [alerts EXCEPT ![j] = @ + 1]
            /\ UNCHANGED unheard
       ELSE /\ unheard' = unheard \cup {j}
            /\ UNCHANGED alerts
    /\ pc' = [pc EXCEPT ![t] = "loop"]
    /\ due' = [due EXCEPT ![t] = @ \ {j}]
    /\ UNCHANGED <<clock, jobVars, streak, historyVars, now, seen, outcome>>

\* The tick returns or is killed: its locals are gone.
Forget(t) ==
    /\ pc' = [pc EXCEPT ![t] = "idle"]
    /\ now' = [now EXCEPT ![t] = 0]
    /\ due' = [due EXCEPT ![t] = {}]
    /\ seen' = [seen EXCEPT ![t] = [j \in Jobs |-> 0]]
    /\ outcome' = [outcome EXCEPT ![t] = "ok"]
    /\ UNCHANGED <<clock, jobVars, logVars, quietUntil>>

EndTick(t) ==
    /\ pc[t] = "loop"
    /\ due[t] = {}
    /\ Forget(t)
    /\ UNCHANGED lost

\* The tick dies on the statement that should have logged the poisoned run.
AbortTick(t) ==
    /\ pc[t] = "ran"
    /\ outcome[t] = "poisoned"
    /\ Forget(t)
    /\ UNCHANGED lost

Crash(t) ==
    /\ Crashes
    /\ pc[t] # "idle"
    /\ lost' = lost \cup {j \in Jobs : pc[t] \in {"ran", "alert"} /\ First(t, j)}
    /\ Forget(t)

TickStep(t) ==
    \/ BeginTick(t)
    \/ \E j \in Jobs :
          \/ \E o \in Outcomes : RunJob(t, j, o)
          \/ LogRun(t, j)
          \/ \E delivered \in BOOLEAN : AlertJobFailure(t, j, delivered)
    \/ EndTick(t)
    \/ AbortTick(t)

Admin ==
    \E j \in Jobs :
        \/ \E on \in BOOLEAN : CreateJob(j, on) \/ SetJobEnabled(j, on)
        \/ DeleteJob(j)

Next ==
    \/ Admin
    \/ TimePasses
    \/ \E t \in Ticks : TickStep(t) \/ Crash(t)

Spec == Init /\ [][Next]_vars

\* The pinger keeps calling and a tick that is not killed runs to its end.
Fairness == \A t \in Ticks : WF_vars(TickStep(t))

FairSpec == Spec /\ Fairness

-----------------------------------------------------------------------------
(* Properties.                                                             *)

\* Type invariant of the job table, the run log and the ticks' locals.
TypeOK ==
    /\ clock \in 0 .. MaxTime
    /\ state \in [Jobs -> {"none", "row", "deleted"}]
    /\ enabled \in [Jobs -> BOOLEAN]
    /\ next_run_at \in [Jobs -> Nat]
    /\ fail_count \in [Jobs -> Nat]
    /\ streak \in [Jobs -> Nat]
    /\ alerts \in [Jobs -> Nat]
    /\ unheard \subseteq Jobs
    /\ quietUntil \in [Jobs -> Nat]
    /\ lost \subseteq Jobs
    /\ pc \in [Ticks -> {"idle", "loop", "ran", "alert"}]
    /\ now \in [Ticks -> 0 .. MaxTime]
    /\ due \in [Ticks -> SUBSET Jobs]
    /\ seen \in [Ticks -> [Jobs -> Nat]]
    /\ outcome \in [Ticks -> Outcomes]

\* scheduling.py:310-311 "tracks ... consecutive failures": the stored
\* failure count is the number of errors that end the job's run log.
FailCountIsStreak ==
    \A j \in Jobs : state[j] = "row" => fail_count[j] = streak[j]

\* scheduling.py:360: one alert is attempted per streak of failures, whatever
\* its length: the operator hears of it once, or never if that one failed.
AtMostOneAlert ==
    \A j \in Jobs : alerts[j] <= 1 /\ (j \in unheard => alerts[j] = 0)

\* scheduling.py:19 "After this many consecutive failures, alert the
\* operator": when no tick is running, the operator was told of every job whose
\* last three logged runs failed, unless the process died before it could or
\* the delivery failed (no later failure of the streak tries again).
AlertedAfterThreshold ==
    \A j \in Jobs \ (lost \cup unheard) :
        /\ state[j] = "row"
        /\ streak[j] >= FAIL_ALERT_THRESHOLD
        /\ \A t \in Ticks : pc[t] = "idle"
        => alerts[j] >= 1

\* tests/test_scheduling.py:137 "After running, next_run_at advanced so a
\* second tick does nothing": no job succeeds twice for the same period,
\* unless the process died between its success and the bookkeeping.
OncePerPeriod ==
    [][\A t \in Ticks, j \in Jobs \ lost :
          RunJob(t, j, "ok") => now[t] >= quietUntil[j]]_vars

\* scheduling.py:341 "one job's failure must not abort the tick": a tick that
\* returns to its caller has handled every job of its snapshot.
TickHandlesEveryDueJob ==
    [][\A t \in Ticks :
          pc[t] # "idle" /\ pc'[t] = "idle" /\ ~Crash(t) => due[t] = {}]_vars

\* An enabled job that is due is run and rescheduled, unless an admin
\* disables or deletes it first; a failing job in front does not starve it.
DueJobIsRun ==
    \A j \in Jobs : Due(j, clock) ~> ~Due(j, clock)

=============================================================================
