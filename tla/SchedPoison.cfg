\* A SQL error in one job under Postgres ends the tick.
SPECIFICATION Spec
CONSTANTS
    Jobs <- MCJobs
    Cadence <- MCCadence
    Ticks = {t1}
    MaxTime = 1
    MaxStreak = 4
    Overlap = FALSE
    Crashes = FALSE
    Postgres = TRUE
PROPERTIES TickHandlesEveryDueJob
