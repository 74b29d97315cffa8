\* One tick at a time; processes may die and SQL errors abort a tick.
SPECIFICATION Spec
CONSTANTS
    Jobs <- MCJobs
    Cadence <- MCCadence
    Ticks = {t1}
    MaxTime = 3
    MaxStreak = 4
    Overlap = FALSE
    Crashes = TRUE
    Postgres = TRUE
INVARIANTS FailCountIsStreak AtMostOneAlert AlertedAfterThreshold
PROPERTIES OncePerPeriod
