\* The pinger keeps calling, one tick at a time, and no process dies.
SPECIFICATION FairSpec
CONSTANTS
    Jobs <- MCJobs
    Cadence <- MCCadence
    Ticks = {t1}
    MaxTime = 2
    MaxStreak = 4
    Overlap = FALSE
    Crashes = FALSE
    Postgres = FALSE
PROPERTIES DueJobIsRun
