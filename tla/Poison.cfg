SPECIFICATION MCSpec
CONSTANTS
    Site = {s1}
    Run = {r1, r2}
    MaxHour = 3
    TaskTypes = {"usage_backfill", "site_probe", "realtime_stat"}
    MaxAttempts <- TwoAttempts
    MaxWindow = 1
    BackfillConcurrency = 1
    MaxClaims = 1
    MaxVersion = 1
    MaxCrashes = 0
INVARIANTS
    NoPoisonRun
CHECK_DEADLOCK FALSE
