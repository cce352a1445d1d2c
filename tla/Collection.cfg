SPECIFICATION MCSpec
CONSTANTS
    Site = {s1}
    Run = {r1, r2}
    MaxHour = 3
    TaskTypes = {"usage_hour", "usage_backfill", "realtime_stat"}
    MaxAttempts <- TwoAttempts
    MaxWindow = 2
    BackfillConcurrency = 2
    MaxClaims = 2
    MaxVersion = 2
    MaxCrashes = 1
INVARIANTS
    TypeOK
    FenceHolds
    NoOverlap
    OneRunningPerTask
    MaterializationStable
    ParentMatchesWindows
    OwnerHoldsItsWindows
PROPERTIES
    TerminalFrozen
    FactsFenced
    FreshLeaseProtects
    SuccessMeansCollected
    ImplementsLeases
CHECK_DEADLOCK FALSE
SYMMETRY Symmetry
