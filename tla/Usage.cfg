SPECIFICATION MCSpec
CONSTANTS
    MaxHour = 3
    Concurrency = 2
    MaxCommits = 5
INVARIANTS
    NeverSkipsUncollected
    TablesExact
    PausesExact
    LogWhole
    CopiesAreTrue
    StatusIsEarned
PROPERTIES
    NothingGoesBack
CHECK_DEADLOCK FALSE
