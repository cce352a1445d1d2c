SPECIFICATION MCSpec
CONSTANTS
    Runners = {"old", "new", "edited"}
    Count = 2
    Sums = {"a", "b", "c", "d"}
    Absent = "absent"
    Repository <- MCRepository
    Statements <- MCStatements
    ReleasedAs <- MCReleased
    MaxAborts = 4
INVARIANTS
    MigratedExactly
    OnceEach
    DispatcherSound
    MaintenanceIsTrue
PROPERTIES
    StartsAreCurrent
CHECK_DEADLOCK FALSE
