SPECIFICATION Spec
CONSTANTS
    Kinds = {"worker", "export", "alert", "maintenance", "retention"}
    Starters = {"s1", "s2"}
    Quiescers = {"q1"}
    Stoppers = {"p1", "p2"}
    EarlyStop = TRUE
    Deadlines = TRUE
INVARIANTS
    RuntimesOrderly
CHECK_DEADLOCK FALSE
