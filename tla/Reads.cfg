SPECIFICATION MCSpec
CONSTANTS
    User = {"u1", "u2"}
    Bootstrap = "u1"
    Process = {"p1", "p2"}
    Client = {"c1", "c2"}
    Password = {"w1", "w2"}
    Limit = 1
    Window = 1
    Block = 2
    MaxAge = 2
    MaxTime = 2
    MaxRequests = 2
INVARIANTS
    AdminRemains
    SessionsCurrent
    TriesBounded
    ExportAgrees
    CacheSound
    FiguresHonest
CHECK_DEADLOCK FALSE
