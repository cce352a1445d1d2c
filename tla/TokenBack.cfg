SPECIFICATION Spec
CONSTANTS
    User = {u1, u2}
    Bootstrap = u1
    Process = {p1}
    Client = {c1, c2}
    Password = {w1, w2}
    Limit = 1
    Window = 1
    Block = 2
    MaxAge = 2
    MaxTime = 1
    MaxRequests = 3
PROPERTIES
    TokenAdvances
CHECK_DEADLOCK FALSE
