SPECIFICATION MCSpec
PROPERTIES
    Converges
    Settles
CHECK_DEADLOCK FALSE
