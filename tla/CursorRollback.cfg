SPECIFICATION Spec
CONSTANTS
    MaxHour = 3
    Concurrency = 1
    MaxCommits = 3
INVARIANTS CursorBehindMissing
