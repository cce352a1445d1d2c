SPECIFICATION MCSpec
CONSTANTS
    Event = {e1}
    TestIds = {t1}
    MaxAttempts = 2
    MaxToggles = 1
    MaxCrashes = 1
INVARIANTS
    RunnerKeepsItsClaim
    MessagesInOrder
    DiagnosisSound
    FilesMatchRows
PROPERTIES
    SettledFrozen
    
    ScanSettles
CHECK_DEADLOCK FALSE
