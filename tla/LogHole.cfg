SPECIFICATION Spec
CONSTANTS
  MaxHour = 12
  FirstHour = 7
  StartHour = 1
  Recent = 2
  Span = 2
  MaxWindows = 1
  Retention = 7
  Twins = {}
  MaxConfig = 2
  MaxFails = 1
INVARIANT NoHoles
CHECK_DEADLOCK FALSE
