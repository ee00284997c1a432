SPECIFICATION Spec
CONSTANTS
  Minute = 1
  Hour = 4
  Period = 1
  KeepRaw = 12
  Keep1m = 16
  Keep1h = 0
  MaxTime = 13
INVARIANT HourlyRowIsWhole
CHECK_DEADLOCK FALSE
