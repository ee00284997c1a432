SPECIFICATION FairSpec
CONSTANTS
  Code = {"PHASE_ROTATION", "COMMON_ALARM"}
  Numeric = {"RANGE_OIL"}
  MinPoll <- MCMinPoll
  Suppress <- MCSuppress
  RangePolls = 2
  DisagreePolls = 2
  States = {"running", "cooling"}
  MaxEvents = 2
INVARIANT AlarmSafety
PROPERTIES AlarmsAreEarned PersistentAlarmIsShown SettledAlarmIsDropped
CHECK_DEADLOCK FALSE
