SPECIFICATION FairSpec
CONSTANTS
  Conn = {genwatch, console}
  GenWatch = {genwatch, console}
  NoConn = NoConn
  AssumedModes = {"auto", "manual"}
  Timeout = 1
  MaxTries = 2
  Slot = {s1}
INVARIANT RelaySafety
PROPERTIES HungCommanderIsReleased ReadBackFollowsRelay
CHECK_DEADLOCK FALSE
