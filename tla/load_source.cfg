SPECIFICATION LoadFairSpec
CONSTANTS
  Quiet = {}
  Debounce = TRUE
  Readings = {"idle", "loaded", "between"}
  MaxMoves = 3
  MaxQueue = 1
  MaxAttempts = 2
  MaxFailures = 1
INVARIANT LoadSafety
PROPERTIES MessagesFormAChain SilenceIsExplained SettledIsAnnounced
CHECK_DEADLOCK FALSE
