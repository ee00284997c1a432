SPECIFICATION FairSpec
CONSTANTS
  Threshold = 2
  Base = 2
  Cap = 3
  Drift = 1
  Required = FALSE
  MaxSecret = 2
INVARIANT SignInSafety
PROPERTIES GuessesAreSpaced HolderGetsIn
