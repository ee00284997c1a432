SPECIFICATION FairSpec
CONSTANTS
  PrimeBatches = 2
  BaseBatches = 2
  StateBatches = {1}
  LostAfter = 2
  Streak = 3
  Window = 6
  Ratio = 3
  FlapMax = 2
  EpisodesKept = 3
INVARIANT HealthSafety
PROPERTIES HealthIsPromised GoodLinkHeals DeadLinkIsLost SilentPrimeIsLost
