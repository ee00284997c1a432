SPECIFICATION FairSpec
CONSTANTS
  Unit = {"ours", "other"}
  Expected = "ours"
INVARIANT AuthoritySafety
PROPERTIES
  FaultEndsAuthority WrongUnitLosesAuthority AuthorityReturns FaultIsRaised
  AutoReleaseIsTold
CHECK_DEADLOCK FALSE
