SPECIFICATION FairSpec
CONSTANTS
  MaxRequest = 2
  MaxToken = 2
  Admin = {alice}
  Plain = {bob}
  Action = {"start", "force_transfer", "ack"}
  Scope = {"start", "any"}
  H100Views <- MCH100Views
  AtsViews <- MCAtsViews
  Burst = 1
  MaxRefill = 1
  MaxPolls = 1
INVARIANTS CommandSafety
PROPERTIES OwnEchoIsKnown EveryRequestEnds
CHECK_DEADLOCK FALSE
