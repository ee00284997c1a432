SPECIFICATION FairSpec
CONSTANTS
  Pulsed = {test}
  Held = {inhibit}
  Required = TRUE
  Task = {t1, t2}
  NoTask = NoTask
INVARIANT OutputSafety
PROPERTIES PulseIsReleased StuckIsReported DisarmedIsLeftAlone
