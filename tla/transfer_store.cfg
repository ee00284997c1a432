SPECIFICATION Spec
CONSTANTS
  Window = 1
  DiskKeepsUp = TRUE
  WritesBack = TRUE
  MaxStrokes = 2
  MaxTime = 3
INVARIANTS CountSafety RecordSafety
PROPERTY CountIsDurable
CHECK_DEADLOCK FALSE
