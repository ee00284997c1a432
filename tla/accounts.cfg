SPECIFICATION Spec
CONSTANTS
  Account = {ann, bo}
  Admins = {ann, bo}
  Session = {1, 2}
  Idle = 1
  Life = 3
  Long = 4
  AdminOp = {"password", "revoke", "disable", "enable", "delete"}
  MaxBumps = 1
SYMMETRY Symmetry
INVARIANTS SessionSafety AdminRemains StaysSignedIn
CHECK_DEADLOCK FALSE
