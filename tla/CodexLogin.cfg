SPECIFICATION Spec
CONSTANTS
  MaxEdits = 2
  MaxOps = 3
  MaxRoots = 1
INVARIANTS
  NoStaleLogin
CHECK_DEADLOCK FALSE
