SPECIFICATION Spec
CONSTANTS
  MaxOps = 3
  MaxFaults = 2
INVARIANTS
  ExitLeavesNoDeadGateway
CHECK_DEADLOCK FALSE
