SPECIFICATION MCFairSpec
CONSTANTS
  MaxOps = 3
  MaxFaults = 2
  Accounts = {a1}
  a1 = a1
  MaxWindows = 2
  MaxTroubles = 0
INVARIANTS
  NoDeadGateway
  CommittedIsDeployed
PROPERTIES
  BusyEnds
  ResetAccountsReturn
CHECK_DEADLOCK FALSE
