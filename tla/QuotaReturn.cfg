SPECIFICATION FairSpec
CONSTANTS
  Accounts = {a1}
  MaxWindows = 2
  MaxTroubles = 0
  a1 = a1
PROPERTY UsableAccountsReturn
CHECK_DEADLOCK FALSE
