SPECIFICATION MCSpec
CONSTANTS
  Accounts = {a1}
  Tasks = {t1, t2}
  MaxFailures = 1
  Identities = {x, y}
  Variants = {1, 2}
  Slots = {s1, s2}
  MaxSignIns = 2
  MaxDeletes = 1
  MaxFaults = 1
  MaxWindows = 1
  MaxTroubles = 1
  Nobody = Nobody
  a1 = a1
  t1 = t1
  t2 = t2
  x = x
  y = y
  s1 = s1
  s2 = s2
SYMMETRY Alike
INVARIANTS
  PublishedFollowsTheRows
  DeletedStaysDeleted
  AccountsHaveTheirFiles
  RoutingFollows
CHECK_DEADLOCK FALSE
