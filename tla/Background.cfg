SPECIFICATION MCFairSpec
CONSTANTS
  Plans = {1, 2}
  AccountOf <- OneAccount
  Crons = {"every", "once"}
  OnceAt = 1
  Hosts = {h1, h2}
  MaxResults = 1
  MaxTime = 2
  MaxEdits = 3
  MaxCrashes = 1
  Items = {1, 2, 3}
  Submissions <- Lists
  Clients = {c1, c2}
  h1 = h1
  h2 = h2
  c1 = c1
  c2 = c2
CHECK_DEADLOCK FALSE
INVARIANTS
  RunsOncePerDueTime
  RunningIsBeingRun
  OutputsAreOwned
  
PROPERTIES
  DuePlansRunUnlessPoisoned
  EveryBatchSettles
