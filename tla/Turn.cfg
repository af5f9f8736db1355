SPECIFICATION MCFairSpec
CONSTANTS
  Deltas <- Pieces
  MaxText = 2
  MaxRetries = 3
  Holding = {TRUE, FALSE}
  Hints = {0, 10}
  Replies <- ReplyKinds
  Pools = {1, 2, 3}
  Models = {m1}
  Providers = {openai, xai}
  Requests = {r1, r2}
  RequestIds = {i1, i2}
  Keys = {k1}
  MaxResyncs = 1
  MaxRestarts = 1
  NoPool = NoPool
  NoKey = NoKey
  NoModel = NoModel
  NoProvider = NoProvider
  m1 = m1
  openai = openai
  xai = xai
  r1 = r1
  r2 = r2
  i1 = i1
  i2 = i2
  k1 = k1
CHECK_DEADLOCK FALSE
INVARIANTS
  ClientHasOneAnswer
  
  NothingReplayed
PROPERTIES
  KeepsThePromise
  TurnsEnd
  DrainedPoolsAreSkipped
