SPECIFICATION MCSpec
CONSTANTS
  Pools = {1, 2, 4}
  Models = {m1, m2}
  Providers = {openai, xai}
  ModelOf <- MCModelOf
  ProviderOf <- MCProviderOf
  PriorityOf <- MCPriorityOf
  Requests = {r1, r2}
  RequestIds = {i1, i2}
  IdOf <- SharedId
  Keys = {k1}
  Surfaces <- AllSurfaces
  Tables <- ChangingTables
  RepliesOf <- AnyReply
  MaxResyncs = 1
  MaxRestarts = 1
  NoPool = NoPool
  k1 = k1
  NoKey = NoKey
  NoModel = NoModel
  NoProvider = NoProvider
  m1 = m1
  m2 = m2
  openai = openai
  xai = xai
  Parts = {"routing"}
  Channels = {c1, c2}
  Accounts = {o1, o2, g1}
  Platform <- MCPlatform
  OpenAI = openai
  Elsewhere = {c2, o2}
  Configs <- SeparateEntries
  MaxApplies = 2
  MaxFaults = 1
  MaxTurns = 1
  c1 = c1
  c2 = c2
  o1 = o1
  o2 = o2
  g1 = g1
  r1 = r1
  r2 = r2
  i1 = i1
  i2 = i2
CHECK_DEADLOCK FALSE
INVARIANT
  OnlyTheEntriesServe
