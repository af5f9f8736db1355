SPECIFICATION MCSpec
CONSTANTS
  MaxText = 4
  MaxChunk = 2
  MaxToolChunks = 2
  Indexes = {0, 1}
  MaxEvents = 3
  Vocabularies = {
    {"t", "open", "close", "openA", "openB", "closeA", "closeB"},
    {"t", "mark", "json", "jsonA", "jsonB", "open"},
    {"t", "inv", "end", "endA", "endB", "call", "callA", "callB"}}
  Families = {"openai", "gemini", "other"}
  Ids = {1, 9}
  Sigs = {"x"}
  MaxItems = 5
  MinKeep = 2
  KeepLast = 3
  AggressiveKeep = 1
  KeepChars = 2
INVARIANTS
  TheEndIsTold
  ItemsAreFramed
  
  
  CallsAreWhole
  HistoryIsPaired
  ResultsAreKept
  FoldingKeepsTheEnd
CHECK_DEADLOCK FALSE
