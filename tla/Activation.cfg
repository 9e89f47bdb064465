CONSTANTS
  Names = {"log", "summary", "ckpt"}
  Protected = {"ckpt"}
  SourceKey = "log"
  SummaryKey = "summary"
  ItemSizes = {1, 3}
  LenPrefix = 1
  HardCap = 12
  SoftCap = 9
  TargetBytes = 6
  TriggerBytes = 8
  KeepRecent = 1
  MaxItems = 3
  MaxWrites = 3
  MaxActivations = 2
  RecordKeys = {1, 2, 3}
  ExpiryKey = 4
  SearchPrefixes = {{1, 2, 3, 4}, {1, 3}}
  Saves <- MCSaves
  Backends = {"atomic", "sql", "sqlite"}
  MaxExpiries = 1
  Programs <- MCPrograms
  Responses = {1, 2}
  SummaryTrigger = 2
  MaxAttempts = 3
  MaxEscalated = 1
  MaxVersion = 3
  LogicalKeys <- MCKeys
  Events <- MCEvents
  Shards = 2
  Workers = {0, 1}
  Ids = {1, 2, 3, 4}
  MaxCalls = 2
  MaxEscalations = 1
  HistoryFrameworks = {"adk", "pydantic_ai"}
  MaxEventsOptions = {0, 2}
  MaxBatch = 2
  MaxRuns = 2
  MaxFailures = 1
  GraphTasks = {1, 2}
  TaskShapes <- MCShapes
  MaxSupersteps = 2
  MaxGraphRuns = 3
  StoreKinds = {"memory", "redis", "bigtable", "firestore", "sql", "sqlite"}
  Entities <- MCEntities
  StoreKeys <- MCStoreKeys
  SearchedPrefixes <- MCPrefixes
  StoreSeqs = {255, 256}
  MaxRecords = 3
SPECIFICATION Spec
CHECK_DEADLOCK FALSE
INVARIANTS WritesFit SavedIsFound EffectsAreIdentified KeyedStateCarriesOver AdaptersKeepTheWait
PROPERTIES CompactionIsSafe RowsNeverRegress
