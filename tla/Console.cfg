CONSTANTS
  RecordCount = 5
  Starts = {1, 4}
  BatchSize = 2
  QueueBatches = 1
  MaxPosts = 2
  Feeds <- MCFeeds
  MaxBatch = 1
  Cutoffs = {3, 7}
  PageSize = 1
  Windows <- MCWindows
  Batches <- MCBatches
  QueueDepth = 1
  MaxConnects = 2
  Rows <- MCRows
  Overlap = 2
  Lookback = 3
  LastPoll = 8
  Messages <- MCMessages
  Captures <- MCCaptures
SPECIFICATION Spec
CHECK_DEADLOCK FALSE
INVARIANTS TelemetryArrives ConsoleTellsTheRecords
PROPERTIES KnownStaysKnown
