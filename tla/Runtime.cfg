CONSTANTS
  Partition = {0, 1}
  LogLength <- MCLog
  MaxPartitions = 1
  MaxRebalances = 1
  MaxMishaps = 1
  Outboxes <- MCOutboxes
  MaxBundle = 2
  KeyIds = {"a", "b"}
  MaxPublishFaults = 2
  MaxRetries = 1
  Instances = {1, 2}
  MaxSetups = 3
  MaxGenerations = 2
  MaxSubmitted = 2
  MaxWork = 1
  Publishers = {1, 2}
  Results = 2
  MaxAttempts = 3
  MaxRejections = 4
  OrderingKeys = {1, 2}
  Messages <- MCMessages
  MaxQueued = 1
  MaxCopies = 2
SPECIFICATION Spec
CHECK_DEADLOCK FALSE
INVARIANTS EffectorKeepsOrder OutboxSafe LoopThreadsServe
PROPERTIES ProcessesProgress
