CONSTANTS
  k1 = k1
  k2 = k2
  r1 = r1
  r2 = r2
  n1 = n1
  n2 = n2
  Keys = {k1, k2}
  Requests = {r1, r2}
  Sizes = {2, 4}
  DigestSize = 1
  MAX_ENTRIES = 2
  BLOB_CAP_BYTES = 3
  TTL_MS = 0
  Limit = 3
  Threshold = 2
  Cooldown = 1
  MaxAttempts = 2
  MaxCalls = 2
  MaxResponses = 3
  MaxFailures = 3
  MaxSeq = 1
  MaxTime = 2
  ProviderKinds = {"anthropic", "openai", "endpoint", "sidecar"}
  Questions = {1, 2}
  Bodies <- MCBodies
  BudgetLimit = 2
  BaseMs = 1
  MaxMs = 1
  MaxSends = 3
  MaxQuestions = 2
  MaxTries = 2
  Stores = {"memory", "redis", "bigtable"}
  Callers = {1, 2}
  Lease = 2
  Ttl = 2
  MaxGrants = 3
  MaxClock = 5
  Names = {n1, n2}
  Callables <- MCCallables
  ArgumentSets <- MCArguments
  MaxIntents = 2
  MaxReads = 2
  MaxExecutions = 2
  MaxActivations = 2
SPECIFICATION ServicesSpec
SYMMETRY Symmetry
CHECK_DEADLOCK FALSE
INVARIANTS BreakerCounts CallsReplay AccountsAgree ServedResultIsCurrent EffectsAreToldTruly
PROPERTIES PutKeepsNewest KeepsTheProtocol
