CONSTANTS
  e1 = e1
  e2 = e2
  e3 = e3
  e4 = e4
  Events = {e1, e2, e3, e4}
  Adaptive = TRUE
  MaxBatchSize = 2
  MaxWait = 1
  MaxBuffered = 2
  Ttl = 1
  Timeouts = {1}
  IntentTtls = {2}
  Routes = {"deny", "escalate", "raise"}
  EscalateTimeouts = {1}
  MaxEscalations = 1
  OnExpire = FALSE
  WatermarkFollowsWall = FALSE
  MaxSteps = 1
  MaxResults = 1
  Horizon = 2
  MaxTime = 3
SPECIFICATION Spec
SYMMETRY EventSymmetry
CHECK_DEADLOCK FALSE
INVARIANTS PendingMatchesContinuation SuspensionHasTimer DeferredBufferHasTimer BufferInv
PROPERTIES SuspensionEndsVisibly
