CONSTANTS
  e1 = e1
  e2 = e2
  e3 = e3
  e4 = e4
  Events = {e1, e2}
  Adaptive = FALSE
  MaxBatchSize = 1
  MaxWait = 1
  MaxBuffered = 1
  Ttl = 1
  Timeouts = {1}
  IntentTtls = {2}
  Routes = {"deny", "escalate", "raise"}
  EscalateTimeouts = {1}
  MaxEscalations = 1
  OnExpire = TRUE
  WatermarkFollowsWall = FALSE
  MaxSteps = 1
  MaxResults = 2
  Horizon = 2
  MaxTime = 3
SPECIFICATION Spec
SYMMETRY EventSymmetry
CHECK_DEADLOCK FALSE
INVARIANTS TypeOK IntentIdsUnique AnswersResumeTheirSuspension GcBehindDeadline KeyLifeInv
PROPERTIES TimeoutNotEarly LongtermNeverRegresses
