CONSTANTS
  m1 = m1
  m2 = m2
  send = send
  ask = ask
  forged = forged
  IntentIds = {send, ask}
  Members = {m1, m2}
  Log <- ShortLog
  Verdict <- ShortVerdict
  Expires <- LateExpires
  Mode = "off"
  DeadLetters = TRUE
  Approvals = {ask}
  LeaseMs = 2
  ResultTtlMs = 6
  OwnerOnly = FALSE
  MaxAttempts = 2
  Timely = TRUE
  MaxFaults = 2
  MaxTime = 2
SPECIFICATION FairSpec
CHECK_DEADLOCK FALSE
PROPERTIES EveryIntentProcessed
