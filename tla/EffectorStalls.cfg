CONSTANTS
  m1 = m1
  m2 = m2
  send = send
  ask = ask
  forged = forged
  IntentIds = {send, ask}
  Members = {m1, m2}
  Log <- ShortLog
  Verdict <- ShortVerdict
  Expires <- LateExpires
  Mode = "off"
  DeadLetters = TRUE
  Approvals = {ask}
  LeaseMs = 2
  ResultTtlMs = 3
  OwnerOnly = TRUE
  MaxAttempts = 2
  Timely = FALSE
  MaxFaults = 2
  MaxTime = 4
SPECIFICATION Spec
SYMMETRY MemberSymmetry
CHECK_DEADLOCK FALSE
INVARIANTS InvokedOncePerLease OneResultIsHeard
