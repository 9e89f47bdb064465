CONSTANTS
  m1 = m1
  m2 = m2
  send = send
  ask = ask
  forged = forged
  IntentIds = {send, ask, forged}
  Members = {m1, m2}
  Log <- MCLog
  Verdict <- MCVerdict
  Expires <- MCExpires
  Mode = "permissive"
  DeadLetters = TRUE
  Approvals = {ask}
  LeaseMs = 2
  ResultTtlMs = 3
  OwnerOnly = FALSE
  MaxAttempts = 2
  Timely = TRUE
  MaxFaults = 2
  MaxTime = 4
SPECIFICATION Spec
SYMMETRY MemberSymmetry
CHECK_DEADLOCK FALSE
INVARIANTS NoIntentLost SettledInOrder UnverifiedLeavesNoTrace
