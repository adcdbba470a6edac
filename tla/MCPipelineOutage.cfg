\* A partner duplicate whose transaction meets one outage.
SPECIFICATION Spec
CONSTANTS
  e1 = e1
  e2 = e2
  w1 = w1
  w2 = w2
  NoEvent = NoEvent
  Events = {e1}
  Workers = {w1, w2}
  NTiers = 2
  MaxAttempts = 2
  Unstorable = {}
  FitKinds <- OnlyFit
  FaultKinds <- Outage
  MaxSent = 2
  MaxFaults = 1
  MaxReplays = 0
CHECK_DEADLOCK FALSE
INVARIANT OutageBurnsNoTier
