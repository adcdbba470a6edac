\* A dead letter delivered twice around a replay.
SPECIFICATION Spec
CONSTANTS
  e1 = e1
  e2 = e2
  w1 = w1
  w2 = w2
  NoEvent = NoEvent
  Events = {e1}
  Workers = {w1, w2}
  NTiers = 2
  MaxAttempts = 1
  Unstorable = {}
  FitKinds <- OnlyFit
  FaultKinds <- LateDead
  MaxSent = 1
  MaxFaults = 1
  MaxReplays = 2
CHECK_DEADLOCK FALSE
INVARIANT ProcessedRunsOnce
