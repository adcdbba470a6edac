\* Two replays of one dead letter, no fault at all.
SPECIFICATION Spec
CONSTANTS
  e1 = e1
  e2 = e2
  w1 = w1
  w2 = w2
  NoEvent = NoEvent
  Events = {e1}
  Workers = {w1, w2}
  NTiers = 2
  MaxAttempts = 2
  Unstorable = {}
  FitKinds <- OnlyFit
  FaultKinds <- LateDead
  MaxSent = 1
  MaxFaults = 0
  MaxReplays = 2
CHECK_DEADLOCK FALSE
PROPERTY ExtraRedriveIsDuplicate
