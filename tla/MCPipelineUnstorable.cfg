\* An event_id no column can hold, no fault at all.
SPECIFICATION FairSpec
CONSTANTS
  e1 = e1
  e2 = e2
  w1 = w1
  w2 = w2
  NoEvent = NoEvent
  Events = {e1}
  Workers = {w1, w2}
  NTiers = 2
  MaxAttempts = 2
  Unstorable = {e1}
  FitKinds <- OnlyUnfit
  FaultKinds <- LateDead
  MaxSent = 1
  MaxFaults = 0
  MaxReplays = 0
CHECK_DEADLOCK FALSE
PROPERTY DeadLetterIsStored
