\* Two sends, the ladder, one fault of any kind, one replay: all comes to rest?
SPECIFICATION FairSpec
CONSTANTS
  e1 = e1
  e2 = e2
  w1 = w1
  w2 = w2
  NoEvent = NoEvent
  Events = {e1}
  Workers = {w1, w2}
  NTiers = 2
  MaxAttempts = 4
  Unstorable = {}
  FitKinds <- OnlyFit
  FaultKinds <- AllFaults
  MaxSent = 2
  MaxFaults = 1
  MaxReplays = 1
CHECK_DEADLOCK FALSE
INVARIANT BackoffRespected
PROPERTY EventuallySettled
