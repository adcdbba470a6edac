\* One event, two in-flight slots, two sends, one replay, two faults of any kind.
SPECIFICATION Spec
CONSTANTS
  e1 = e1
  e2 = e2
  w1 = w1
  w2 = w2
  NoEvent = NoEvent
  Events = {e1}
  Workers = {w1, w2}
  NTiers = 2
  MaxAttempts = 2
  Unstorable = {}
  FitKinds <- BothFits
  FaultKinds <- AllFaults
  MaxSent = 2
  MaxFaults = 2
  MaxReplays = 1
SYMMETRY Symmetry
CHECK_DEADLOCK FALSE
INVARIANTS
  TypeOK
  AcceptedIsKept
  InFlightIsCarried
  FailedIsEmitted
  DeadIsPersisted
  ReplayCanBeRetried
  BudgetLeft
  SucceedsOnce
PROPERTIES
  OnlyReplayReopens
  ImplementsEventRow
