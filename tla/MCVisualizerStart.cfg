\* One request that fails twice and then succeeds: when did its processing start?
SPECIFICATION Spec
CONSTANTS
  MaxRuns = 2
  MaxAttempts = 3
  TransientSuccessAttempt = 3
  MaxInFlight = 2
  MaxEmitted = 9
  MaxTroubles = 0
  Visits <- Ladder
  MaxResets = 0
CHECK_DEADLOCK FALSE
PROPERTY StartIsFirstConsuming
