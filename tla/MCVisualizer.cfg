\* Two requests: one sequence of two, one up the ladder, or two scenarios one
\* after the other.  Three envelopes under way: a retry may overtake another.
SPECIFICATION FairSpec
CONSTANTS
  MaxRuns = 2
  MaxAttempts = 3
  TransientSuccessAttempt = 3
  MaxInFlight = 3
  MaxEmitted = 8
  MaxTroubles = 1
  Visits <- AllKinds
  MaxResets = 1
CHECK_DEADLOCK FALSE
INVARIANTS
  TypeOK
  NoStaleRun
  SettleNotLost
  CountersCoverTokens
  TierKept
  BallRoute
PROPERTIES
  RankNeverFalls
  ScenarioEnds
