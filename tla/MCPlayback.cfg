\* Two balls, or one with late stages, three clicks and pauses of two ticks.
SPECIFICATION FairSpec
CONSTANTS
  Balls = {1, 2}
  Stories <- MCStories
  Tier <- MCTier
  Hop = 1
  Old = 2
  MaxPause = 2
  MaxClicks = 3
INVARIANTS
  TypeOK
  StopwatchTrue
  TiersAreHeld
PROPERTIES
  BallSettles
CHECK_DEADLOCK FALSE
