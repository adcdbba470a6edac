\* Two requests, under one correlation id or two, two lost connections.
SPECIFICATION FairSpec
CONSTANTS
  r1 = r1
  r2 = r2
  c1 = c1
  c2 = c2
  None = None
  Requests = {r1, r2}
  Correlations = {c1, c2}
  MaxLosses = 2
INVARIANTS
  TypeOK
  AcceptedIsQueued
  ReturnIsOwn
  NothingPending
PROPERTY EventuallyAnswered
