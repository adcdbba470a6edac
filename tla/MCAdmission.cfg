\* Two addresses, a limit of two in two seconds, a tolerance of one second.
SPECIFICATION Spec
CONSTANTS
  i1 = i1
  i2 = i2
  NotFinite = NotFinite
  NoAnswer = NoAnswer
  Ips = {i1, i2}
  Requests <- MCRequests
  Tolerance = 1
  Ttl = 4
  Limit = 2
  MaxNow = 8
  MaxSent = 5
INVARIANTS
  TypeOK
  HmacsBounded
  AcceptedSpan
  RefusedForOwnRate
CHECK_DEADLOCK FALSE
