\* Two deliveries, a dead letter and an operator on one event, two connections for the worker.
SPECIFICATION FairSpec
CONSTANTS
  e1 = e1
  o1 = o1
  o2 = o2
  d1 = d1
  a1 = a1
  Nobody = Nobody
  Events = {e1}
  OrderSlots = {o1, o2}
  DlqSlots = {d1}
  ApiSlots = {a1}
  MaxAttempts = 2
  PoolSize = 2
INVARIANTS
  TypeOK
  ClaimFindsRow
  OneHandlerPerEvent
  ResetHasLetter
PROPERTIES
  ImplementsEventRow
  TransactionsEnd
