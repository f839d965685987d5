SPECIFICATION Spec
CONSTANTS
  c1 = c1
  c2 = c2
  w1 = w1
  w2 = w2
  Conn <- Conns
  Worker <- Workers
  Capacity = 1
  MaxSessions = 3
  MaxRequests = 3
INVARIANT TypeOK
INVARIANT StrangersComeLater
INVARIANT AcksMatchWaiters
PROPERTY ImplementsService
CHECK_DEADLOCK FALSE
