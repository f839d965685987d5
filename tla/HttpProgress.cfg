SPECIFICATION FairSpec
CONSTANTS
  c1 = c1
  c2 = c2
  w1 = w1
  w2 = w2
  Conn <- OneConn
  Worker <- Workers
  Capacity = 1
  MaxSessions = 1
  MaxRequests = 4
PROPERTY EveryRequestIsServed
PROPERTY KillEndsPollThread
CHECK_DEADLOCK FALSE
