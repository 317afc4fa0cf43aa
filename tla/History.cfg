CONSTANTS
  m1 = m1
  m2 = m2
  n1 = n1
  c1 = c1
  x1 = x1
  t1 = t1
  t2 = t2
  NoToken = NoToken
  Requests <- FiveRequests
  Unchecked <- Confirmable
  Id <- RequestId
  Token <- RequestToken
  HISTORYSIZE = 2
SPECIFICATION HistorySpec
CHECK_DEADLOCK FALSE
INVARIANTS
  FirstDelivered
PROPERTY
  SecondDropped
