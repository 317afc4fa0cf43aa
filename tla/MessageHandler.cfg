CONSTANTS
  c1 = c1
  c2 = c2
  n1 = n1
  k1 = k1
  Thread = Thread
  Owner = Owner
  SendThread = SendThread
  NoMessage = NoMessage
  Messages <- OneAndNon
  Supported <- OneConfirmable
  Key <- SharedKey
  TryingCount = 1
  Timeouts <- OneTick
  MaxTime = 1
SPECIFICATION FairSpec
CHECK_DEADLOCK FALSE
INVARIANTS
  BoundedCopies
  NoSendAfterDestroy
  OwnAnswer
PROPERTIES
  AlwaysReported
  TerminationEnds
