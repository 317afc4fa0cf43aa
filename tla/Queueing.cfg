CONSTANTS
  m1 = m1
  m2 = m2
  m3 = m3
  w1 = w1
  w2 = w2
  Owner = Owner
  NoMessage = NoMessage
  Messages <- ThreeMessages
  Workers <- TwoWorkers
  Spurious = TRUE
SPECIFICATION FairSpec
CHECK_DEADLOCK FALSE
INVARIANTS
  NoUseAfterDestroy
  NoLostWakeup
  NoDoubleUse
PROPERTIES
  Served
  ImplementsWorkQueue
