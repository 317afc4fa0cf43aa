CONSTANTS
  c1 = c1
  c2 = c2
  c3 = c3
  k1 = k1
  k2 = k2
  Thread = Thread
  Owner = Owner
  Messages <- ThreeConfirmable
  Supported <- ThreeConfirmable
  Key <- SharedKey
  TryingCount = 2
  Timeouts <- OneTick
  MaxTime = 4
SPECIFICATION RTFairSpec
CHECK_DEADLOCK FALSE
INVARIANTS
  FullBackoff
  NoEntrySleeps
PROPERTIES
  FinishedIsFinal
  EntryResolved
