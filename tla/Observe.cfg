CONSTANTS
  a = a
  b = b
  Tokens <- Two
  Pref <- TwoLow
  Ids <- TwoIds
  MaxSeq = 2
  MaxFailed = 0
  MaxNon = 0
  MaxInFlight = 0
SPECIFICATION Spec
SYMMETRY Either
INVARIANTS
  NoDuplicateObserver
  HandlerAgrees
