CONSTANTS
  a = a
  b = b
  Tokens <- One
  Pref <- OneLow
  Ids <- OneId
  MaxSeq = 3
  MaxFailed = 1
  MaxNon = 1
  MaxInFlight = 1
SPECIFICATION FairSpec
PROPERTIES
  RemovedForCause
  GoneIsRemoved
