SPECIFICATION FairSpec
CONSTANTS
    MaxMessages = 2
    MaxCopies = 2
    NumChildren = 2
INVARIANTS HandleValid LeftInTree OwnRequest
 
CHECK_DEADLOCK FALSE
