SPECIFICATION Spec
CONSTANTS
    MaxMessages = 2
    MaxCopies = 2
    NumChildren = 2
INVARIANT FreedOnce
CHECK_DEADLOCK FALSE
