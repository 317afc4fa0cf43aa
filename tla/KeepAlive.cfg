SPECIFICATION FairSpec
CONSTANTS
    Clients = {c1}
    Intervals <- TwoIntervals
    MaxConns = 2
    MaxErrors = 1
INVARIANTS OneEntry PaceAgreed
PROPERTY DeadForgotten
CHECK_DEADLOCK FALSE
