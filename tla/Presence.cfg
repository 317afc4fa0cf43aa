SPECIFICATION FairSpec
CONSTANTS
    Servers = {s1, s2}
    Filtered = {s2}
    PresenceTimeOut <- OneTimer
    MaxSeq = 2
    MaxInFlight = 1
INVARIANTS BelievedWatched
PROPERTIES TimeoutEarned AbsenceNoticed
