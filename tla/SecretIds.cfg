SPECIFICATION Spec
CONSTANTS
    Saves = {s1, s2}
    Readers = {r1}
    Ids = {i1}
    MaxViews = 2
    MaxDuration = 1
    DefaultDuration = 1
    RequestViews <- MCFewViews
    RequestDurations <- MCOneDuration
    MaxStorageIDAttempts = 2
    RetryWindow = 1
    MaxStatusIDs = 1
    MaxTime = 2
SYMMETRY MCSymmetry
INVARIANTS
    AcknowledgedStaysReadable
    ReadByTokenHolder
    GoneIsFinal
CHECK_DEADLOCK FALSE
