SPECIFICATION FairSpec
CONSTANTS
    Saves = {s1}
    Readers = {r1}
    Ids = {i1}
    IdsRepeat = FALSE
    MaxViews = 2
    MaxDuration = 1
    DefaultDuration = 1
    RequestViews <- MCTwoViews
    RequestDurations <- MCDurations
    MaxStorageIDAttempts = 1
    RetryWindow = 1
    MaxTime = 2
PROPERTIES
    BlobsReclaimed
CHECK_DEADLOCK FALSE
