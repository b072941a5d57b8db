SPECIFICATION Spec
CONSTANTS
    Saves = {s1}
    Readers = {r1, r2}
    Ids = {i1}
    IdsRepeat = FALSE
    MaxViews = 2
    MaxDuration = 1
    DefaultDuration = 1
    RequestViews <- MCTwoViews
    RequestDurations <- MCDurations
    MaxStorageIDAttempts = 1
    RetryWindow = 1
    MaxTime = 1
SYMMETRY MCSymmetry
INVARIANTS
    FileViewsConserved
    DownloadsAreWhole
PROPERTIES
    LinkKeepsItsFile
    AnswersTellTheTruth
    ImplementsOneTimeSecret
CHECK_DEADLOCK FALSE
