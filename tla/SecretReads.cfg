SPECIFICATION FairSpec
CONSTANTS
    Saves = {s1}
    Readers = {r1, r2}
    Ids = {i1}
    MaxViews = 2
    MaxDuration = 2
    DefaultDuration = 1
    RequestViews <- MCRequestViews
    RequestDurations <- MCRequestDurations
    MaxStorageIDAttempts = 2
    RetryWindow = 1
    MaxStatusIDs = 0
    MaxTime = 2
INVARIANTS
    TypeOK
    ViewsConserved
    ViewsAnsweredOnce
PROPERTIES
    AnswersTellTheTruth
    ReadsAnswered
    ImplementsOneTimeSecret
CHECK_DEADLOCK FALSE
