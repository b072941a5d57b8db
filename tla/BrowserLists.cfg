SPECIFICATION FairSpec
CONSTANTS
    Secrets = {s1, s2}
    Tabs = {}
    Settings <- MCOneSetting
    DefaultSetting <- MCTheSetting
    MaxViews = 2
    MaxEntries = 1
    Lifetime = 1
    KeepFor = 1
    CoarsePointer = TRUE
    MaxTime = 0
    MaxOpen = 2
INVARIANTS
    TypeOK
    GoneStaysGone
PROPERTIES
    
    RowsCatchUp
CHECK_DEADLOCK FALSE
