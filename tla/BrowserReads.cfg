SPECIFICATION Spec
CONSTANTS
    Secrets = {s1}
    Tabs = {t1, t2}
    Settings <- MCSettings
    DefaultSetting <- MCDefaultSetting
    MaxViews = 2
    MaxEntries = 1
    Lifetime = 1
    KeepFor = 1
    CoarsePointer = TRUE
    MaxTime = 1
    MaxOpen = 2
SYMMETRY MCSymmetry
INVARIANTS
    UsesShownAreTrue
    OneViewPerClick
    ShownOnceMoreAtMost
CHECK_DEADLOCK FALSE
