SPECIFICATION FairSpec
CONSTANTS
    Shares = {s1, s2}
    Pages = {w1}
    Hosts = {official, own}
    Loopback = {}
    DefaultHost = official
INVARIANTS
    LinkNamesItsServer
    ToastIsTrue
    HostIsGranted
PROPERTIES
    SharesEnd
CHECK_DEADLOCK FALSE
