SPECIFICATION Spec
CONSTANTS
    Requests = {r1, r2, r3}
    Chunks = {c1, c2}
    Bytes = {b1}
    Settings = {w1}
    Stores = {s1, s2}
    UploadTTL = 2
    LockTTL = 1
    Lifetime = 6
    Patience = 1
    Faults = FALSE
    Evictions = TRUE
    MaxTime = 1
SYMMETRY MCSymmetry
INVARIANTS
    LinkIsWhole
    LiveFileKeepsExpiry
CHECK_DEADLOCK FALSE
