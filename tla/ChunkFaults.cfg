SPECIFICATION Spec
CONSTANTS
    Requests = {r1, r2}
    Chunks = {c1}
    Bytes = {b1, b2}
    Settings = {w1, w2}
    Stores = {s1, s2}
    UploadTTL = 2
    LockTTL = 1
    Lifetime = 1
    Patience = 1
    Faults = TRUE
    Evictions = TRUE
    MaxTime = 3
SYMMETRY MCSymmetry
INVARIANTS
    LinkIsWhole
    CountedOnce
PROPERTIES
    LinkNeverComesBack
    LinkKeepsItsRecord
CHECK_DEADLOCK FALSE
