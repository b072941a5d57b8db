SPECIFICATION Spec
CONSTANTS
    Requests = {r1, r2}
    Chunks = {c1}
    Bytes = {b1}
    Settings = {w1}
    Stores = {s1}
    UploadTTL = 3
    LockTTL = 1
    Lifetime = 4
    Patience = 2
    Faults = FALSE
    Evictions = FALSE
    MaxTime = 2
SYMMETRY MCSymmetry
PROPERTIES
    LinkNeverComesBack
CHECK_DEADLOCK FALSE
