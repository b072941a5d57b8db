SPECIFICATION FairSpec
CONSTANTS
    Uploads = {u1}
    Slices = 3
    MaxViews = 2
    Views = 2
    MaxFiles = 5
    MaxAttempts = 3
    Tabs = {t1}
    Programs = {u1}
INVARIANTS
    LinkNamesTheWholeFile
    OneFilePerUpload
    OneViewPerDownload
PROPERTIES
    TransfersEnd
CHECK_DEADLOCK FALSE
