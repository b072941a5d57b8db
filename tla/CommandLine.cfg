SPECIFICATION FairSpec
CONSTANTS
    p1 = p1
    p2 = p2
    g1 = g1
    g2 = g2
    official = official
    own = own
    Uploads <- MCUploads
    Processes <- MCProcesses
    Hosts <- MCHosts
    Loopback = {}
    DefaultHost = official
    Given <- MCGiven
    Invocations <- MCInvocations
    Slices = 2
    MaxViews = 10
    MaxFiles = 5
    MaxAttempts = 2
    MaxNames = 3
    Taken = {0}
INVARIANTS
    ExitCodeIsTrue
    SettingsAreTaken
PROPERTIES
    FilesAreKept
    CommandsEnd
CHECK_DEADLOCK FALSE
