CONSTANTS
    Browsers = {"chrome-h"}
    Unpinned = "auto"
    MaxAttempts = 2
    MaxGen = 2
    MaxSends = 1
    MaxServer = 1
SPECIFICATION Spec
INVARIANT
    ReconnectionHasChannel
CHECK_DEADLOCK FALSE
