CONSTANTS
    Browsers = {"chrome-h"}
    Unpinned = "auto"
    MaxAttempts = 2
    MaxGen = 2
    MaxSends = 2
    MaxServer = 2
SPECIFICATION FairSpec
INVARIANTS
    MessagesInOrder
    AtMostOneStale
    NoOrphanSocket
PROPERTIES
    ConnectionsSettle
CHECK_DEADLOCK FALSE
