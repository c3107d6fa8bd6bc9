CONSTANTS
    Protocols = {"cdp", "bidi"}
    MaxInits = 2
    MaxCommands = 3
SPECIFICATION FairSpec
INVARIANTS
    CommandSomewhere
    ChainWhole
    OrphanOrigin
PROPERTIES
    CallsReturn
CHECK_DEADLOCK FALSE
