CONSTANTS
    Protocols = {"cdp"}
    MaxInits = 1
    MaxCommands = 5
SPECIFICATION Spec
PROPERTIES
    TimeoutIsUnanswered
CHECK_DEADLOCK FALSE
