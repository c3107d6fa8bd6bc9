CONSTANTS
    Primary <- PrimaryRotation
    Extended <- ExtendedRotation
    InitialBrowsers = {"chrome-new", "firefox"}
    MaxRetries = 6
    MaxStealth = 2
    InitialStealth = {0, 1}
    ActionErrors <- AnyAction
    SwitchErrors <- AnySwitch
    Executions = 2
SPECIFICATION FairSpec
INVARIANTS
    BlockedTriesEverything
    AttemptsAtItsBrowser
PROPERTIES
    KeepsContract
    SparesPrimary
    Termination
CHECK_DEADLOCK FALSE
