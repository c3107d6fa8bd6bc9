CONSTANTS
    Primary <- PrimaryRotation
    Extended <- ExtendedRotation
    InitialBrowsers = {"chrome-new", "firefox"}
    MaxRetries = 3
    MaxStealth = 2
    InitialStealth = {0, 1}
    ActionErrors <- AnyAction
    SwitchErrors <- AnySwitch
    Executions = 1
    Rotation <- ThreeBrowsers
    Currents = {"chrome-h", "chrome-new", "firefox", "chrome"}
    Threshold = 2
    Ttl = 1
    MaxTime = 3
    MaxFailures = 3
    Bytes <- Letters
    lowercase <- Lowers
    Keywords <- Words
    MaxRules = 3
    MaxText = 5
SPECIFICATION RetrySpec
INVARIANTS
    AttemptsOnLiveAdapter
    AttemptsBounded
    TimeoutLeavesPrimary
    GivesUpOnlyWhenExhausted
    FirstToEnd
PROPERTIES
    AuthIsFinal
    KeepsContract
    Termination
    AnswersAreNearest
CHECK_DEADLOCK FALSE
