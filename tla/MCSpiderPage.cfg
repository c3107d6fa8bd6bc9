CONSTANTS
    Pages <- Documents
    MinLengths = {0, 2, 4}
    MaxChecks = 2
    Protocols = {"cdp", "bidi"}
    MaxPoints = 2
    MaxRounds = 2
    MaxSteps = 2
    Findings = {"first", "second"}
    Nothing = "nothing"
    MaxPageCalls = 2
SPECIFICATION FairSpec
INVARIANTS
    OnlyGrowthIsUnclassified
    ShortIsLast
    NothingStaysPressed
    PlansAreGuarded
    
PROPERTIES
    PageReturns
CHECK_DEADLOCK FALSE
