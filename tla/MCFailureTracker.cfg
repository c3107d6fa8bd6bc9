CONSTANTS
    Callers = {c1, c2}
    Pairs <- TwoPairs
    ErrorClasses = {"blocked", "rate_limit"}
    Ttl = 1
    MaxTime = 2
    MaxCalls = 3
SPECIFICATION FairSpec
INVARIANTS
    NoFailureLost
    CountIsRecent
PROPERTIES
    RemovesOnlyItsTarget
    CallsReturn
CHECK_DEADLOCK FALSE
