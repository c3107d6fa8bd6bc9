CONSTANTS
    Tasks = {t1, t2}
    Nobody = nobody
    Attacher = t1
    Navigators = {t1, t2}
    Kinds = {"navigate"}
    Fires = {"load"}
    Protocols = {"cdp", "bidi"}
    MaxCalls = 7
    MaxOps = 3
SPECIFICATION FairSpec
INVARIANTS
    OnlyRobbedMiss
    NoStrayListener
    OwnAnswer
    OnlyLateUnclaimed
    NoOtherLeak
    SomebodyAnswers
    ContextIsCurrent
PROPERTIES
    OperationsReturn
CHECK_DEADLOCK FALSE
