CONSTANTS
    Tasks = {t1, t2}
    Nobody = nobody
    Attacher = t1
    Navigators = {t1, t2}
    Kinds = {"navigate"}
    Fires = {"load"}
    Protocols = {"cdp"}
    MaxCalls = 7
    MaxOps = 3
SPECIFICATION Spec
INVARIANTS
    OwnEventHeard
CHECK_DEADLOCK FALSE
