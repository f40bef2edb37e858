CONSTANTS
    x1 = x1
    x2 = x2
    XApps = {x1, x2}
    Nodes = {n1}
    Own <- OneFunction
    FirstReqId = 2
    IdSpace = 4
    Slow = {}
    MaxSetups = 2
    MaxReports = 0
    MaxCopies = 1
    MaxNotices = 1
    MaxDepartures = 0
SPECIFICATION Spec
INVARIANT DeleteFindsSubscription
CHECK_DEADLOCK FALSE
