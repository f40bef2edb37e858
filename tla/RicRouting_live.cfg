CONSTANTS
    x1 = x1
    x2 = x2
    XApps = {x1, x2}
    Nodes = {n1}
    Own <- OneFunction
    FirstReqId = 2
    IdSpace = 4
    Slow = {}
    MaxSetups = 2
    MaxReports = 0
    MaxCopies = 2
    MaxNotices = 1
    MaxDepartures = 0
SPECIFICATION FairSpec
INVARIANTS SureAssertions AbortCauses NoLeak
PROPERTIES ServiceSpec ControlAnswered DisconnectCleans
CHECK_DEADLOCK FALSE
