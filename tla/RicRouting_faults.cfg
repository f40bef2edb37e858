CONSTANTS
    x1 = x1
    x2 = x2
    XApps = {x1, x2}
    Nodes = {n1}
    Own <- DifferentFunctions
    FirstReqId = 3
    IdSpace = 4
    Slow = {"control"}
    MaxSetups = 2
    MaxReports = 1
    MaxCopies = 1
    MaxNotices = 1
    MaxDepartures = 1
SPECIFICATION Spec
INVARIANTS TypeOK SureAssertions AbortCauses NoLeak
PROPERTIES ServiceSpec
CHECK_DEADLOCK FALSE
