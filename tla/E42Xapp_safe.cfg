SPECIFICATION FairSpec
CONSTANTS
    ReqIdLimit = 4
    UiWait = 2
    SubWait = 1
    DelWait = 3
    SetupWait = 1
    MaxCalls = 4
    MaxSetups = 2
    MaxLateSetups = 0
INVARIANTS
    TypeOK
    NoLostWakeup
    NoLeakedProcedure
    TimersCountRequests
    SetupGuarded
    AbortCauses
    SuccessIsEarned
PROPERTIES
    FreshReqId
    CallReturns
CHECK_DEADLOCK FALSE
