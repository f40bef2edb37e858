SPECIFICATION Spec
CONSTANTS
    ReqIdLimit = 3
    UiWait = 2
    SubWait = 1
    DelWait = 3
    SetupWait = 1
    MaxCalls = 2
    MaxSetups = 1
    MaxLateSetups = 0
INVARIANT ExtractFindsTimer
CHECK_DEADLOCK FALSE
