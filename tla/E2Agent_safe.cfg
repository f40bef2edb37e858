CONSTANTS
    Ids = {1021, 1022}
    Aperiodic = {1021, 1022}
    Controls = {}
    Lists = {"rs1_param3", "rs1_param4"}
    Reports <- MCReports
    Conditions <- MCConditions
    Tries = 2
    MaxRequests = 2
    MaxSignals = 1
    MaxResends = 1
    MaxLosses = 1
SPECIFICATION FairSpec
INVARIANTS TypeOK PipeSound ListedIsRegistered AbortCauses
PROPERTIES IndicationsSpec IndicationSent RequestAnswered
CHECK_DEADLOCK FALSE
