CONSTANTS
    Task = {t1, t2, t3}
    NoTask = NoTask
    AppLane <- MCAppLane
    OtherLane <- MCOtherLane
    LaneSets <- MCLaneSets
    Requests <- Ordinary
SPECIFICATION OpSpec
INVARIANTS OneOperationPerApp SharedPartsStayStill
PROPERTIES ImplementsLaneLock EveryRequestEnds
CHECK_DEADLOCK FALSE
