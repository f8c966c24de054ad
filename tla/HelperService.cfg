CONSTANTS
    upgrade = upgrade
    appA = appA
    restart1 = restart1
    restart2 = restart2
    Req = {upgrade, appA}
    RestartTask = {restart1, restart2}
    Task = {upgrade, appA, restart1, restart2}
    NoTask = NoTask
    Limits = {1, 2}
    LanesOf <- MCLanesOf
    AppLane <- MCAppLane
    OtherLane <- MCOtherLane
    LaneSets <- MCLaneSets
SPECIFICATION SvcSpec
SYMMETRY RestartSymmetry
INVARIANTS AdmissionExact RestartCutsNothing RestartOwed
PROPERTY KeepsContract
CHECK_DEADLOCK FALSE
