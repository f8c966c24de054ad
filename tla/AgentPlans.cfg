CONSTANTS
    j1 = j1
    j2 = j2
    j3 = j3
    Job = {j1, j2, j3}
    None = None
    Kinds <- MCKinds
    CheckTries = 2
    Advance = {1, 2}
    MaxStops = 1
    MaxTouches = 2
SPECIFICATION PlansSpec
INVARIANT StagedInOrder
PROPERTIES EndedPlanStays PlanEnds
CHECK_DEADLOCK FALSE
