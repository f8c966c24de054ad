CONSTANTS
    j1 = j1
    j2 = j2
    Job = {j1, j2}
    None = None
    KindOf <- MCKindOf
    s1 = s1
    s2 = s2
    Sweep = {s1, s2}
    PerHour = 1
    MaxStops = 1
    MaxEdits = 1
SPECIFICATION PushSpec
INVARIANT PushedOnce
PROPERTY WaitingIsHandled
CHECK_DEADLOCK FALSE
