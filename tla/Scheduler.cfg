CONSTANTS
    nightly = nightly
    checks = checks
    Schedule = {nightly, checks}
    None = None
    Job = {1, 2, 3}
    CadenceOf <- MCCadenceOf
    MinutesInHour = 2
    HoursInDay = 2
    DaysInWeek = 2
    Memory = 2
    MaxTime = 4
    MaxStops = 2
    MaxEdits = 1
SPECIFICATION SchedSpec
INVARIANTS NextRunIsSoonest NeverRunsDouble EndIsTold
PROPERTY DueIsHandled
CHECK_DEADLOCK FALSE
