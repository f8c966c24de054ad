CONSTANTS
    r1 = r1
    r2 = r2
    r3 = r3
    r4 = r4
    r5 = r5
    Read = {r1, r2, r3, r4, r5}
    readLimit = 2
    maxWaiting = 2
SPECIFICATION GateSpec
PROPERTIES AbandonedNeverStarts WaitingEnds
CHECK_DEADLOCK FALSE
