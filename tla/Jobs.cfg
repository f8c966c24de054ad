CONSTANTS
    j1 = j1
    j2 = j2
    ana = ana
    ben = ben
    Job = {j1, j2}
    Fresh = {j1}
    NoJob = NoJob
    NoOp = NoOp
    Op <- MCOps
    Req <- MCReq
    Approver = {ana, ben}
    Rerunner = Rerunner
SPECIFICATION JobsSpec
INVARIANTS OneRunPerApproval RunsWhole RetryNeverBeside InterruptedIsAnswered
PROPERTIES KeepsJobLife ApprovedJobEnds
CHECK_DEADLOCK FALSE
