CONSTANTS
    keeper = keeper
    relay = relay
    scout = scout
    Agent = {keeper, relay, scout}
    Delegates <- MCDelegates
    RunsPerDay <- MCRunsPerDay
    MaxDepth = 2
    PerRun = 3
    QueueMax = 2
    MaxRoots = 1
    MaxParts = 2
    MaxFaults = 1
SPECIFICATION AgentsSpec
INVARIANTS AnswersFinal FollowUpKept KillHolds HandedOutOnce
CHECK_DEADLOCK FALSE
