CONSTANTS
    nightly = nightly
    after = after
    Flow = {nightly, after}
    None = None
    Job = {1, 2, 3}
    Versions <- MCVersions
    FirstSteps <- MCFirstSteps
    FirstTrigger <- MCFirstTrigger
    ChainLimit = 2
    MaxStories = 2
    MaxStops = 1
    MaxEdits = 1
SPECIFICATION FlowsSpec
INVARIANTS OneStepAtATime RepeatsOnlyFailures
PROPERTY RunningIsAnswered
CHECK_DEADLOCK FALSE
