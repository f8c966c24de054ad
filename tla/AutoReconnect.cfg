CONSTANTS
    Drop = Drop
    News = News
    Measured = {Drop}
    Notice = {News, Release}
    Release = Release
    NoticeLimit = 1
    Cooldown = 1
    MaxAttempts = 2
    Window = 3
    MaxTime = 2
    MaxRestarts = 1
    MaxArmings = 2
    MaxChanges = 1
    MaxDrops = 3
    Reported <- MCArmings
SPECIFICATION ReconnectSpec
INVARIANTS ConditionsStand AnnouncedOnce WithinLimits
CHECK_DEADLOCK FALSE
