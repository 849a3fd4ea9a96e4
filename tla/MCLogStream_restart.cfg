SPECIFICATION FairStreamSpec
CONSTANTS
    HistoryLines = 4
    QueueSize = 4
    FlushLines = 2
    DefaultBacklog = 2
    MaxBacklog = 4
    MaxLives = 2
    MaxHappenings = 5
PROPERTIES
    ConsoleFollowsRestart
CHECK_DEADLOCK FALSE
