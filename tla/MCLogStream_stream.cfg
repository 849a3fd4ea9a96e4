SPECIFICATION FairStreamSpec
CONSTANTS
    HistoryLines = 2
    QueueSize = 2
    FlushLines = 2
    DefaultBacklog = 1
    MaxBacklog = 1
    MaxLives = 2
    MaxHappenings = 6
INVARIANTS
    ShownInOrder
    NothingLostUncounted
PROPERTIES
    ConsoleCatchesUp
CHECK_DEADLOCK FALSE
