SPECIFICATION NoticesSpec
CONSTANTS
    Policies <- MCPolicies
    QueueSize = 3
    MaxAttempts = 2
    Ticked = {"crash", "mine", "restart"}
CHECK_DEADLOCK FALSE
PROPERTIES
    CrashIsTold
    OffIsQuiet
    GivesUp
    BackoffGrows
