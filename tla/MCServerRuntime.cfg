SPECIFICATION FairSpec
CONSTANTS
    c1 = c1
    c2 = c2
    auto = auto
    nobody = nobody
    Clients <- MCClients
    Restarter = auto
    NoTask = nobody
    Mode = "ON_CRASH"
    MaxCrashes = 3
    GracefulSignal = TRUE
    MaxSpawns = 3
    MaxRequests = 3
    MaxMsmStops = 1
INVARIANTS
    OneServerProcess
PROPERTIES
    PanelStopSticks
    ImplementsContract
    StopEndsTheServer
    RequestsAreAnswered
CHECK_DEADLOCK FALSE
