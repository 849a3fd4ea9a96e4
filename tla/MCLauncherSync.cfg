SPECIFICATION Spec
CONSTANTS
    mod = mod
    conf = conf
    None = None
    Paths <- MCPaths
    Narrow = {mod}
    Jars = {mod}
    Versions = {1, 2}
    Own = 0
    ClientSide <- MCClientSide
    Manifests <- MCManifests
    MassMin = 1
    Requests <- MCRequests
    MaxActs = 2
    MaxQueue = 2
INVARIANTS
    DisabledStaysDisabled
    CacheIsTrue
PROPERTIES
    NoSwapUnderTheServer
    OnlyOursGo
    StartsEnd
CHECK_DEADLOCK FALSE
