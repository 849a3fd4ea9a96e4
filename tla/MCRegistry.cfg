SPECIFICATION Spec
CONSTANTS
    Servers = {"a", "b"}
    Dirs = {"A", "B"}
    Home <- MCHome
    Asked = {"a"}
    Slots = {i1, i2}
    MaxActs = 2
    MaxStops = 1
    MaxProcs = 2
    None = None
SYMMETRY Symmetry
CHECK_DEADLOCK FALSE
INVARIANTS
    EveryProcessIsHeld
    RowsTellWhatRuns
    FilesAreKept
