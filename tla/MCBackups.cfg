SPECIFICATION Spec
CONSTANTS
    MaxBackups = 3
    Kept = 1
    Retention = 2
    MaxUserBackups = 2
    MaxStarts = 1
    MaxStops = 1
    MaxFailures = 1
    MaxCancels = 1
    MaxRestores = 2
    MaxDeletes = 1
    MaxRestarts = 1
    Paths <- MCPaths
    Contents = {old, new}
    Dirs = {"world", "nether", "plugins"}
    Root = "."
    Top <- MCTop
    LevelDat <- MCLevelDat
    RootFiles = {}
    ConfigDirs = {}
    PluginData = {"plugins/m/config.yml"}
    Jars = {"plugins/m.jar"}
    Excluded = {"world/session.lock"}
    Untouchable = {"nether"}
    Barred = {"nether/level.dat"}
INVARIANTS
    SavingComesBack
    ArchivesAreKept
    CopyIsConsistent
    SafetyNet
CHECK_DEADLOCK FALSE
