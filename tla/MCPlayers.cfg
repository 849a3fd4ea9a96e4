SPECIFICATION PlayersSpec
CONSTANTS
    Names = {"a_b", "axb"}
    AlikePairs <- MCAlikePairs
    MaxPending = 1
    BusSize = 1
    MaxSessions = 2
    MaxLog = 2
    Lookalikes <- MCLookalikes
CHECK_DEADLOCK FALSE
INVARIANTS
    CountedOnce
PROPERTIES
    ShownIsTrue
