SPECIFICATION Spec
CONSTANTS
    Day = 6
    Hour = 1
    Tasks = {t1, t2}
    Rules <- BothRules
    Period = 1
    Grace = 5
    MaxRun = 2
    Horizon = 12
    MaxRequests = 2
    MaxStops = 1
INVARIANTS
    RulesAreKept
    NothingForgotten
PROPERTIES
    NeverTwice
    MissedOnlyWhenDown
CHECK_DEADLOCK FALSE
