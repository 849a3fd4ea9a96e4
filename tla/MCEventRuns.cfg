SPECIFICATION FairSpec
CONSTANTS
    Sequences <- MCSequences
    ByHand = {"title", "kill"}
    MaxCancels = 2
    MaxFailures = 1
    MaxLives = 2
    MaxChanges = 2
INVARIANTS
    OnlyWhatWasAllowed
    TitlesKeepTheirTimes
PROPERTIES
    HistoryCloses
    HistoryIsTrue
CHECK_DEADLOCK FALSE
