SPECIFICATION FairSpec
CONSTANTS
    None <- NoParent
    Exec = {1, 2, 3}
    Timed = {2}
    Stubborn = {1, 3}
    Failing = {2}
    HistorySize = 2
    MaxCancels = 1
    MaxFailures = 1
    MaxStops = 1
INVARIANTS ReasonExplains CancelTreeReaches
PROPERTIES EndsOnce EventuallyEnds
CHECK_DEADLOCK FALSE
