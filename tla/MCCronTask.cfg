CONSTANTS
    Grids = {{2, 4, 6, 8}, {1, 5, 9}}
    Drift = 1
    MaxDelay = 2
    MaxTime = 6
    MaxTasks = 2
SPECIFICATION FairSpec
INVARIANTS TypeOK OnSchedule NoReentry
PROPERTIES FiredOnce CurrentRuns CatchesUp
CHECK_DEADLOCK FALSE
