CONSTANTS
    Grids = {{2, 4, 6, 8}, {1, 5, 9}}
    Drift = 1
    MaxDelay = 2
    MaxTime = 6
    MaxTasks = 2
SPECIFICATION Spec
PROPERTIES ReplacementRuns
CHECK_DEADLOCK FALSE
