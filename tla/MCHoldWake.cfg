CONSTANTS
    r1 = r1  r2 = r2
    Requests = {r1, r2}
    NoRequest = NoRequest
    MaxDefers = 1
    MaxPatches = 3
    MaxCrashes = 2
SPECIFICATION FairSpec
INVARIANTS TypeOK CancelledOrWokenOnce
PROPERTIES IsOneShotWake HoldEnds
CHECK_DEADLOCK FALSE
