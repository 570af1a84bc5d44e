CONSTANTS
    r1 = r1  r2 = r2
    Requests = {r1, r2}
    NoRequest = NoRequest
    MaxDefers = 1
    MaxPatches = 2
    MaxCrashes = 0
SPECIFICATION Spec
CHECK_DEADLOCK FALSE
PROPERTIES CancelAlwaysHolds
