CONSTANTS
    c1 = c1  c2 = c2
    t1 = t1  t2 = t2  t3 = t3
    None = None
    Cats = {c1, c2}
    Turns = {t1, t2}
    MaxFaults = 2
    MaxCrashes = 0
SPECIFICATION Spec
INVARIANTS NothingLost
CHECK_DEADLOCK FALSE
