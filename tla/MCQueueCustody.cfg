CONSTANTS
    c1 = c1  c2 = c2
    t1 = t1  t2 = t2
    None = None
    Cats = {c1, c2}
    Turns = {t1, t2}
    MaxFaults = 1
    MaxCrashes = 1
SPECIFICATION Spec
SYMMETRY Symmetry
CONSTRAINTS OneMishap ShortQueue EarlyRemove
INVARIANTS TypeOK NothingLost
PROPERTIES AnsweredNotStarted
CHECK_DEADLOCK FALSE
