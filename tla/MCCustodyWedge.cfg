CONSTANTS
    c1 = c1  c2 = c2
    t1 = t1  t2 = t2
    None = None
    Cats = {c1, c2}
    Turns = {t1, t2}
    MaxFaults = 0
    MaxCrashes = 0
SPECIFICATION Spec
SYMMETRY Symmetry
INVARIANTS QueuedIsStorable
CHECK_DEADLOCK FALSE
