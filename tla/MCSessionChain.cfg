CONSTANTS
    f1 = f1  r1 = r1  p1 = p1
    Finalizers = {f1}
    Reapers = {r1}
    Proposals = {p1}
    MaxSessions = 2
    MaxRestores = 1
    MaxFaults = 1
SPECIFICATION FairSpec
INVARIANTS TypeOK ActiveIsNamed CommitKept HandedOverWasSealed
PROPERTIES SealingEnds
CHECK_DEADLOCK FALSE
