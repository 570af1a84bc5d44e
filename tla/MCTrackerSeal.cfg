CONSTANTS
    codex = codex  opus = opus  alice = alice
    x1 = x1  x2 = x2  x3 = x3
    NoSlot = NoSlot
    Cats = {codex, opus}
    Users = {alice}
    Runs = {x1, x2}
    Single = {x2}
    TargetsOf <- MCTargetsOf
    UserOf <- MCUserOf
SPECIFICATION Spec
INVARIANTS SealWaitsForTeardown
CHECK_DEADLOCK FALSE
